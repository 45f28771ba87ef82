----------------------------- MODULE BenchProofs -----------------------------
(***************************************************************************)
(* The programs of the benchmark: a batch of attempts in shards, the label *)
(* sheet and the loop of the agent, for any number of processes, shards,   *)
(* attempts and pairs, and any budgets.                                    *)
(***************************************************************************)
EXTENDS BenchAgent, BenchBatch, LabelSheet, TLAPS

-----------------------------------------------------------------------------
\* What appending does to the values of a sequence.
LEMMA AppendRange ==
    ASSUME NEW S, NEW s \in Seq(S), NEW e \in S
    PROVE  /\ Append(s, e) \in Seq(S)
           /\ Range(Append(s, e)) = Range(s) \cup {e}
<1> DEFINE t == Append(s, e)
<1>1. /\ t \in Seq(S) /\ Len(t) = Len(s) + 1
      /\ DOMAIN t = 1 .. Len(s) + 1 /\ DOMAIN s = 1 .. Len(s) /\ Len(s) \in Nat
      /\ t[Len(s) + 1] = e /\ \A i \in 1 .. Len(s) : t[i] = s[i]
  OBVIOUS
<1> HIDE DEF t
<1>2. Range(t) \subseteq Range(s) \cup {e}
  BY <1>1 DEF Range
<1>3. Range(s) \subseteq Range(t)
  BY <1>1 DEF Range
<1>4. e \in Range(t)
  BY <1>1 DEF Range
<1> QED
  BY <1>1, <1>2, <1>3, <1>4 DEF t

\* A new value keeps a sequence without repetition.
LEMMA AppendInjective ==
    ASSUME NEW S, NEW s \in Seq(S), NEW e \in S, IsInjective(s), e \notin Range(s)
    PROVE  IsInjective(Append(s, e))
<1> DEFINE t == Append(s, e)
<1>1. /\ DOMAIN t = 1 .. Len(s) + 1 /\ DOMAIN s = 1 .. Len(s) /\ Len(s) \in Nat
      /\ t[Len(s) + 1] = e /\ \A i \in 1 .. Len(s) : t[i] = s[i]
  OBVIOUS
<1>2. \A i \in 1 .. Len(s) : s[i] # e
  BY <1>1 DEF Range
<1> HIDE DEF t
<1> SUFFICES IsInjective(t)
  BY DEF t
<1> QED
  BY <1>1, <1>2 DEF IsInjective

-----------------------------------------------------------------------------
Keys == Range(Planned)

\* The ledger and the store hold planned attempts; a process has a shard, and
\* what it has to do is in that shard.
BatchTyped ==
    /\ ledger \in Seq(Keys) /\ stored \in Seq(Keys) /\ overlapped \in BOOLEAN
    /\ worker \in [Processes -> [pc : {"new", "running", "graded", "done", "dead"},
                                 shard : Nat, todo : SUBSET DOMAIN Planned]]
    /\ \A p \in Processes : worker[p].pc # "new" => worker[p].todo \subseteq Mine(worker[p].shard)

\* What a started process will not do is in the ledger; a graded attempt is in
\* the store.
WorkAccounted ==
    /\ Range(ledger) \subseteq Range(stored)
    /\ \A p \in Processes :
           /\ worker[p].pc # "new" =>
                  \A k \in Mine(worker[p].shard) : k \in worker[p].todo \/ Planned[k] \in Range(ledger)
           /\ worker[p].pc = "done" => worker[p].todo = {}
           /\ worker[p].pc = "graded" => \A k \in DOMAIN Planned : At(p, k) => Planned[k] \in Range(stored)

\* While shards do not overlap, nothing that is still to be done was recorded.
ShardsApart ==
    ~overlapped =>
        /\ IsInjective(ledger)
        /\ \A p \in Processes : Working(p) => \A k \in worker[p].todo : Planned[k] \notin Range(ledger)
        /\ \A p, q \in Processes : Working(p) /\ Working(q) /\ p # q => worker[p].shard # worker[q].shard

BatchHolds == BatchTyped /\ WorkAccounted /\ ShardsApart

\* Nothing is planned twice, and shards have no position in common.
LEMMA PlannedOnce ==
    /\ \A k \in DOMAIN Planned : Planned[k] \in Keys
    /\ \A j, k \in DOMAIN Planned : Planned[j] = Planned[k] => j = k
    /\ \A shard, other : \A k \in DOMAIN Planned : k \in Mine(shard) /\ k \in Mine(other) => shard = other
  BY PlannedAssumption DEF Keys, Range, IsInjective, Mine

\* At the start nothing is recorded and no process works.
LEMMA BatchHoldsInit == BatchInit => BatchHolds
<1> SUFFICES ASSUME BatchInit PROVE BatchHolds
  OBVIOUS
<1>1. <<>> \in Seq(Keys) /\ Range(<<>>) = {} /\ IsInjective(<<>>)
  BY DEF Range, IsInjective
<1>2. BatchTyped
  BY <1>1 DEF BatchInit, BatchTyped
<1>3. WorkAccounted
  BY <1>1 DEF BatchInit, WorkAccounted
<1>4. ShardsApart
  BY <1>1 DEF BatchInit, ShardsApart, Working
<1> QED
  BY <1>2, <1>3, <1>4 DEF BatchHolds

\* Each step of a process keeps its account of its shard, and the others'.
LEMMA BatchHoldsStep == BatchHolds /\ [BatchNext]_batchVars => BatchHolds'
<1> SUFFICES ASSUME BatchHolds, [BatchNext]_batchVars PROVE BatchHolds'
  OBVIOUS
<1> USE DEF BatchHolds
<1>1. ASSUME NEW p \in Processes, NEW shard \in 0 .. Shards - 1, StartBatch(p, shard) PROVE BatchHolds'
  <2>1. Remaining(shard) \subseteq Mine(shard) /\ Mine(shard) \subseteq DOMAIN Planned /\ shard \in Nat
    BY ShardsAssumption DEF Remaining, Mine
  <2>2. /\ worker' = [worker EXCEPT ![p] = [pc |-> "running", shard |-> shard, todo |-> Remaining(shard)]]
        /\ UNCHANGED <<ledger, stored>>
        /\ overlapped' = (overlapped \/ \E q \in Processes : Working(q) /\ worker[q].shard = shard)
        /\ worker[p].pc = "new"
    BY <1>1 DEF StartBatch
  <2>3. BatchTyped'
    BY <2>1, <2>2 DEF BatchTyped, Mine
  <2>4. WorkAccounted'
    BY <2>1, <2>2 DEF BatchTyped, WorkAccounted, Remaining, At, Mine
  <2>5. ShardsApart'
    BY <2>1, <2>2 DEF BatchTyped, ShardsApart, Remaining, Working
  <2> QED
    BY <2>3, <2>4, <2>5
<1>2. ASSUME NEW p \in Processes, Attempt(p) PROVE BatchHolds'
  <2>1. PICK k \in worker[p].todo : At(p, k) /\ stored' = Append(stored, Planned[k])
    BY <1>2 DEF Attempt
  <2>2. worker[p].pc = "running" /\ worker' = [worker EXCEPT ![p].pc = "graded"] /\ UNCHANGED <<ledger, overlapped>>
    BY <1>2 DEF Attempt
  <2>3. k \in DOMAIN Planned /\ DOMAIN Planned \subseteq Nat
    BY PlannedAssumption DEF BatchTyped
  <2>4. stored' \in Seq(Keys) /\ Range(stored') = Range(stored) \cup {Planned[k]}
    BY <2>1, <2>3, PlannedOnce, AppendRange DEF BatchTyped
  <2>5. BatchTyped'
    BY <2>2, <2>4 DEF BatchTyped, Mine
  <2>6. \A j \in DOMAIN Planned : At(p, j) => j = k
    BY <2>1, <2>3 DEF At
  <2>7. WorkAccounted'
    <3>1. \A q \in Processes : /\ worker'[q].todo = worker[q].todo /\ worker'[q].shard = worker[q].shard
                               /\ q # p => worker'[q] = worker[q]
                               /\ q = p => worker'[q].pc = "graded" /\ worker[q].pc = "running"
      BY <2>2 DEF BatchTyped
    <3>2. \A q \in Processes : \A j : At(q, j)' <=> At(q, j)
      BY <3>1 DEF At
    <3> QED
      BY <2>2, <2>4, <2>6, <3>1, <3>2 DEF WorkAccounted, Mine
  <2>8. ShardsApart'
    BY <2>2 DEF BatchTyped, ShardsApart, Working
  <2> QED
    BY <2>5, <2>7, <2>8
<1>3. ASSUME NEW p \in Processes, RecordAttempt(p) PROVE BatchHolds'
  <2>1. PICK k \in worker[p].todo :
            /\ At(p, k) /\ ledger' = Append(ledger, Planned[k])
            /\ worker' = [worker EXCEPT ![p].pc = "running", ![p].todo = @ \ {k}]
    BY <1>3 DEF RecordAttempt
  <2>2. worker[p].pc = "graded" /\ UNCHANGED <<stored, overlapped>>
    BY <1>3 DEF RecordAttempt
  <2>3. k \in DOMAIN Planned /\ Planned[k] \in Keys /\ k \in Mine(worker[p].shard)
    BY <2>2, PlannedOnce DEF BatchTyped
  <2>4. ledger' \in Seq(Keys) /\ Range(ledger') = Range(ledger) \cup {Planned[k]}
    BY <2>1, <2>3, AppendRange DEF BatchTyped
  <2>5. BatchTyped'
    BY <2>1, <2>2, <2>4 DEF BatchTyped, Mine
  <2>6. WorkAccounted'
    BY <2>1, <2>2, <2>3, <2>4 DEF BatchTyped, WorkAccounted, At, Mine
  <2>7. ShardsApart'
    <3> SUFFICES ASSUME ~overlapped PROVE ShardsApart'
      BY <2>2 DEF ShardsApart
    <3>1. IsInjective(ledger')
      BY <2>1, <2>2, <2>3, AppendInjective DEF BatchTyped, ShardsApart, Working
    <3>2. \A q, r \in Processes : Working(q)' /\ Working(r)' /\ q # r => worker'[q].shard # worker'[r].shard
      BY <2>1, <2>2 DEF BatchTyped, ShardsApart, Working
    <3>3. ASSUME NEW q \in Processes, Working(q)', NEW j \in worker'[q].todo
          PROVE  Planned[j] \notin Range(ledger')
      <4>1. Working(q) /\ Working(p) /\ j \in worker[q].todo /\ worker'[q].shard = worker[q].shard
        BY <2>1, <2>2, <3>3 DEF BatchTyped, Working
      <4>2. j \in DOMAIN Planned /\ j \in Mine(worker[q].shard) /\ Planned[j] \notin Range(ledger)
        BY <4>1 DEF BatchTyped, ShardsApart, Working
      <4>3. j # k
        <5>1. CASE q = p
          BY <2>1, <3>3, <5>1 DEF BatchTyped
        <5>2. CASE q # p
          BY <2>3, <4>1, <4>2, <5>2, PlannedOnce DEF ShardsApart
        <5> QED
          BY <5>1, <5>2
      <4> QED
        BY <2>3, <2>4, <4>2, <4>3, PlannedOnce
    <3> QED
      BY <2>2, <3>1, <3>2, <3>3 DEF ShardsApart
  <2> QED
    BY <2>5, <2>6, <2>7
<1>4. ASSUME NEW p \in Processes, FinishBatch(p) PROVE BatchHolds'
  <2>1. BatchTyped'
    BY <1>4 DEF FinishBatch, BatchTyped, Mine
  <2>2. WorkAccounted'
    BY <1>4 DEF FinishBatch, BatchTyped, WorkAccounted, At, Mine
  <2>3. ShardsApart'
    BY <1>4 DEF FinishBatch, BatchTyped, ShardsApart, Working
  <2> QED
    BY <2>1, <2>2, <2>3
<1>5. ASSUME NEW p \in Processes, KillBatch(p) PROVE BatchHolds'
  <2>1. BatchTyped'
    BY <1>5 DEF KillBatch, Working, BatchTyped, Mine
  <2>2. WorkAccounted'
    BY <1>5 DEF KillBatch, BatchTyped, WorkAccounted, At, Mine, Working
  <2>3. ShardsApart'
    BY <1>5 DEF KillBatch, BatchTyped, ShardsApart, Working
  <2> QED
    BY <2>1, <2>2, <2>3
<1>6. ASSUME UNCHANGED batchVars PROVE BatchHolds'
  BY <1>6 DEF batchVars, BatchTyped, WorkAccounted, ShardsApart, At, Working, Mine
<1> QED
  BY <1>1, <1>2, <1>3, <1>4, <1>5, <1>6 DEF BatchNext

\* Every position is in a shard, so what every shard has done is everything.
LEMMA BatchHoldsIsEnough == BatchHolds => BatchIsExact
<1> SUFFICES ASSUME BatchHolds PROVE BatchIsExact
  OBVIOUS
<1> USE DEF BatchHolds
<1>1. AttemptsCountOnce
  BY DEF ShardsApart, AttemptsCountOnce
<1>2. Range(ledger) \subseteq Keys
  BY DEF BatchTyped, Range
<1>3. ASSUME \A shard \in 0 .. Shards - 1 :
                 \E p \in Processes : worker[p].pc = "done" /\ worker[p].shard = shard
      PROVE  Keys \subseteq Range(ledger)
  <2> SUFFICES ASSUME NEW k \in DOMAIN Planned PROVE Planned[k] \in Range(ledger)
    BY DEF Keys, Range
  <2>1. k \in Nat \ {0}
    BY PlannedAssumption
  <2>2. (k - 1) % Shards \in 0 .. Shards - 1
    BY <2>1, ShardsAssumption
  <2>3. PICK p \in Processes : worker[p].pc = "done" /\ worker[p].shard = (k - 1) % Shards
    BY <1>3, <2>2
  <2>4. k \in Mine(worker[p].shard)
    BY <2>3 DEF Mine
  <2> QED
    BY <2>3, <2>4 DEF WorkAccounted
<1> QED
  BY <1>1, <1>2, <1>3 DEF BatchIsExact, BatchCompletes, WorkAccounted, Keys

\* batch() in bench/runner.py: whatever processes die, once every shard has had
\* one that finished, the ledger holds every planned attempt; and it holds each
\* once as long as no shard was given to two processes at the same time.
THEOREM BatchCollectsAll == BatchSpec => []BatchIsExact
<1>1. BatchSpec => []BatchHolds
  BY BatchHoldsInit, BatchHoldsStep, PTL DEF BatchSpec
<1> QED
  BY <1>1, BatchHoldsIsEnough, PTL

-----------------------------------------------------------------------------
Exporting == desk.pc \in {"packets", "key", "sheet", "blank"}
Labelling == desk.pc \in {"label", "write", "save"}
Rows == Seq(Pairs \cup {0})

LabelTyped ==
    /\ packets \in Seq(Pairs) /\ (key = Missing \/ key \in Seq(Pairs)) /\ sheet \in Rows
    /\ exists \in BOOLEAN /\ torn \in BOOLEAN
    /\ desk \in [pc : {"off", "packets", "key", "sheet", "blank", "label", "write", "save"},
                 selection : Seq(Pairs), rows : Rows]
    /\ \A a \in answers : a[2] # 0

\* Two functions agree where both are defined; labels agree where they are given.
Agree(f, g) == \A k \in DOMAIN f \cap DOMAIN g : f[k] = g[k]
Labels(rows, shown) == \A k \in DOMAIN rows \cap DOMAIN shown : rows[k] # 0 => rows[k] = shown[k]

\* The files of an export: what is written so far belongs to one selection.
ExportHolds ==
    /\ key # Missing => Agree(packets, key)
    /\ Exporting => Agree(packets, desk.selection)
    /\ desk.pc = "packets" => \/ key = Missing /\ ~exists
                              \/ key = desk.selection /\ exists
    /\ desk.pc = "key" => key = <<>>
    /\ desk.pc \in {"sheet", "blank"} => key = desk.selection
    /\ desk.pc = "blank" => sheet = <<>> /\ exists
    /\ ~exists => sheet = <<>>

\* The labels of a sheet or of a running pass are those of the pairs shown.
LabelsHold ==
    /\ Labels(sheet, packets) /\ Labels(desk.rows, packets)
    /\ key # Missing => Labels(sheet, key) /\ Labels(desk.rows, key)
    /\ Exporting => Labels(sheet, desk.selection) /\ desk.rows = <<>>
    /\ desk.pc \in {"write", "save"} => sheet = <<>> /\ exists
    /\ desk.pc = "off" => desk.rows = <<>>

\* A pass that runs knows every answer that was written.
AnswersHold ==
    ~torn =>
        /\ Labelling => \A a \in answers : a[1] \in DOMAIN desk.rows /\ desk.rows[a[1]] = a[2]
        /\ ~Rewriting => \A a \in answers : a[1] \in DOMAIN sheet /\ sheet[a[1]] = a[2]

LabelHolds == LabelTyped /\ ExportHolds /\ LabelsHold /\ AnswersHold

\* Before the first export there is nothing.
LEMMA LabelHoldsInit == LabelInit => LabelHolds
<1> SUFFICES ASSUME LabelInit PROVE LabelHolds
  OBVIOUS
<1>1. /\ packets = <<>> /\ key = Missing /\ sheet = <<>> /\ exists = FALSE
      /\ desk.pc = "off" /\ desk.rows = <<>> /\ answers = {} /\ torn = FALSE
  BY DEF LabelInit, Off
<1>2. LabelTyped
  <2>1. <<>> \in Seq(Pairs) /\ <<>> \in Rows
    BY DEF Rows
  <2>2. desk \in [pc : {"off", "packets", "key", "sheet", "blank", "label", "write", "save"},
                 selection : Seq(Pairs), rows : Rows]
    BY <2>1 DEF LabelInit, Off
  <2> QED
    BY <1>1, <2>1, <2>2 DEF LabelTyped
<1>3. ExportHolds
  BY <1>1 DEF ExportHolds, Exporting
<1>4. LabelsHold
  BY <1>1 DEF LabelsHold, Labels, Exporting
<1>5. AnswersHold
  BY <1>1 DEF AnswersHold
<1> QED
  BY <1>2, <1>3, <1>4, <1>5 DEF LabelHolds

\* A sequence of pairs is not the mark of a missing key.
LEMMA NotMissing == \A s \in Seq(Pairs) : s # Missing
  BY SamplesAssumption DEF Missing

\* Each write of an export, of a pass and of a kill keeps the labels.
LEMMA LabelHoldsStep == LabelHolds /\ [LabelNext]_labelVars => LabelHolds'
<1> SUFFICES ASSUME LabelHolds, [LabelNext]_labelVars PROVE LabelHolds'
  OBVIOUS
<1> USE DEF LabelHolds, LabelTyped
<1>a. <<>> \in Seq(Pairs) /\ <<>> \in Rows /\ DOMAIN <<>> = {}
  BY DEF Rows
<1>b. Off.pc = "off" /\ Off.selection = <<>> /\ Off.rows = <<>>
  BY DEF Off
<1>1. ASSUME NEW selection \in Samples, BeginExport(selection) PROVE LabelHolds'
  <2>1. /\ desk' = [pc |-> "packets", selection |-> selection, rows |-> <<>>] /\ packets' = <<>>
        /\ GuardExport(selection) /\ UNCHANGED <<key, sheet, exists, answers, torn>> /\ desk.pc = "off"
    BY <1>1 DEF BeginExport
  <2>2. selection \in Seq(Pairs)
    BY SamplesAssumption
  <2>3. (key = Missing /\ ~exists) \/ (key = selection /\ exists)
    BY <2>1, <2>2, NotMissing DEF GuardExport
  <2>4. LabelTyped'
    BY <1>a, <2>1, <2>2
  <2>5. ExportHolds'
    BY <1>a, <2>1, <2>3 DEF ExportHolds, Agree, Exporting
  <2>6. LabelsHold'
    BY <1>a, <2>1, <2>2, <2>3, NotMissing DEF LabelsHold, ExportHolds, Labels, Exporting
  <2>7. AnswersHold'
    BY <2>1 DEF AnswersHold, Labelling, Rewriting
  <2> QED
    BY <2>4, <2>5, <2>6, <2>7
<1>2. ASSUME WritePacket PROVE LabelHolds'
  <2>1. /\ packets' = Append(packets, desk.selection[Len(packets) + 1]) /\ Len(packets) < Len(desk.selection)
        /\ UNCHANGED <<key, sheet, exists, desk, answers, torn>> /\ desk.pc = "packets"
    BY <1>2 DEF WritePacket
  <2>2. /\ packets' \in Seq(Pairs) /\ DOMAIN packets' = DOMAIN packets \cup {Len(packets) + 1}
        /\ Len(packets) + 1 \in DOMAIN desk.selection
        /\ packets'[Len(packets) + 1] = desk.selection[Len(packets) + 1]
        /\ \A k \in DOMAIN packets : packets'[k] = packets[k]
    BY <2>1
  <2>3. Agree(packets', desk.selection)
    BY <2>1, <2>2 DEF ExportHolds, Agree, Exporting
  <2>4. Labels(sheet, packets') /\ Labels(desk.rows, packets')
    BY <2>1, <2>2 DEF LabelsHold, Labels, Exporting
  <2>5. ExportHolds'
    BY <2>1, <2>3 DEF ExportHolds, Agree, Exporting
  <2>6. LabelsHold'
    BY <2>1, <2>4 DEF LabelsHold, Labels, Exporting
  <2>7. AnswersHold'
    BY <2>1 DEF AnswersHold, Labelling, Rewriting
  <2> QED
    BY <2>1, <2>2, <2>5, <2>6, <2>7
<1>3. ASSUME OpenKey PROVE LabelHolds'
  <2>1. LabelTyped' /\ ExportHolds'
    BY <1>3, <1>a DEF OpenKey, ExportHolds, Agree, Exporting
  <2>2. LabelsHold' /\ AnswersHold'
    BY <1>3, <1>a DEF OpenKey, LabelsHold, AnswersHold, Labels, Exporting, Labelling, Rewriting
  <2> QED
    BY <2>1, <2>2
<1>4. ASSUME WriteKey PROVE LabelHolds'
  <2>1. LabelTyped' /\ ExportHolds'
    BY <1>4, NotMissing DEF WriteKey, ExportHolds, Agree, Exporting
  <2>2. LabelsHold' /\ AnswersHold'
    BY <1>4, <1>a DEF WriteKey, LabelsHold, AnswersHold, Labels, Exporting, Labelling, Rewriting
  <2> QED
    BY <2>1, <2>2
<1>5. ASSUME OpenSheet PROVE LabelHolds'
  <2>1. LabelTyped' /\ ExportHolds'
    BY <1>5, <1>a DEF OpenSheet, ExportHolds, Agree, Exporting, Off
  <2>2. LabelsHold' /\ AnswersHold'
    BY <1>5, <1>a DEF OpenSheet, LabelsHold, AnswersHold, Labels, Exporting, Labelling, Rewriting, Off
  <2> QED
    BY <2>1, <2>2
<1>6. ASSUME WriteBlank PROVE LabelHolds'
  <2>1. /\ sheet' = [k \in DOMAIN desk.selection |-> 0] /\ desk' = Off /\ desk.pc = "blank"
        /\ UNCHANGED <<packets, key, exists, answers, torn>>
    BY <1>6 DEF WriteBlank
  <2>2. sheet' \in Rows /\ \A k \in DOMAIN sheet' : sheet'[k] = 0
    BY <2>1 DEF Rows
  <2>3. sheet = <<>> /\ key # Missing /\ exists
    BY <2>1, NotMissing DEF ExportHolds
  <2>4. LabelTyped' /\ ExportHolds'
    BY <2>1, <2>2, <2>3, <1>a, <1>b DEF ExportHolds, Agree, Exporting, Off
  <2>5. LabelsHold'
    BY <2>1, <2>2, <1>a, <1>b DEF LabelsHold, Labels, Exporting
  <2>6. AnswersHold'
    BY <2>1, <2>3, <1>a, <1>b DEF AnswersHold, Labelling, Rewriting
  <2> QED
    BY <2>4, <2>5, <2>6
<1>7. ASSUME BeginLabels PROVE LabelHolds'
  <2>1. /\ desk' = [pc |-> "label", selection |-> <<>>, rows |-> SheetRows] /\ desk.pc = "off"
        /\ UNCHANGED <<packets, key, sheet, exists, answers, torn>>
    BY <1>7 DEF BeginLabels
  <2>2. Blank(packets) \in Rows /\ \A k \in DOMAIN Blank(packets) : Blank(packets)[k] = 0
    BY DEF Blank, Rows
  <2>3. SheetRows \in Rows /\ (SheetRows = sheet \/ (sheet = <<>> /\ SheetRows = Blank(packets)))
    BY <2>2 DEF SheetRows
  <2>4. LabelTyped' /\ ExportHolds'
    BY <2>1, <2>3, <1>a DEF ExportHolds, Exporting
  <2>5. Labels(SheetRows, packets) /\ (key # Missing => Labels(SheetRows, key))
    BY <2>2, <2>3 DEF LabelsHold, Labels
  <2>6. LabelsHold'
    BY <2>1, <2>5 DEF LabelsHold, Exporting
  <2>7. AnswersHold'
    BY <2>1, <2>3, <1>a DEF AnswersHold, Labelling, Rewriting
  <2> QED
    BY <2>4, <2>6, <2>7
<1>8. ASSUME NEW k \in DOMAIN desk.rows, Answer(k) PROVE LabelHolds'
  <2>1. /\ desk.pc = "label" /\ k \in DOMAIN packets /\ desk.rows[k] = 0
        /\ desk' = [desk EXCEPT !.pc = "write", !.rows[k] = packets[k]]
        /\ sheet' = <<>> /\ exists' = TRUE /\ UNCHANGED <<packets, key, answers, torn>>
    BY <1>8 DEF Answer
  <2>2. desk.rows \in Seq(Pairs \cup {0}) /\ packets[k] \in Pairs
    BY <2>1 DEF Rows
  <2>3. /\ desk'.pc = "write" /\ desk'.selection = desk.selection /\ desk'.rows = [desk.rows EXCEPT ![k] = packets[k]]
        /\ desk' \in [pc : {"off", "packets", "key", "sheet", "blank", "label", "write", "save"},
                      selection : Seq(Pairs), rows : Rows]
    <3>1. [desk.rows EXCEPT ![k] = packets[k]] \in Seq(Pairs \cup {0})
      BY <2>2
    <3> QED
      BY <2>1, <3>1 DEF Rows
  <2>4. DOMAIN desk'.rows = DOMAIN desk.rows /\ desk'.rows[k] = packets[k]
        /\ \A j \in DOMAIN desk.rows : j # k => desk'.rows[j] = desk.rows[j]
    BY <2>2, <2>3
  <2>5. LabelTyped' /\ ExportHolds'
    BY <2>1, <2>3, <1>a DEF ExportHolds, Exporting
  <2>6. Labels(desk'.rows, packets)
    BY <2>4 DEF LabelsHold, Labels
  <2>7. key # Missing => Labels(desk'.rows, key)
    BY <2>1, <2>4 DEF LabelsHold, ExportHolds, Labels, Agree
  <2>8. LabelsHold'
    BY <2>1, <2>3, <2>6, <2>7, <1>a DEF LabelsHold, Labels, Exporting
  <2>9. AnswersHold'
    BY <2>1, <2>3, <2>4 DEF AnswersHold, Labelling, Rewriting
  <2> QED
    BY <2>5, <2>8, <2>9
<1>9. ASSUME WriteSheet PROVE LabelHolds'
  <2>1. /\ sheet' = desk.rows /\ UNCHANGED <<packets, key, exists, torn>> /\ desk.pc \in {"write", "save"}
        /\ answers' = answers \cup {<<k, desk.rows[k]>> : k \in {j \in DOMAIN desk.rows : desk.rows[j] # 0}}
        /\ desk' = IF desk.pc = "save" THEN Off ELSE [desk EXCEPT !.pc = "label"]
    BY <1>9 DEF WriteSheet
  <2>2. (desk' = Off \/ (desk'.pc = "label" /\ desk'.rows = desk.rows)) /\ ~Exporting /\ ~Exporting'
    BY <2>1, <1>b DEF Exporting
  <2>3. LabelTyped' /\ ExportHolds'
    BY <2>1, <2>2, <1>a, <1>b DEF ExportHolds, LabelsHold, Exporting, Off
  <2>4. LabelsHold'
    BY <2>1, <2>2, <1>a, <1>b DEF LabelsHold, Labels
  <2>5. \A a \in answers' : a \in answers \/ (a[1] \in DOMAIN desk.rows /\ desk.rows[a[1]] = a[2])
    BY <2>1
  <2>6. AnswersHold'
    BY <2>1, <2>2, <2>5, <1>b DEF AnswersHold, Labelling, Rewriting
  <2> QED
    BY <2>3, <2>4, <2>6
<1>10. ASSUME Save PROVE LabelHolds'
  <2>1. LabelTyped' /\ ExportHolds'
    BY <1>10, <1>a DEF Save, ExportHolds, Exporting
  <2>2. LabelsHold' /\ AnswersHold'
    BY <1>10, <1>a DEF Save, LabelsHold, AnswersHold, Labels, Exporting, Labelling, Rewriting
  <2> QED
    BY <2>1, <2>2
<1>11. ASSUME EndLabels PROVE LabelHolds'
  <2>1. LabelTyped' /\ ExportHolds'
    BY <1>11, <1>a, <1>b DEF EndLabels, ExportHolds, Exporting, Off
  <2>2. LabelsHold' /\ AnswersHold'
    BY <1>11, <1>a, <1>b DEF EndLabels, LabelsHold, AnswersHold, Labels, Exporting, Labelling, Rewriting
  <2> QED
    BY <2>1, <2>2
<1>12. ASSUME KillDesk PROVE LabelHolds'
  <2>1. LabelTyped' /\ ExportHolds'
    BY <1>12, <1>a, <1>b DEF KillDesk, ExportHolds, Exporting, Off, Rewriting
  <2>2. LabelsHold' /\ AnswersHold'
    BY <1>12, <1>a, <1>b DEF KillDesk, LabelsHold, AnswersHold, Labels, Exporting, Labelling, Rewriting
  <2> QED
    BY <2>1, <2>2
<1>13. ASSUME UNCHANGED labelVars PROVE LabelHolds'
  BY <1>13 DEF labelVars, ExportHolds, LabelsHold, AnswersHold, Agree, Labels, Exporting, Labelling, Rewriting
<1> QED
  BY <1>1, <1>2, <1>3, <1>4, <1>5, <1>6, <1>7, <1>8, <1>9, <1>10, <1>11, <1>12, <1>13 DEF LabelNext

\* bench/label.py: whatever the corpus selects and wherever an export or a pass
\* is killed, a label stays with the pair its author saw, and an answer that was
\* written is lost only to a kill while the sheet is rewritten.
THEOREM LabelsStay == LabelSpec => []LabelsSurvive
<1>1. LabelSpec => []LabelHolds
  BY LabelHoldsInit, LabelHoldsStep, PTL DEF LabelSpec
<1>2. LabelHolds => LabelsSurvive
  <2> SUFFICES ASSUME LabelHolds PROVE LabelsSurvive
    OBVIOUS
  <2>1. LabelsStayWithTheirPair
    BY DEF LabelHolds, LabelsHold, Labels, LabelsStayWithTheirPair
  <2>2. AnswersAreKept
    BY DEF LabelHolds, LabelTyped, AnswersHold, AnswersAreKept
  <2> QED
    BY <2>1, <2>2 DEF LabelsSurvive
<1> QED
  BY <1>1, <1>2, PTL

-----------------------------------------------------------------------------
Traces ==
    [turns : Nat, actions : Nat, stalled : Nat, parse : Nat, repeats : Nat, edits : Nat,
     stop : {"running", "stuck", "step_budget", "submitted"}]
Observed == [sig : Actions, step : Nat, change : Nat]

AgentTyped ==
    /\ trace \in Traces
    /\ taken \subseteq Actions \X Nat
    /\ observations \in Seq(Observed)
    /\ change \in Nat /\ broke \in Nat

\* An observation is no newer than the files it is of.
ObservationsHold == \A k \in DOMAIN observations : observations[k].change <= change

\* Observation k is what the action of signature sig returned at the given step,
\* and what it would return now unless a file has stopped compiling since.
Answers(k, sig, step) ==
    /\ observations[k].sig = sig /\ observations[k].step = step
    /\ sig.name # "edit" /\ change # observations[k].change => broke > observations[k].change

\* Whatever counts as taken was observed, dropped from the context or not.
TakenHold == \A t \in taken : \E k \in DOMAIN observations : Answers(k, t[1], t[2])

AgentHolds == AgentTyped /\ ObservationsHold /\ TakenHold /\ RefusalsAreTrue /\ BudgetsHold

\* The first turn finds an empty context and full budgets.
LEMMA AgentHoldsInit == AgentInit => AgentHolds
<1> SUFFICES ASSUME AgentInit PROVE AgentHolds
  OBVIOUS
<1>1. AgentTyped
  BY DEF AgentInit, AgentTyped, Traces
<1>2. ObservationsHold /\ TakenHold /\ RefusalsAreTrue
  BY DEF AgentInit, ObservationsHold, TakenHold, RefusalsAreTrue, Silent
<1>3. BudgetsHold
  BY BudgetsAssumption DEF AgentInit, BudgetsHold
<1> QED
  BY <1>1, <1>2, <1>3 DEF AgentHolds

\* What is still remembered is still in the context.
LEMMA RememberedIsVisible ==
    ASSUME AgentHolds, NEW t \in Remembered
    PROVE  /\ t \in taken
           /\ \E k \in DOMAIN observations : observations[k] \in Visible /\ Answers(k, t[1], t[2])
<1>1. t \in taken /\ t[1] \notin Stale
  BY DEF Remembered
<1>2. PICK k \in DOMAIN observations : Answers(k, t[1], t[2])
  BY <1>1 DEF AgentHolds, TakenHold
<1>3. DOMAIN observations = 1 .. Len(observations) /\ Len(observations) \in Nat
  BY DEF AgentHolds, AgentTyped
<1>4. ~(k <= Len(observations) - KeepObservations)
  BY <1>1, <1>2, <1>3 DEF Stale, Answers
<1>5. observations[k] \in Visible
  BY <1>3, <1>4, BudgetsAssumption DEF Visible
<1> QED
  BY <1>1, <1>2, <1>5

\* A turn that dispatches nothing leaves the files and the context alone.
LEMMA QuietTurn ==
    ASSUME AgentHolds, AgentTyped', BudgetsHold', taken' \subseteq taken, said'.kind # "refused",
           UNCHANGED <<observations, change, broke>>
    PROVE  AgentHolds'
  BY DEF AgentHolds, ObservationsHold, TakenHold, Answers, RefusalsAreTrue

\* Every turn keeps the account of the budgets and of what the model was told.
LEMMA AgentHoldsStep == AgentHolds /\ [AgentNext]_agentVars => AgentHolds'
<1> SUFFICES ASSUME AgentHolds, [AgentNext]_agentVars PROVE AgentHolds'
  OBVIOUS
<1> USE BudgetsAssumption
<1>a. Remembered \subseteq taken /\ Silent.kind = "none"
  BY DEF Remembered, Silent
<1>b. /\ trace.turns \in Nat /\ trace.actions \in Nat /\ trace.stalled \in Nat /\ trace.parse \in Nat
      /\ trace.repeats \in Nat /\ trace.edits \in Nat
      /\ trace.stop \in {"running", "stuck", "step_budget", "submitted"} /\ trace \in Traces
  BY DEF AgentHolds, AgentTyped, Traces
<1>c. BudgetsHold
  BY DEF AgentHolds
<1>d. \A k \in DOMAIN observations : observations[k].change \in Nat /\ observations[k].change <= change
  <2>1. \A k \in DOMAIN observations : observations[k] \in Observed
    BY DEF AgentHolds, AgentTyped
  <2>2. \A o \in Observed : o.change \in Nat
    BY DEF Observed
  <2> QED
    BY <2>1, <2>2 DEF AgentHolds, ObservationsHold
<1>1. CASE Stop
  <2>1. AgentTyped'
    BY <1>1 DEF Stop, AgentHolds, AgentTyped, Traces
  <2>2. BudgetsHold'
    BY <1>1 DEF Stop, Looping, InBudget, AgentHolds, AgentTyped, BudgetsHold, Traces
  <2> QED
    BY <1>1, <1>a, <2>1, <2>2, QuietTurn DEF Stop
<1>2. CASE NoAction
  <2>0. trace' = [turns |-> trace.turns + 1, actions |-> trace.actions, stalled |-> trace.stalled + 1,
                   parse |-> trace.parse + 1, repeats |-> trace.repeats, edits |-> trace.edits, stop |-> trace.stop]
    BY <1>2, <1>b DEF NoAction, Traces
  <2>t. Turning /\ taken' = Remembered /\ UNCHANGED <<observations, change, broke>>
    BY <1>2 DEF NoAction
  <2>1. AgentTyped'
    <3>1. trace' \in Traces
      BY <1>b, <2>0 DEF Traces
    <3> QED
      BY <1>a, <2>t, <3>1 DEF AgentHolds, AgentTyped
  <2>2. BudgetsHold'
    BY <1>b, <1>c, <2>0, <2>t DEF Turning, Looping, InBudget, BudgetsHold
  <2> QED
    BY <1>2, <1>a, <2>1, <2>2, QuietTurn DEF NoAction
<1>3. CASE Submit
  <2>0. trace' = [turns |-> trace.turns + 1, actions |-> trace.actions, stalled |-> trace.stalled,
                   parse |-> trace.parse, repeats |-> trace.repeats, edits |-> trace.edits, stop |-> "submitted"]
    BY <1>3, <1>b DEF Submit, Traces
  <2>t. Turning /\ taken' = Remembered /\ UNCHANGED <<observations, change, broke>>
    BY <1>3 DEF Submit
  <2>1. AgentTyped'
    <3>1. trace' \in Traces
      BY <1>b, <2>0 DEF Traces
    <3> QED
      BY <1>a, <2>t, <3>1 DEF AgentHolds, AgentTyped
  <2>2. BudgetsHold'
    BY <1>b, <1>c, <2>0, <2>t DEF Turning, Looping, InBudget, BudgetsHold
  <2> QED
    BY <1>3, <1>a, <2>1, <2>2, QuietTurn DEF Submit
<1>4. ASSUME NEW a \in Actions, Refuse(a) PROVE AgentHolds'
  <2>0. trace' = [turns |-> trace.turns + 1, actions |-> trace.actions, stalled |-> trace.stalled + 1,
                   parse |-> trace.parse, repeats |-> trace.repeats + 1, edits |-> trace.edits, stop |-> trace.stop]
    BY <1>4, <1>b DEF Refuse, Traces
  <2>t. Turning /\ taken' = Remembered /\ UNCHANGED <<observations, change, broke>>
    BY <1>4 DEF Refuse
  <2>1. AgentTyped'
    <3>1. trace' \in Traces
      BY <1>b, <2>0 DEF Traces
    <3> QED
      BY <1>a, <2>t, <3>1 DEF AgentHolds, AgentTyped
  <2>2. BudgetsHold'
    BY <1>b, <1>c, <2>0, <2>t DEF Turning, Looping, InBudget, BudgetsHold
  <2>3. PICK t \in Remembered : t[1] = a /\ said' = [kind |-> "refused", sig |-> a, step |-> t[2]]
    BY <1>4 DEF Refuse
  <2>4. PICK k \in DOMAIN observations : observations[k] \in Visible /\ Answers(k, a, t[2])
    BY <2>3, RememberedIsVisible
  <2>5. RefusalsAreTrue'
    BY <1>4, <2>3, <2>4 DEF Refuse, RefusalsAreTrue, Visible, Answers
  <2>6. ObservationsHold' /\ TakenHold'
    BY <1>4, <1>a DEF Refuse, AgentHolds, ObservationsHold, TakenHold, Answers
  <2> QED
    BY <2>1, <2>2, <2>5, <2>6 DEF AgentHolds
<1>5. ASSUME NEW a \in Actions, NEW result \in {"ok", "broken", "nomatch"}, Dispatch(a, result) PROVE AgentHolds'
  <2> DEFINE step == trace.actions + 1
  <2> DEFINE o == [sig |-> a, step |-> step, change |-> change']
  <2> DEFINE n == Len(observations) + 1
  <2>1. step \in Nat /\ trace.actions \in Nat
    BY DEF AgentHolds, AgentTyped, Traces
  <2>2. /\ change' \in Nat /\ broke' \in Nat /\ change <= change'
        /\ change' # change => a.name = "edit" /\ (result = "ok" \/ broke' > change)
        /\ change' = change => broke' = broke
        /\ change' # change /\ result # "ok" => broke' = change'
        /\ broke' # broke => broke' = change' /\ change < change'
    BY <1>5 DEF Dispatch, AgentHolds, AgentTyped
  <2>3. o \in Observed
    BY <2>1, <2>2 DEF Observed
  <2>4. observations' = Append(observations, o)
    BY <1>5 DEF Dispatch
  <2>5. /\ observations' \in Seq(Observed) /\ DOMAIN observations' = DOMAIN observations \cup {n}
        /\ observations'[n] = o /\ \A k \in DOMAIN observations : observations'[k] = observations[k]
    <3>1. observations \in Seq(Observed)
      BY DEF AgentHolds, AgentTyped
    <3> HIDE DEF o
    <3> QED
      BY <2>3, <2>4, <3>1
  <2>6. taken' \subseteq Remembered \cup {<<a, step>>} /\ (a.name = "edit" /\ result = "ok" => taken' = {<<a, step>>})
    BY <1>5 DEF Dispatch, TakenAfter
  <2>0. \E e \in {trace.edits, trace.edits + 1} :
            trace' = [turns |-> trace.turns + 1, actions |-> step, stalled |-> 0, parse |-> trace.parse,
                      repeats |-> trace.repeats, edits |-> e, stop |-> trace.stop]
    BY <1>5 DEF Dispatch, AgentHolds, AgentTyped, Traces
  <2>7. AgentTyped'
    <3>1. trace' \in Traces
      BY <2>0, <2>1 DEF AgentHolds, AgentTyped, Traces
    <3>2. taken' \subseteq Actions \X Nat
      BY <2>1, <2>6, <1>a DEF AgentHolds, AgentTyped
    <3> QED
      BY <2>2, <2>5, <3>1, <3>2 DEF AgentTyped
  <2>8. BudgetsHold'
    <3>1. Turning
      BY <1>5 DEF Dispatch
    <3> QED
      BY <1>b, <1>c, <2>0, <3>1 DEF Turning, Looping, InBudget, BudgetsHold
  <2>9. ObservationsHold'
    <3> SUFFICES ASSUME NEW k \in DOMAIN observations' PROVE observations'[k].change <= change'
      BY DEF ObservationsHold
    <3>1. CASE k = n
      BY <2>2, <2>5, <3>1
    <3>2. CASE k \in DOMAIN observations
      <4>1. observations[k].change <= change /\ observations[k].change \in Nat
        BY <1>d, <3>2
      <4> QED
        BY <2>2, <2>5, <3>2, <4>1 DEF AgentHolds, AgentTyped
    <3> QED
      BY <2>5, <3>1, <3>2
  <2>10. TakenHold'
    <3> SUFFICES ASSUME NEW t \in taken' PROVE \E k \in DOMAIN observations' : Answers(k, t[1], t[2])'
      BY DEF TakenHold
    <3>1. CASE t = <<a, step>>
      BY <2>5, <3>1 DEF Answers
    <3>2. CASE t # <<a, step>>
      <4>1. t \in taken /\ ~(a.name = "edit" /\ result = "ok")
        BY <2>6, <3>2, <1>a
      <4>2. PICK k \in DOMAIN observations : Answers(k, t[1], t[2])
        BY <4>1 DEF AgentHolds, TakenHold
      <4>3. observations[k].change <= change /\ observations[k].change \in Nat
        BY <1>d
      <4>4. Answers(k, t[1], t[2])'
        BY <2>2, <2>5, <4>1, <4>2, <4>3 DEF Answers, AgentHolds, AgentTyped
      <4> QED
        BY <2>5, <4>4
    <3> QED
      BY <3>1, <3>2
  <2>11. RefusalsAreTrue'
    BY <1>5 DEF Dispatch, RefusalsAreTrue
  <2> QED
    BY <2>7, <2>8, <2>9, <2>10, <2>11 DEF AgentHolds
<1>6. CASE UNCHANGED agentVars
  <2>1. AgentTyped' /\ BudgetsHold'
    BY <1>6 DEF agentVars, AgentHolds, AgentTyped, BudgetsHold, InBudget
  <2>2. ObservationsHold' /\ TakenHold' /\ RefusalsAreTrue'
    BY <1>6 DEF agentVars, AgentHolds, ObservationsHold, TakenHold, Answers, RefusalsAreTrue, Visible
  <2> QED
    BY <2>1, <2>2 DEF AgentHolds
<1> QED
  BY <1>1, <1>2, <1>3, <1>4, <1>5, <1>6 DEF AgentNext

\* run() in bench/agent.py: an action is refused as a repeat only while its
\* answer is in the context and, unless a file has stopped compiling, still
\* true; and every turn is in exactly one account, within both budgets.
THEOREM AgentTellsTheTruth == AgentSpec => []AgentAccounts
<1>1. AgentSpec => []AgentHolds
  BY AgentHoldsInit, AgentHoldsStep, PTL DEF AgentSpec
<1>2. AgentHolds => AgentAccounts
  BY DEF AgentHolds, AgentAccounts
<1> QED
  BY <1>1, <1>2, PTL
=============================================================================
