----------------------------- MODULE BenchBatch -----------------------------
(***************************************************************************)
(* Collecting the corpus, bench/runner.py: processes that each work on a   *)
(* shard of the planned attempts, skip what the ledger held when they      *)
(* started, record an attempt in the store and append it to the ledger     *)
(* when it is finished.  A process may die anywhere.                       *)
(***************************************************************************)
EXTENDS Naturals, Sequences, FiniteSets, Functions

CONSTANTS
    Processes,  \* processes, started in any order
    Shards,     \* shards
    Planned     \* the planned attempts, in their fixed order

\* There is a shard, and the key of an attempt names its task and its number.
ASSUME ShardsAssumption == Shards \in Nat \ {0}
ASSUME PlannedAssumption == Planned \in Seq(Range(Planned)) /\ IsInjective(Planned)

VARIABLES
    ledger,     \* keys, in the order in which they were appended
    stored,     \* runs in the store, by key
    worker,     \* [Processes -> [pc, shard, todo]]: todo is a set of positions
    overlapped  \* two processes have worked on one shard at the same time

batchVars == <<ledger, stored, worker, overlapped>>

BatchInit ==
    /\ ledger = <<>> /\ stored = <<>> /\ overlapped = FALSE
    /\ worker = [p \in Processes |-> [pc |-> "new", shard |-> 0, todo |-> {}]]

\* Fault: shards are counted from one.
MineFromOne(shard) == {k \in DOMAIN Planned : k % Shards = shard - 1}

\* The positions that belong to a shard.
Mine(shard) == {k \in DOMAIN Planned : (k - 1) % Shards = shard}

\* done(): what the ledger does not hold yet.
Remaining(shard) == {k \in Mine(shard) : Planned[k] \notin Range(ledger)}

Working(p) == worker[p].pc \in {"running", "graded"}

\* batch() starts, and reads the ledger once.
StartBatch(p, shard) ==
    /\ worker[p].pc = "new"
    /\ worker' = [worker EXCEPT ![p] = [pc |-> "running", shard |-> shard, todo |-> Remaining(shard)]]
    /\ overlapped' = (overlapped \/ \E q \in Processes : Working(q) /\ worker[q].shard = shard)
    /\ UNCHANGED <<ledger, stored>>

\* The attempt the loop of batch() is at: what remains is taken in order.
At(p, k) == k \in worker[p].todo /\ \A j \in worker[p].todo : k <= j

\* attempt(): the run is recorded, graded and closed.
Attempt(p) ==
    /\ worker[p].pc = "running"
    /\ \E k \in worker[p].todo : At(p, k) /\ stored' = Append(stored, Planned[k])
    /\ worker' = [worker EXCEPT ![p].pc = "graded"]
    /\ UNCHANGED <<ledger, overlapped>>

\* record_attempt()
RecordAttempt(p) ==
    /\ worker[p].pc = "graded"
    /\ \E k \in worker[p].todo :
           /\ At(p, k)
           /\ ledger' = Append(ledger, Planned[k])
           /\ worker' = [worker EXCEPT ![p].pc = "running", ![p].todo = @ \ {k}]
    /\ UNCHANGED <<stored, overlapped>>

FinishBatch(p) ==
    /\ worker[p].pc = "running" /\ worker[p].todo = {}
    /\ worker' = [worker EXCEPT ![p].pc = "done"]
    /\ UNCHANGED <<ledger, stored, overlapped>>

KillBatch(p) ==
    /\ Working(p)
    /\ worker' = [worker EXCEPT ![p].pc = "dead"]
    /\ UNCHANGED <<ledger, stored, overlapped>>

BatchNext ==
    \/ \E p \in Processes, shard \in 0 .. Shards - 1 : StartBatch(p, shard)
    \/ \E p \in Processes : Attempt(p) \/ RecordAttempt(p) \/ FinishBatch(p) \/ KillBatch(p)

BatchSpec == BatchInit /\ [][BatchNext]_batchVars

-----------------------------------------------------------------------------
\* "this restartable": once every shard has had a process that finished, every
\* planned attempt is in the ledger, whatever died before; an attempt in the
\* ledger has its run in the store.
BatchCompletes ==
    /\ Range(ledger) \subseteq Range(stored)
    /\ (\A shard \in 0 .. Shards - 1 :
            \E p \in Processes : worker[p].pc = "done" /\ worker[p].shard = shard)
       => Range(ledger) = Range(Planned)

\* Shards do not overlap: an attempt is in the ledger once unless two processes
\* were given the same shard at the same time.  That is excepted although batch()
\* says "the ledger check makes an overlap harmless rather than a duplicate": the
\* ledger is read when a process starts, so both append what neither found there.
AttemptsCountOnce == overlapped \/ IsInjective(ledger)

\* A batch that was stopped and started again collects every attempt, once.
BatchIsExact == BatchCompletes /\ AttemptsCountOnce
=============================================================================
