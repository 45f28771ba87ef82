--------------------------- MODULE CassetteImport ---------------------------
(***************************************************************************)
(* One local store directory shared by processes: imports of cassettes,    *)
(* recorders, and processes that open the store and clean up after imports *)
(* that died.  A step is one file system call or one SQLite transaction    *)
(* boundary of tracewake/store.py and tracewake/cassette.py.  A file is    *)
(* known by who created it: os.path.samefile(staged, target) holds when    *)
(* the file at the target is the link that import made.                    *)
(***************************************************************************)
CONSTANTS
    Importers,   \* processes that import a cassette
    Recorders,   \* processes that record one event with one blob
    Openers,     \* processes that open the store while others use it
    Digests,     \* blobs every cassette refers to
    Cassettes    \* cassettes, each of one run

\* A process does one thing, and its name is not one of the marks below.
ASSUME ProcessesAssumption ==
    /\ Importers \cap Recorders = {} /\ Importers \cap Openers = {}
    /\ Recorders \cap Openers = {}
    /\ {"free", "none"} \cap (Importers \cup Recorders \cup Openers) = {}
    /\ "none" \notin Digests

VARIABLES
    pc,        \* where each process is
    file,      \* [Digests -> creator of the file in the blob store, or "none"]
    stageDir,  \* imports whose stage directory exists
    staged,    \* [Importers -> digests with a file in its stage directory]
    stageLock, \* [Importers -> holder of the lock file in its stage, or "free"]
    detached,  \* imports that had opened a lock file when cleanup removed it
    writer,    \* holder of the database's write lock, or "free"
    cassette,  \* [Importers -> the cassette it imports, once chosen]
    created,   \* [Importers -> links it made]
    imported,  \* imports that committed
    recorded,  \* digests that committed recorded events refer to
    target,    \* [Recorders -> the digest it records, once chosen]
    visiting,  \* [Openers -> the stage it looks at]
    visited,   \* [Openers -> stages it has looked at]
    pending,   \* [Openers -> digests of the stage it has still to look at]
    doomed     \* [Openers -> the digest it is about to unlink, or "none"]

importVars == <<cassette, created, imported>>
stageVars == <<stageDir, staged, stageLock, detached>>
openVars == <<visiting, visited, pending, doomed>>
vars == <<pc, file, stageVars, writer, importVars, recorded, target, openVars>>

Processes == Importers \cup Recorders \cup Openers

Points == {"start", "made", "opened", "locked", "staged", "linking", "verified", "undoing",
           "closing", "removing", "done", "dead", "writing", "put", "seen", "cleaning", "raised"}

Init ==
    /\ pc = [p \in Processes |-> "start"]
    /\ file = [d \in Digests |-> "none"]
    /\ stageDir = {}
    /\ staged = [i \in Importers |-> {}]
    /\ stageLock = [i \in Importers |-> "free"]
    /\ detached = {}
    /\ writer = "free"
    /\ cassette = [i \in Importers |-> "none"]
    /\ created = [i \in Importers |-> {}]
    /\ imported = {}
    /\ recorded = {}
    /\ target = [r \in Recorders |-> "none"]
    /\ visiting = [o \in Openers |-> "none"]
    /\ visited = [o \in Openers |-> {}]
    /\ pending = [o \in Openers |-> {}]
    /\ doomed = [o \in Openers |-> "none"]

\* What _blob_is_referenced finds in the committed events.
Referenced == recorded \cup (IF imported = {} THEN {} ELSE Digests)

Goto(p, from, to) == pc[p] = from /\ pc' = [pc EXCEPT ![p] = to]

-----------------------------------------------------------------------------
(***************************************************************************)
(* An import: stage the blobs under a locked directory, then link and      *)
(* insert inside one write transaction.                                    *)
(***************************************************************************)

MakeStage(i, c) ==
    /\ Goto(i, "start", "made")
    /\ cassette' = [cassette EXCEPT ![i] = c]
    /\ stageDir' = stageDir \cup {i}
    /\ UNCHANGED <<file, staged, stageLock, detached, writer, created, imported, recorded,
                   target, openVars>>

\* Opening the lock file fails when the directory has been removed meanwhile.
OpenLock(i) ==
    /\ IF i \in stageDir THEN Goto(i, "made", "opened") ELSE Goto(i, "made", "done")
    /\ UNCHANGED <<file, stageVars, writer, importVars, recorded, target, openVars>>

\* flock waits for whoever holds the file; a removed file has no other holder.
LockStage(i) ==
    /\ Goto(i, "opened", "locked")
    /\ IF i \in detached THEN UNCHANGED stageLock
       ELSE stageLock[i] = "free" /\ stageLock' = [stageLock EXCEPT ![i] = i]
    /\ UNCHANGED <<file, stageDir, staged, detached, writer, importVars, recorded,
                   target, openVars>>

\* The blobs are written, the directories above them created as needed.
StageBlobs(i) ==
    /\ Goto(i, "locked", "staged")
    /\ stageDir' = stageDir \cup {i}
    /\ staged' = [staged EXCEPT ![i] = Digests]
    /\ UNCHANGED <<file, stageLock, detached, writer, importVars, recorded,
                   target, openVars>>

\* Staging may raise, and BEGIN gives up when the lock stays taken.
AbandonImport(i) ==
    /\ Goto(i, "locked", "closing") \/ Goto(i, "staged", "closing")
    /\ UNCHANGED <<file, stageVars, writer, importVars, recorded, target, openVars>>

\* Fault: a deferred transaction takes no write lock yet.
BeginImportDeferred(i) ==
    /\ IF \E k \in imported : cassette[k] = cassette[i]
       THEN Goto(i, "staged", "undoing") ELSE Goto(i, "staged", "linking")
    /\ UNCHANGED <<file, stageVars, writer, importVars, recorded, target, openVars>>

\* BEGIN IMMEDIATE, then the run must not be in the store yet.
BeginImport(i) ==
    /\ writer = "free"
    /\ writer' = i
    /\ IF \E k \in imported : cassette[k] = cassette[i]
       THEN Goto(i, "staged", "undoing") ELSE Goto(i, "staged", "linking")
    /\ UNCHANGED <<file, stageVars, importVars, recorded, target, openVars>>

\* A blob that is there is reused; the link fails when its source is gone.
PromoteBlob(i, d) ==
    /\ pc[i] = "linking"
    /\ file[d] = "none"
    /\ IF d \in staged[i]
       THEN /\ file' = [file EXCEPT ![d] = i]
            /\ created' = [created EXCEPT ![i] = @ \cup {d}]
            /\ UNCHANGED pc
       ELSE Goto(i, "linking", "undoing") /\ UNCHANGED <<file, created>>
    /\ UNCHANGED <<stageVars, writer, cassette, imported, recorded, target, openVars>>

\* The rows are inserted and the stored blobs read back.
VerifyImport(i) ==
    /\ \A d \in Digests : file[d] # "none"
    /\ Goto(i, "linking", "verified")
    /\ UNCHANGED <<file, stageVars, writer, importVars, recorded, target, openVars>>

CommitImport(i) ==
    /\ Goto(i, "verified", "closing")
    /\ imported' = imported \cup {i}
    /\ writer' = "free"
    /\ UNCHANGED <<file, stageVars, cassette, created, recorded, target, openVars>>

\* Fault: the transaction is rolled back before the links are removed.
FailImportRollingBack(i) ==
    /\ Goto(i, "linking", "undoing") \/ Goto(i, "verified", "undoing")
    /\ writer' = "free"
    /\ UNCHANGED <<file, stageVars, importVars, recorded, target, openVars>>

\* Anything in the transaction may raise.
FailImport(i) ==
    /\ Goto(i, "linking", "undoing") \/ Goto(i, "verified", "undoing")
    /\ UNCHANGED <<file, stageVars, writer, importVars, recorded, target, openVars>>

\* The handler removes the links that are still its own; samefile raises when
\* the staged file is gone, and the rest is not undone.
UndoBlob(i, d) ==
    /\ pc[i] = "undoing" /\ d \in created[i]
    /\ created' = [created EXCEPT ![i] =
           IF file[d] # "none" /\ d \notin staged[i] THEN {} ELSE @ \ {d}]
    /\ file' = [file EXCEPT ![d] = IF @ = i /\ d \in staged[i] THEN "none" ELSE @]
    /\ UNCHANGED <<pc, stageVars, writer, cassette, imported, recorded, target, openVars>>

RollbackImport(i) ==
    /\ created[i] = {}
    /\ Goto(i, "undoing", "closing")
    /\ writer' = "free"
    /\ UNCHANGED <<file, stageVars, importVars, recorded, target, openVars>>

\* The lock is released before the directory is removed.
UnlockStage(i) ==
    /\ Goto(i, "closing", "removing")
    /\ stageLock' = [stageLock EXCEPT ![i] = IF @ = i THEN "free" ELSE @]
    /\ UNCHANGED <<file, stageDir, staged, detached, writer, importVars, recorded, target, openVars>>

RemoveDirectory(i) ==
    /\ stageDir' = stageDir \ {i}
    /\ staged' = [staged EXCEPT ![i] = {}]
    /\ stageLock' = [stageLock EXCEPT ![i] = "free"]

RemoveStage(i) ==
    /\ Goto(i, "removing", "done")
    /\ RemoveDirectory(i)
    /\ UNCHANGED <<file, detached, writer, importVars, recorded, target, openVars>>

\* The process dies: its locks go, its files stay.
Crash(i) ==
    /\ pc[i] \notin {"start", "done", "dead"}
    /\ pc' = [pc EXCEPT ![i] = "dead"]
    /\ stageLock' = [stageLock EXCEPT ![i] = IF @ = i THEN "free" ELSE @]
    /\ writer' = IF writer = i THEN "free" ELSE writer
    /\ UNCHANGED <<file, stageDir, staged, detached, importVars, recorded, target, openVars>>

-----------------------------------------------------------------------------
(***************************************************************************)
(* A recorder: BlobStore.put, then Store.append.                           *)
(***************************************************************************)

\* put looks for the file without any lock.
LookUpBlob(r, d) ==
    /\ pc[r] = "start"
    /\ pc' = [pc EXCEPT ![r] = IF file[d] = "none" THEN "writing" ELSE "put"]
    /\ target' = [target EXCEPT ![r] = d]
    /\ UNCHANGED <<file, stageVars, writer, importVars, recorded, openVars>>

\* The temporary file replaces whatever is there by now.
WriteBlob(r) ==
    /\ Goto(r, "writing", "put")
    /\ file' = [file EXCEPT ![target[r]] = r]
    /\ UNCHANGED <<stageVars, writer, importVars, recorded, target, openVars>>

\* The event that refers to the blob commits.
AppendEvent(r) ==
    /\ writer = "free"
    /\ Goto(r, "put", "done")
    /\ recorded' = recorded \cup {target[r]}
    /\ UNCHANGED <<file, stageVars, writer, importVars, target, openVars>>

-----------------------------------------------------------------------------
(***************************************************************************)
(* Store.__init__: _cleanup_import_staging.                                *)
(***************************************************************************)

\* The directory listing names a stage.
VisitStage(o, i) ==
    /\ i \in stageDir \ visited[o]
    /\ Goto(o, "start", "seen")
    /\ visiting' = [visiting EXCEPT ![o] = i]
    /\ visited' = [visited EXCEPT ![o] = @ \cup {i}]
    /\ UNCHANGED <<file, stageVars, writer, importVars, recorded, target, pending,
                   doomed>>

\* A locked stage is passed over.  A stage that is gone by now raises.
TryLock(o) ==
    LET i == visiting[o] IN
    /\ IF i \notin stageDir THEN Goto(o, "seen", "raised") /\ UNCHANGED <<stageLock, pending>>
       ELSE IF stageLock[i] # "free" THEN Goto(o, "seen", "start") /\ UNCHANGED <<stageLock, pending>>
       ELSE /\ Goto(o, "seen", "cleaning")
            /\ stageLock' = [stageLock EXCEPT ![i] = o]
            /\ pending' = [pending EXCEPT ![o] = staged[i]]
    /\ UNCHANGED <<file, stageDir, staged, detached, writer, importVars, recorded, target,
                   visiting, visited, doomed>>

\* Fault: stages are removed and their links are forgotten.
CheckBlobNever(o, d) ==
    /\ pc[o] = "cleaning" /\ d \in pending[o] /\ doomed[o] = "none"
    /\ pending' = [pending EXCEPT ![o] = @ \ {d}]
    /\ UNCHANGED <<pc, file, stageVars, writer, importVars, recorded, target,
                   visiting, visited, doomed>>

\* A link of the stage that no committed event refers to is to be removed.
CheckBlob(o, d) ==
    LET i == visiting[o] IN
    /\ pc[o] = "cleaning" /\ d \in pending[o] /\ doomed[o] = "none"
    /\ pending' = [pending EXCEPT ![o] = @ \ {d}]
    /\ doomed' = [doomed EXCEPT ![o] =
           IF file[d] = i /\ d \in staged[i] /\ d \notin Referenced THEN d ELSE "none"]
    /\ UNCHANGED <<pc, file, stageVars, writer, importVars, recorded, target,
                   visiting, visited>>

\* The check is over when the file goes; one that is gone by now raises.
UnlinkBlob(o) ==
    /\ pc[o] = "cleaning" /\ doomed[o] # "none"
    /\ IF file[doomed[o]] = "none"
       THEN /\ pc' = [pc EXCEPT ![o] = "raised"]
            /\ stageLock' = [stageLock EXCEPT ![visiting[o]] = IF @ = o THEN "free" ELSE @]
            /\ UNCHANGED file
       ELSE /\ file' = [file EXCEPT ![doomed[o]] = "none"]
            /\ UNCHANGED <<pc, stageLock>>
    /\ doomed' = [doomed EXCEPT ![o] = "none"]
    /\ UNCHANGED <<stageDir, staged, detached, writer, importVars, recorded, target,
                   visiting, visited, pending>>

\* The stage is removed, and the lock file that a waiting import has open with
\* it; or its import removed it first, and that raises.
FinishStage(o) ==
    LET i == visiting[o] IN
    /\ pending[o] = {} /\ doomed[o] = "none"
    /\ IF i \in stageDir
       THEN /\ Goto(o, "cleaning", "start")
            /\ RemoveDirectory(i)
            /\ detached' = IF pc[i] = "opened" THEN detached \cup {i} ELSE detached
       ELSE Goto(o, "cleaning", "raised") /\ UNCHANGED stageVars
    /\ UNCHANGED <<file, writer, importVars, recorded, target, openVars>>

Next ==
    \/ \E i \in Importers :
          \/ \E c \in Cassettes : MakeStage(i, c)
          \/ OpenLock(i) \/ LockStage(i) \/ StageBlobs(i) \/ AbandonImport(i)
          \/ BeginImport(i)
          \/ \E d \in Digests : PromoteBlob(i, d) \/ UndoBlob(i, d)
          \/ VerifyImport(i) \/ CommitImport(i) \/ FailImport(i) \/ RollbackImport(i)
          \/ UnlockStage(i) \/ RemoveStage(i) \/ Crash(i)
    \/ \E r \in Recorders :
          (\E d \in Digests : LookUpBlob(r, d)) \/ WriteBlob(r) \/ AppendEvent(r)
    \/ \E o \in Openers :
          \/ \E i \in Importers : VisitStage(o, i)
          \/ TryLock(o) \/ (\E d \in Digests : CheckBlob(o, d)) \/ UnlinkBlob(o) \/ FinishStage(o)

Spec == Init /\ [][Next]_vars

-----------------------------------------------------------------------------
\* Processes, files and locks stay within their types.
TypeOK ==
    /\ pc \in [Processes -> Points]
    /\ file \in [Digests -> Importers \cup Recorders \cup {"none"}]
    /\ stageDir \subseteq Importers /\ detached \subseteq Importers
    /\ staged \in [Importers -> SUBSET Digests]
    /\ cassette \in [Importers -> Cassettes \cup {"none"}]
    /\ created \in [Importers -> SUBSET Digests]
    /\ stageLock \in [Importers -> Importers \cup Openers \cup {"free"}]
    /\ writer \in Importers \cup {"free"}
    /\ imported \subseteq Importers /\ recorded \subseteq Digests

\* Every blob a committed event refers to is in the store.
ReferencedBlobsExist == \A d \in Referenced : file[d] # "none"

\* Nobody but imports has used the store so far.
ImportsAlone ==
    /\ \A r \in Recorders : pc[r] = "start"
    /\ \A o \in Openers : pc[o] = "start" /\ visited[o] = {}

\* Whatever recorders and cleanups do, a blob that a committed import linked itself
\* is there: between the moment a cleanup finds a blob unreferenced and the moment
\* it unlinks it, no import can have linked that blob, although one can have
\* reused it and committed, and then it is lost.  The imports whose lock file
\* cleanup took away are excepted.
OwnLinksStay ==
    detached = {} => \A i \in imported : \A d \in created[i] : file[d] # "none"

\* Imports do not hurt each other: while only they use the store, whoever failed
\* or died while linking, every blob a committed import refers to is there; and
\* with recorders and cleanups at work, those it linked itself.
ImportsKeepBlobs == (ImportsAlone => ReferencedBlobsExist) /\ OwnLinksStay

\* A run is imported once although processes import its cassette at the same time.
ImportedOnce == \A i, k \in imported : cassette[i] = cassette[k] => i = k

\* Nothing is left behind: once no stage exists and no import is under way, every
\* file an import linked belongs to a committed event, unless cleanup took the
\* lock file from under that import.
NoOrphans ==
    (stageDir = {} /\ \A i \in Importers : pc[i] \in {"start", "done", "dead"})
        => \A d \in Digests : file[d] \in Importers \ detached => d \in Referenced

\* The lock protects an import: cleanup removes links only of one that has ended,
\* unless cleanup took the lock file from under it.
LockedImportsAreSafe ==
    \A o \in Openers : doomed[o] # "none" =>
        \/ pc[visiting[o]] \in {"dead", "closing", "removing", "done"}
        \/ visiting[o] \in detached

\* Cleanup takes what dead imports left and nothing of a live one.
StagesAreRecovered == TypeOK /\ NoOrphans /\ LockedImportsAreSafe
=============================================================================
