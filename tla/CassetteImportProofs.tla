----------------------- MODULE CassetteImportProofs -------------------------
(***************************************************************************)
(* The write transaction serialises imports: what an import found when it  *)
(* began still holds when it commits or undoes its links; and the lock of  *)
(* a stage keeps cleanup away from a live import and gives it what a dead  *)
(* one left.  For any number of processes and blobs.                       *)
(***************************************************************************)
EXTENDS CassetteImport, TLAPS

\* The functions have the domains their updates need; an import that committed
\* and a process that visited a stage have left their start.
Shape ==
    /\ pc \in [Processes -> Points]
    /\ file \in [Digests -> Importers \cup Recorders \cup {"none"}]
    /\ created \in [Importers -> SUBSET Digests]
    /\ cassette \in [Importers -> Cassettes \cup {"none"}]
    /\ visited \in [Openers -> SUBSET Importers]
    /\ imported \subseteq Importers
    /\ \A i \in imported : pc[i] # "start"
    /\ \A o \in Openers : pc[o] # "start" => visited[o] # {}

InTransaction == {"linking", "verified", "undoing"}

\* Whoever is inside the transaction holds the database's write lock.
Exclusive == \A i \in Importers : pc[i] \in InTransaction => writer = i

\* An import that got past the check is of a run nobody has committed.
Fresh == \A i \in Importers : pc[i] \in {"linking", "verified"} =>
             \A k \in imported : cassette[k] # cassette[i]

Serial == Shape /\ Exclusive /\ Fresh /\ ImportedOnce

-----------------------------------------------------------------------------
\* Before any import has run all of it holds.
LEMMA SerialInit == Init => Serial
BY DEF Init, Serial, Shape, Exclusive, Fresh, ImportedOnce, InTransaction, Processes, Points

\* No step of any process gives up exclusion or commits a run twice.
LEMMA SerialStep == Serial /\ [Next]_vars => Serial'
<1> SUFFICES ASSUME Serial, [Next]_vars PROVE Serial'
  OBVIOUS
<1> USE ProcessesAssumption DEF Serial, Shape, Exclusive, Fresh, ImportedOnce, InTransaction,
        Processes, Points, Goto
<1>1. ASSUME NEW i \in Importers, BeginImport(i) PROVE Serial'
  BY <1>1 DEF BeginImport, importVars, openVars
<1>2. ASSUME NEW i \in Importers, CommitImport(i) PROVE Serial'
  BY <1>2 DEF CommitImport, openVars
<1>3. ASSUME NEW i \in Importers, NEW d \in Digests, PromoteBlob(i, d) PROVE Serial'
  BY <1>3 DEF PromoteBlob, openVars
<1>4. ASSUME NEW i \in Importers, NEW d \in Digests, UndoBlob(i, d) PROVE Serial'
  BY <1>4 DEF UndoBlob, openVars
<1>5. ASSUME NEW i \in Importers, RollbackImport(i) PROVE Serial'
  BY <1>5 DEF RollbackImport, importVars, openVars
<1>6. ASSUME NEW i \in Importers, VerifyImport(i) \/ FailImport(i) PROVE Serial'
  BY <1>6 DEF VerifyImport, FailImport, importVars, openVars
<1>0. ASSUME NEW i \in Importers, NEW c \in Cassettes, MakeStage(i, c) PROVE Serial'
  BY <1>0 DEF MakeStage, openVars
<1>7. ASSUME NEW i \in Importers,
             OpenLock(i) \/ LockStage(i) \/ StageBlobs(i) \/ AbandonImport(i) PROVE Serial'
  BY <1>7 DEF OpenLock, LockStage, StageBlobs, AbandonImport, importVars, openVars
<1>8. ASSUME NEW i \in Importers, UnlockStage(i) \/ RemoveStage(i) PROVE Serial'
  BY <1>8 DEF UnlockStage, RemoveStage, importVars, openVars
<1>9. ASSUME NEW i \in Importers, Crash(i) PROVE Serial'
  BY <1>9 DEF Crash, importVars, openVars
<1>10. ASSUME NEW r \in Recorders, NEW d \in Digests, LookUpBlob(r, d) PROVE Serial'
  BY <1>10 DEF LookUpBlob, importVars, openVars
<1>11. ASSUME NEW r \in Recorders, WriteBlob(r) \/ AppendEvent(r) PROVE Serial'
  BY <1>11 DEF WriteBlob, AppendEvent, importVars, openVars
<1>12. ASSUME NEW o \in Openers, NEW i \in Importers, VisitStage(o, i) PROVE Serial'
  BY <1>12 DEF VisitStage, importVars, openVars
<1>13. ASSUME NEW o \in Openers, TryLock(o) \/ FinishStage(o) PROVE Serial'
  BY <1>13 DEF TryLock, FinishStage, importVars, openVars
<1>14. ASSUME NEW o \in Openers, NEW d \in Digests, CheckBlob(o, d) PROVE Serial'
  BY <1>14 DEF CheckBlob, importVars, openVars
<1>15. ASSUME NEW o \in Openers, UnlinkBlob(o) PROVE Serial'
  BY <1>15 DEF UnlinkBlob, importVars, openVars
<1>16. CASE UNCHANGED vars
  BY <1>16 DEF vars, importVars, openVars
<1>17. QED
  BY <1>0, <1>1, <1>2, <1>3, <1>4, <1>5, <1>6, <1>7, <1>8, <1>9, <1>10, <1>11, <1>12, <1>13,
     <1>14, <1>15, <1>16 DEF Next

\* A run is imported at most once, however many processes import its cassette.
THEOREM SingleImport == Spec => []ImportedOnce
<1>1. Serial => ImportedOnce
  BY DEF Serial
<1>2. QED
  BY <1>1, SerialInit, SerialStep, PTL DEF Spec
-----------------------------------------------------------------------------
(***************************************************************************)
(* Imports alone: no recorder and no cleanup is at work.                   *)
(***************************************************************************)
Present == \A d \in Digests : file[d] # "none"

\* Nothing is referenced but by committed imports, whose blobs are present; an
\* import makes links only before the first commit, and what it verified stays.
LinksHold ==
    /\ recorded = {}
    /\ imported # {} => Present
    /\ \A i \in Importers :
          /\ pc[i] \in InTransaction /\ created[i] # {} => imported = {}
          /\ pc[i] = "verified" => Present
          /\ pc[i] \in {"start", "made", "opened", "locked", "staged"} => created[i] = {}

LEMMA LinksInit == Init => LinksHold
BY DEF Init, LinksHold, InTransaction, Processes

\* An import that undoes its links holds the write lock, so none has verified;
\* a recorder or a cleanup that takes a step is not alone with the imports.
LEMMA LinksStep ==
    ASSUME Serial, ImportsAlone => LinksHold, [Next]_vars, ImportsAlone'
    PROVE  LinksHold'
<1> USE ProcessesAssumption DEF Serial, Shape, Processes, Goto
<1>a. ASSUME NEW i \in Importers, UNCHANGED openVars,
             \A p \in Recorders \cup Openers : pc'[p] = pc[p]
      PROVE  LinksHold
  BY <1>a DEF ImportsAlone, openVars
<1>1. ASSUME NEW i \in Importers, BeginImport(i) PROVE LinksHold'
  <2>1. LinksHold
    BY <1>a, <1>1 DEF BeginImport, importVars, openVars
  <2>2. QED
    BY <1>1, <2>1 DEF BeginImport, importVars, openVars, LinksHold, Present, Exclusive, InTransaction, Points
<1>2. ASSUME NEW i \in Importers, CommitImport(i) PROVE LinksHold'
  <2>1. LinksHold
    BY <1>a, <1>2 DEF CommitImport, openVars
  <2>2. QED
    BY <1>2, <2>1 DEF CommitImport, openVars, LinksHold, Present, Exclusive, InTransaction, Points
<1>3. ASSUME NEW i \in Importers, NEW d \in Digests, PromoteBlob(i, d) PROVE LinksHold'
  <2>1. LinksHold
    BY <1>a, <1>3 DEF PromoteBlob, openVars
  <2>2. QED
    BY <1>3, <2>1 DEF PromoteBlob, openVars, LinksHold, Present, Exclusive, InTransaction, Points
<1>4. ASSUME NEW i \in Importers, NEW d \in Digests, UndoBlob(i, d) PROVE LinksHold'
  <2>1. LinksHold
    BY <1>a, <1>4 DEF UndoBlob, openVars
  <2>2. QED
    BY <1>4, <2>1 DEF UndoBlob, openVars, LinksHold, Present, Exclusive, InTransaction, Points
<1>5. ASSUME NEW i \in Importers, RollbackImport(i) PROVE LinksHold'
  <2>1. LinksHold
    BY <1>a, <1>5 DEF RollbackImport, importVars, openVars
  <2>2. QED
    BY <1>5, <2>1 DEF RollbackImport, importVars, openVars, LinksHold, Present, Exclusive, InTransaction, Points
<1>6. ASSUME NEW i \in Importers, VerifyImport(i) \/ FailImport(i) PROVE LinksHold'
  <2>1. LinksHold
    BY <1>a, <1>6 DEF VerifyImport, FailImport, importVars, openVars
  <2>2. QED
    BY <1>6, <2>1 DEF VerifyImport, FailImport, importVars, openVars, LinksHold, Present, Exclusive, InTransaction, Points
<1>0. ASSUME NEW i \in Importers, NEW c \in Cassettes, MakeStage(i, c) PROVE LinksHold'
  <2>1. LinksHold
    BY <1>a, <1>0 DEF MakeStage, openVars
  <2>2. QED
    BY <1>0, <2>1 DEF MakeStage, openVars, LinksHold, Present, Exclusive, InTransaction, Points
<1>7. ASSUME NEW i \in Importers,
             OpenLock(i) \/ LockStage(i) \/ StageBlobs(i) \/ AbandonImport(i) PROVE LinksHold'
  <2>1. LinksHold
    BY <1>a, <1>7 DEF OpenLock, LockStage, StageBlobs, AbandonImport, importVars, openVars
  <2>2. QED
    BY <1>7, <2>1 DEF OpenLock, LockStage, StageBlobs, AbandonImport, importVars, openVars, LinksHold, Present, Exclusive, InTransaction, Points
<1>8. ASSUME NEW i \in Importers, UnlockStage(i) \/ RemoveStage(i) PROVE LinksHold'
  <2>1. LinksHold
    BY <1>a, <1>8 DEF UnlockStage, RemoveStage, importVars, openVars
  <2>2. QED
    BY <1>8, <2>1 DEF UnlockStage, RemoveStage, importVars, openVars, LinksHold, Present, Exclusive, InTransaction, Points
<1>9. ASSUME NEW i \in Importers, Crash(i) PROVE LinksHold'
  <2>1. LinksHold
    BY <1>a, <1>9 DEF Crash, importVars, openVars
  <2>2. QED
    BY <1>9, <2>1 DEF Crash, importVars, openVars, LinksHold, Present, Exclusive, InTransaction, Points
<1>10. ASSUME NEW r \in Recorders,
             (\E d \in Digests : LookUpBlob(r, d)) \/ WriteBlob(r) \/ AppendEvent(r) PROVE FALSE
  BY <1>10 DEF LookUpBlob, WriteBlob, AppendEvent, ImportsAlone, openVars
<1>11. ASSUME NEW o \in Openers,
              \/ \E i \in Importers : VisitStage(o, i)
              \/ TryLock(o) \/ (\E d \in Digests : CheckBlob(o, d)) \/ UnlinkBlob(o) \/ FinishStage(o)
       PROVE  FALSE
  BY <1>11 DEF VisitStage, TryLock, CheckBlob, UnlinkBlob, FinishStage, ImportsAlone, openVars
<1>12. CASE UNCHANGED vars
  BY <1>12 DEF vars, importVars, openVars, ImportsAlone, LinksHold, Present
<1>13. QED
  BY <1>0, <1>1, <1>2, <1>3, <1>4, <1>5, <1>6, <1>7, <1>8, <1>9, <1>10, <1>11, <1>12 DEF Next

\* While only imports have used the store, whatever failed or died, every blob
\* that a committed event refers to is there.
LEMMA ImportsAloneAreSafe == Spec => [](ImportsAlone => ReferencedBlobsExist)
<1>1. Init => (ImportsAlone => LinksHold)
  BY LinksInit
<1>2. Serial /\ (ImportsAlone => LinksHold) /\ [Next]_vars => (ImportsAlone => LinksHold)'
  BY LinksStep
<1>3. (ImportsAlone => LinksHold) => (ImportsAlone => ReferencedBlobsExist)
  BY DEF LinksHold, Present, ReferencedBlobsExist, Referenced
<1>4. QED
  BY <1>1, <1>2, <1>3, SerialInit, SerialStep, PTL DEF Spec

-----------------------------------------------------------------------------
(***************************************************************************)
(* Stages: who may touch what an import has staged and linked.             *)
(***************************************************************************)
ImportPoints == {"start", "made", "opened", "locked", "staged", "linking", "verified", "undoing",
                 "closing", "removing", "done", "dead"}

\* Processes are at their own kind's points, with what they need there chosen.
Kinds ==
    /\ TypeOK
    /\ target \in [Recorders -> Digests \cup {"none"}]
    /\ visiting \in [Openers -> Importers \cup {"none"}]
    /\ pending \in [Openers -> SUBSET Digests]
    /\ doomed \in [Openers -> Digests \cup {"none"}]
    /\ visited \in [Openers -> SUBSET Importers]
    /\ \A i \in Importers : pc[i] \in ImportPoints
    /\ \A r \in Recorders : pc[r] \in {"start", "writing", "put", "done"}
    /\ \A r \in Recorders : pc[r] # "start" => target[r] \in Digests
    /\ \A o \in Openers : pc[o] \in {"start", "seen", "cleaning", "raised"}
    /\ \A o \in Openers : pc[o] \in {"seen", "cleaning"} => visiting[o] \in Importers
    /\ \A o \in Openers : doomed[o] # "none" => pc[o] = "cleaning"

Holding == {"locked", "staged", "linking", "verified", "undoing", "closing"}
Staged == {"staged", "linking", "verified", "undoing"}

\* An import that has not lost its lock file holds it from taking it until it
\* lets go of it, and keeps what it staged.
StageHeld ==
    \A i \in Importers \ detached :
        /\ pc[i] \in Holding => stageLock[i] = i
        /\ pc[i] \in Staged => i \in stageDir /\ staged[i] = Digests

\* Nothing is staged before the lock is taken, and a stage is made once.
StageFresh ==
    \A i \in Importers :
        /\ pc[i] \in {"start", "made", "opened", "locked"} => staged[i] = {}
        /\ pc[i] = "start" => i \notin stageDir

\* A cleanup holds the lock of the stage it is at, whose import waits for it, is
\* dead, or is about to remove the stage itself and may have done so.
CleanupHolds ==
    \A o \in Openers :
        pc[o] = "cleaning" /\ visiting[o] \notin detached =>
            \/ pc[visiting[o]] = "done"
            \/ /\ stageLock[visiting[o]] = o
               /\ pc[visiting[o]] \in {"made", "opened", "removing", "dead"}
SeenWasMade ==
    \A o \in Openers : pc[o] \in {"seen", "cleaning"} => pc[visiting[o]] # "start"

StagesGuarded == StageHeld /\ StageFresh /\ CleanupHolds /\ SeenWasMade /\ LockedImportsAreSafe

\* Every link has an owner: the import that made it and will undo or commit it,
\* the committed events, or the stage a dead import left for the next cleanup.
LinksOwned ==
    \A i \in Importers \ detached, d \in Digests :
        file[d] = i =>
            \/ d \in Referenced
            \/ pc[i] \in {"linking", "verified", "undoing"} /\ d \in created[i]
            \/ pc[i] = "dead" /\ i \in stageDir /\ d \in staged[i]

\* A cleanup has not forgotten a link of the stage it is at.
CleanupRemembers ==
    \A o \in Openers, d \in Digests :
        /\ pc[o] = "cleaning" /\ visiting[o] \notin detached
        /\ pc[visiting[o]] = "dead" /\ file[d] = visiting[o] /\ d \notin Referenced
        => d \in pending[o] \/ doomed[o] = d

Recoverable == Kinds /\ StagesGuarded /\ LinksOwned /\ CleanupRemembers

\* Nobody has begun, and nothing is staged, linked or referred to.
LEMMA RecoverableInit == Init => Recoverable
BY ProcessesAssumption
   DEF Init, Recoverable, Kinds, TypeOK, Processes, Points, ImportPoints, StagesGuarded, StageHeld, StageFresh,
       CleanupHolds, SeenWasMade, LockedImportsAreSafe, LinksOwned, CleanupRemembers, Holding, Staged

\* Every process goes from one of its points to another.
LEMMA KindsStep == ASSUME Kinds, [Next]_vars PROVE Kinds'
<1> USE ProcessesAssumption DEF Kinds, TypeOK, Processes, Points, ImportPoints, Goto, importVars, stageVars, openVars
<1>1. ASSUME NEW i \in Importers, NEW c \in Cassettes, MakeStage(i, c) PROVE Kinds'
  BY <1>1 DEF MakeStage
<1>2. ASSUME NEW i \in Importers, OpenLock(i) PROVE Kinds'
  BY <1>2 DEF OpenLock
<1>3. ASSUME NEW i \in Importers, LockStage(i) PROVE Kinds'
  BY <1>3 DEF LockStage
<1>4. ASSUME NEW i \in Importers, StageBlobs(i) PROVE Kinds'
  BY <1>4 DEF StageBlobs
<1>5. ASSUME NEW i \in Importers, AbandonImport(i) PROVE Kinds'
  BY <1>5 DEF AbandonImport
<1>6. ASSUME NEW i \in Importers, BeginImport(i) PROVE Kinds'
  <2>1. PICK next \in {"undoing", "linking"} : Goto(i, "staged", next)
    BY <1>6 DEF BeginImport
  <2>2. writer' = i /\ UNCHANGED <<file, stageVars, importVars, recorded, target, openVars>>
    BY <1>6 DEF BeginImport
  <2> QED
    BY <2>1, <2>2
<1>7. ASSUME NEW i \in Importers, NEW d \in Digests, PromoteBlob(i, d) PROVE Kinds'
  BY <1>7 DEF PromoteBlob
<1>8. ASSUME NEW i \in Importers, NEW d \in Digests, UndoBlob(i, d) PROVE Kinds'
  BY <1>8 DEF UndoBlob
<1>9. ASSUME NEW i \in Importers, VerifyImport(i) PROVE Kinds'
  BY <1>9 DEF VerifyImport
<1>10. ASSUME NEW i \in Importers, CommitImport(i) PROVE Kinds'
  BY <1>10 DEF CommitImport
<1>11. ASSUME NEW i \in Importers, FailImport(i) PROVE Kinds'
  BY <1>11 DEF FailImport
<1>12. ASSUME NEW i \in Importers, RollbackImport(i) PROVE Kinds'
  BY <1>12 DEF RollbackImport
<1>13. ASSUME NEW i \in Importers, UnlockStage(i) PROVE Kinds'
  BY <1>13 DEF UnlockStage
<1>14. ASSUME NEW i \in Importers, RemoveStage(i) PROVE Kinds'
  BY <1>14 DEF RemoveStage, RemoveDirectory
<1>15. ASSUME NEW i \in Importers, Crash(i) PROVE Kinds'
  BY <1>15 DEF Crash
<1>16. ASSUME NEW r \in Recorders, NEW d \in Digests, LookUpBlob(r, d) PROVE Kinds'
  BY <1>16 DEF LookUpBlob
<1>17. ASSUME NEW r \in Recorders, WriteBlob(r) PROVE Kinds'
  BY <1>17 DEF WriteBlob
<1>18. ASSUME NEW r \in Recorders, AppendEvent(r) PROVE Kinds'
  BY <1>18 DEF AppendEvent
<1>19. ASSUME NEW o \in Openers, NEW i \in Importers, VisitStage(o, i) PROVE Kinds'
  BY <1>19 DEF VisitStage
<1>20. ASSUME NEW o \in Openers, TryLock(o) PROVE Kinds'
  BY <1>20 DEF TryLock
<1>21. ASSUME NEW o \in Openers, NEW d \in Digests, CheckBlob(o, d) PROVE Kinds'
  BY <1>21 DEF CheckBlob
<1>22. ASSUME NEW o \in Openers, UnlinkBlob(o) PROVE Kinds'
  <2>1. CASE file[doomed[o]] = "none"
    BY <1>22, <2>1 DEF UnlinkBlob
  <2>2. CASE file[doomed[o]] # "none"
    BY <1>22, <2>2 DEF UnlinkBlob
  <2> QED
    BY <2>1, <2>2
<1>23. ASSUME NEW o \in Openers, FinishStage(o) PROVE Kinds'
  BY <1>23 DEF FinishStage, RemoveDirectory
<1>24. CASE UNCHANGED vars
  BY <1>24 DEF vars
<1>25. QED
  BY <1>1, <1>2, <1>3, <1>4, <1>5, <1>6, <1>7, <1>8, <1>9, <1>10, <1>11, <1>12,
     <1>13, <1>14, <1>15, <1>16, <1>17, <1>18, <1>19, <1>20, <1>21, <1>22, <1>23, <1>24 DEF Next

\* The lock of a stage has one holder: the import, until it lets go, or one
\* cleanup, which removes links only when the import has ended.
LEMMA GuardedStep == ASSUME Kinds, Kinds', StagesGuarded, [Next]_vars PROVE StagesGuarded'
<1> USE ProcessesAssumption DEF Kinds, TypeOK, Processes, ImportPoints, StagesGuarded, StageHeld, StageFresh,
        CleanupHolds, SeenWasMade, LockedImportsAreSafe, Holding, Staged, Goto, importVars, stageVars, openVars
<1>1. ASSUME NEW i \in Importers, NEW c \in Cassettes, MakeStage(i, c) PROVE StagesGuarded'
  BY <1>1 DEF MakeStage
<1>2. ASSUME NEW i \in Importers, OpenLock(i) PROVE StagesGuarded'
  BY <1>2 DEF OpenLock
<1>3. ASSUME NEW i \in Importers, LockStage(i) PROVE StagesGuarded'
  BY <1>3 DEF LockStage
<1>4. ASSUME NEW i \in Importers, StageBlobs(i) PROVE StagesGuarded'
  BY <1>4 DEF StageBlobs
<1>5. ASSUME NEW i \in Importers, AbandonImport(i) PROVE StagesGuarded'
  BY <1>5 DEF AbandonImport
<1>6. ASSUME NEW i \in Importers, BeginImport(i) PROVE StagesGuarded'
  <2>1. PICK next \in {"undoing", "linking"} : Goto(i, "staged", next)
    BY <1>6 DEF BeginImport
  <2>2. writer' = i /\ UNCHANGED <<file, stageVars, importVars, recorded, target, openVars>>
    BY <1>6 DEF BeginImport
  <2> QED
    BY <2>1, <2>2
<1>7. ASSUME NEW i \in Importers, NEW d \in Digests, PromoteBlob(i, d) PROVE StagesGuarded'
  BY <1>7 DEF PromoteBlob
<1>8. ASSUME NEW i \in Importers, NEW d \in Digests, UndoBlob(i, d) PROVE StagesGuarded'
  BY <1>8 DEF UndoBlob
<1>9. ASSUME NEW i \in Importers, VerifyImport(i) PROVE StagesGuarded'
  BY <1>9 DEF VerifyImport
<1>10. ASSUME NEW i \in Importers, CommitImport(i) PROVE StagesGuarded'
  BY <1>10 DEF CommitImport
<1>11. ASSUME NEW i \in Importers, FailImport(i) PROVE StagesGuarded'
  BY <1>11 DEF FailImport
<1>12. ASSUME NEW i \in Importers, RollbackImport(i) PROVE StagesGuarded'
  BY <1>12 DEF RollbackImport
<1>13. ASSUME NEW i \in Importers, UnlockStage(i) PROVE StagesGuarded'
  BY <1>13 DEF UnlockStage
<1>14. ASSUME NEW i \in Importers, RemoveStage(i) PROVE StagesGuarded'
  BY <1>14 DEF RemoveStage, RemoveDirectory
<1>15. ASSUME NEW i \in Importers, Crash(i) PROVE StagesGuarded'
  BY <1>15 DEF Crash
<1>16. ASSUME NEW r \in Recorders, NEW d \in Digests, LookUpBlob(r, d) PROVE StagesGuarded'
  BY <1>16 DEF LookUpBlob
<1>17. ASSUME NEW r \in Recorders, WriteBlob(r) PROVE StagesGuarded'
  BY <1>17 DEF WriteBlob
<1>18. ASSUME NEW r \in Recorders, AppendEvent(r) PROVE StagesGuarded'
  BY <1>18 DEF AppendEvent
<1>19. ASSUME NEW o \in Openers, NEW i \in Importers, VisitStage(o, i) PROVE StagesGuarded'
  BY <1>19 DEF VisitStage
<1>20. ASSUME NEW o \in Openers, TryLock(o) PROVE StagesGuarded'
  BY <1>20 DEF TryLock
<1>21. ASSUME NEW o \in Openers, NEW d \in Digests, CheckBlob(o, d) PROVE StagesGuarded'
  BY <1>21 DEF CheckBlob
<1>22. ASSUME NEW o \in Openers, UnlinkBlob(o) PROVE StagesGuarded'
  BY <1>22 DEF UnlinkBlob
<1>23. ASSUME NEW o \in Openers, FinishStage(o) PROVE StagesGuarded'
  BY <1>23 DEF FinishStage, RemoveDirectory
<1>24. CASE UNCHANGED vars
  BY <1>24 DEF vars
<1>25. QED
  BY <1>1, <1>2, <1>3, <1>4, <1>5, <1>6, <1>7, <1>8, <1>9, <1>10, <1>11, <1>12,
     <1>13, <1>14, <1>15, <1>16, <1>17, <1>18, <1>19, <1>20, <1>21, <1>22, <1>23, <1>24 DEF Next

\* No event that was committed is forgotten.
LEMMA ReferencedGrows == ASSUME Kinds, [Next]_vars PROVE Referenced \subseteq Referenced'
<1>1. imported \subseteq imported' /\ recorded \subseteq recorded'
  BY DEF Next, vars, importVars, MakeStage, OpenLock, LockStage, StageBlobs, AbandonImport, BeginImport, PromoteBlob,
         UndoBlob, VerifyImport, CommitImport, FailImport, RollbackImport, UnlockStage, RemoveStage, Crash,
         LookUpBlob, WriteBlob, AppendEvent, VisitStage, TryLock, CheckBlob, UnlinkBlob, FinishStage
<1>2. QED
  BY <1>1 DEF Referenced, Kinds, TypeOK

\* A link changes owners only when its import commits, undoes it or dies, and a
\* cleanup lets go of a stage only when it has dealt with every link.
LEMMA OwnedStep ==
    ASSUME Kinds, Kinds', StagesGuarded, LinksOwned, CleanupRemembers, [Next]_vars
    PROVE  LinksOwned' /\ CleanupRemembers'
<1> USE ProcessesAssumption, ReferencedGrows
        DEF Kinds, TypeOK, Processes, ImportPoints, StagesGuarded, StageHeld, StageFresh, CleanupHolds,
            SeenWasMade, LinksOwned, CleanupRemembers, Holding, Staged, Goto, importVars, stageVars, openVars
<1>1. ASSUME NEW i \in Importers, NEW c \in Cassettes, MakeStage(i, c) PROVE LinksOwned' /\ CleanupRemembers'
  BY <1>1 DEF MakeStage
<1>2. ASSUME NEW i \in Importers, OpenLock(i) PROVE LinksOwned' /\ CleanupRemembers'
  BY <1>2 DEF OpenLock
<1>3. ASSUME NEW i \in Importers, LockStage(i) PROVE LinksOwned' /\ CleanupRemembers'
  BY <1>3 DEF LockStage
<1>4. ASSUME NEW i \in Importers, StageBlobs(i) PROVE LinksOwned' /\ CleanupRemembers'
  BY <1>4 DEF StageBlobs
<1>5. ASSUME NEW i \in Importers, AbandonImport(i) PROVE LinksOwned' /\ CleanupRemembers'
  BY <1>5 DEF AbandonImport
<1>6. ASSUME NEW i \in Importers, BeginImport(i) PROVE LinksOwned' /\ CleanupRemembers'
  <2>1. PICK next \in {"undoing", "linking"} : Goto(i, "staged", next)
    BY <1>6 DEF BeginImport
  <2>2. writer' = i /\ UNCHANGED <<file, stageVars, importVars, recorded, target, openVars>>
    BY <1>6 DEF BeginImport
  <2> QED
    BY <2>1, <2>2
<1>7. ASSUME NEW i \in Importers, NEW d \in Digests, PromoteBlob(i, d) PROVE LinksOwned' /\ CleanupRemembers'
  BY <1>7 DEF PromoteBlob
<1>8. ASSUME NEW i \in Importers, NEW d \in Digests, UndoBlob(i, d) PROVE LinksOwned' /\ CleanupRemembers'
  BY <1>8 DEF UndoBlob
<1>9. ASSUME NEW i \in Importers, VerifyImport(i) PROVE LinksOwned' /\ CleanupRemembers'
  BY <1>9 DEF VerifyImport
<1>10. ASSUME NEW i \in Importers, CommitImport(i) PROVE LinksOwned' /\ CleanupRemembers'
  BY <1>10 DEF CommitImport, Referenced
<1>11. ASSUME NEW i \in Importers, FailImport(i) PROVE LinksOwned' /\ CleanupRemembers'
  BY <1>11 DEF FailImport
<1>12. ASSUME NEW i \in Importers, RollbackImport(i) PROVE LinksOwned' /\ CleanupRemembers'
  BY <1>12 DEF RollbackImport
<1>13. ASSUME NEW i \in Importers, UnlockStage(i) PROVE LinksOwned' /\ CleanupRemembers'
  BY <1>13 DEF UnlockStage
<1>14. ASSUME NEW i \in Importers, RemoveStage(i) PROVE LinksOwned' /\ CleanupRemembers'
  BY <1>14 DEF RemoveStage, RemoveDirectory
<1>15. ASSUME NEW i \in Importers, Crash(i) PROVE LinksOwned' /\ CleanupRemembers'
  BY <1>15 DEF Crash
<1>16. ASSUME NEW r \in Recorders, NEW d \in Digests, LookUpBlob(r, d) PROVE LinksOwned' /\ CleanupRemembers'
  BY <1>16 DEF LookUpBlob
<1>17. ASSUME NEW r \in Recorders, WriteBlob(r) PROVE LinksOwned' /\ CleanupRemembers'
  BY <1>17 DEF WriteBlob
<1>18. ASSUME NEW r \in Recorders, AppendEvent(r) PROVE LinksOwned' /\ CleanupRemembers'
  BY <1>18 DEF AppendEvent
<1>19. ASSUME NEW o \in Openers, NEW i \in Importers, VisitStage(o, i) PROVE LinksOwned' /\ CleanupRemembers'
  BY <1>19 DEF VisitStage
<1>20. ASSUME NEW o \in Openers, TryLock(o) PROVE LinksOwned' /\ CleanupRemembers'
  BY <1>20 DEF TryLock
<1>21. ASSUME NEW o \in Openers, NEW d \in Digests, CheckBlob(o, d) PROVE LinksOwned' /\ CleanupRemembers'
  BY <1>21 DEF CheckBlob
<1>22. ASSUME NEW o \in Openers, UnlinkBlob(o) PROVE LinksOwned' /\ CleanupRemembers'
  BY <1>22 DEF UnlinkBlob
<1>23. ASSUME NEW o \in Openers, FinishStage(o) PROVE LinksOwned' /\ CleanupRemembers'
  <2>1. CASE visiting[o] \notin stageDir
    BY <1>23, <2>1 DEF FinishStage
  <2>2. CASE visiting[o] \in stageDir
    <3> DEFINE i == visiting[o]
    <3>1. /\ pc[o] = "cleaning" /\ pc' = [pc EXCEPT ![o] = "start"] /\ i \in Importers
          /\ pending[o] = {} /\ doomed[o] = "none"
          /\ stageDir' = stageDir \ {i} /\ staged' = [staged EXCEPT ![i] = {}]
          /\ detached \subseteq detached' /\ detached' \subseteq detached \cup {i}
          /\ pc[i] = "opened" => i \in detached'
          /\ UNCHANGED <<file, importVars, recorded, openVars>>
      BY <1>23, <2>2 DEF FinishStage, RemoveDirectory
    <3>2. Referenced' = Referenced
      BY <3>1 DEF Referenced
    <3>3. \A d \in Digests : file[d] = i /\ i \notin detached' => d \in Referenced
      BY <3>1
    <3>4. \A k \in Importers : pc'[k] = pc[k] /\ (k # i => staged'[k] = staged[k])
      BY <3>1
    <3>5. LinksOwned'
      BY <3>1, <3>2, <3>3, <3>4
    <3>6. CleanupRemembers'
      BY <3>1, <3>2, <3>4
    <3> QED
      BY <3>5, <3>6
  <2> QED
    BY <2>1, <2>2
<1>24. CASE UNCHANGED vars
  BY <1>24 DEF vars
<1>25. QED
  BY <1>1, <1>2, <1>3, <1>4, <1>5, <1>6, <1>7, <1>8, <1>9, <1>10, <1>11, <1>12,
     <1>13, <1>14, <1>15, <1>16, <1>17, <1>18, <1>19, <1>20, <1>21, <1>22, <1>23, <1>24 DEF Next

\* Cleanup takes what a dead import left, all of it, and nothing of a live one,
\* unless it took the lock file from under that import before it was locked
\* (store.py import_cassette, _cleanup_import_staging).
THEOREM StageRecovery == Spec => []StagesAreRecovered
<1>1. Recoverable /\ [Next]_vars => Recoverable'
  BY KindsStep, GuardedStep, OwnedStep DEF Recoverable
<1>2. Recoverable => StagesAreRecovered
  <2> SUFFICES ASSUME Recoverable PROVE StagesAreRecovered
    OBVIOUS
  <2>1. NoOrphans
    BY DEF Recoverable, Kinds, LinksOwned, NoOrphans
  <2> QED
    BY <2>1 DEF Recoverable, Kinds, StagesGuarded, StagesAreRecovered
<1>3. QED
  BY <1>1, <1>2, RecoverableInit, PTL DEF Spec
-----------------------------------------------------------------------------
(***************************************************************************)
(* Links of imports beside recorders and cleanups.                         *)
(***************************************************************************)

\* An import that may still commit or undo its links, or has committed them.
Owning(i) == pc[i] \in InTransaction \/ i \in imported

\* An import links nothing before its transaction, and leaves no stage behind
\* when it ends by itself.
LinksComeLate ==
    \A i \in Importers :
        /\ pc[i] \in {"start", "made", "opened", "locked", "staged"} => created[i] = {} /\ i \notin imported
        /\ pc[i] = "done" => staged[i] = {}
        /\ i \in imported => pc[i] \in {"closing", "removing", "done", "dead"}

\* A link of an owning import is its own or was replaced by a recorder.
OwnerKeeps ==
    \A i \in Importers : Owning(i) => \A d \in created[i] : file[d] \in {i} \cup Recorders

\* A blob that a cleanup is about to unlink is there, is not of an owning import,
\* and no other cleanup is about to unlink it.
DoomedIsNobodys ==
    \A o \in Openers : doomed[o] # "none" =>
        /\ file[doomed[o]] \in {visiting[o]} \cup Recorders
        /\ \A i \in Importers : Owning(i) => doomed[o] \notin created[i]
        /\ \A p \in Openers : doomed[p] = doomed[o] => p = o

LinksKept == LinksComeLate /\ (detached = {} => OwnerKeeps /\ DoomedIsNobodys)

\* Nobody has begun.
LEMMA KeptInit == Init => LinksKept
BY ProcessesAssumption
   DEF Init, LinksKept, LinksComeLate, OwnerKeeps, DoomedIsNobodys, Owning, InTransaction, Processes

\* A cleanup that dooms a blob finds nothing imported and the blob's import ended,
\* so nobody owns it; while the blob is there nobody links it again.
LEMMA KeptStep ==
    ASSUME Kinds, Kinds', StagesGuarded, LinksKept, [Next]_vars
    PROVE  LinksKept'
<1> USE ProcessesAssumption
        DEF Kinds, TypeOK, Processes, ImportPoints, LinksKept, LinksComeLate, OwnerKeeps, DoomedIsNobodys,
            Owning, InTransaction, Goto, importVars, stageVars, openVars
<1>1. ASSUME NEW i \in Importers, NEW c \in Cassettes, MakeStage(i, c) PROVE LinksKept'
  BY <1>1 DEF MakeStage
<1>2. ASSUME NEW i \in Importers, OpenLock(i) PROVE LinksKept'
  BY <1>2 DEF OpenLock, StagesGuarded, StageFresh
<1>3. ASSUME NEW i \in Importers, LockStage(i) PROVE LinksKept'
  BY <1>3 DEF LockStage
<1>4. ASSUME NEW i \in Importers, StageBlobs(i) PROVE LinksKept'
  BY <1>4 DEF StageBlobs
<1>5. ASSUME NEW i \in Importers, AbandonImport(i) PROVE LinksKept'
  BY <1>5 DEF AbandonImport
<1>6. ASSUME NEW i \in Importers, BeginImport(i) PROVE LinksKept'
  BY <1>6 DEF BeginImport
<1>7. ASSUME NEW i \in Importers, NEW d \in Digests, PromoteBlob(i, d) PROVE LinksKept'
  <2>1. CASE d \notin staged[i]
    BY <1>7, <2>1 DEF PromoteBlob
  <2>2. CASE d \in staged[i]
    <3>1. /\ pc[i] = "linking" /\ file[d] = "none" /\ file' = [file EXCEPT ![d] = i]
          /\ created' = [created EXCEPT ![i] = @ \cup {d}]
          /\ UNCHANGED <<pc, stageVars, imported, openVars>>
      BY <1>7, <2>2 DEF PromoteBlob
    <3>2. LinksComeLate'
      BY <3>1
    <3>3. \A k \in Importers : Owning(k)' <=> Owning(k)
      BY <3>1
    <3>4. ASSUME detached = {} PROVE OwnerKeeps'
      BY <3>1, <3>4
    <3>5. ASSUME detached = {} PROVE DoomedIsNobodys'
      <4>1. \A o \in Openers : doomed[o] # "none" => doomed[o] # d
        BY <3>1, <3>5
      <4>2. \A e \in Digests \ {d} : file'[e] = file[e] /\ \A k \in Importers : e \in created'[k] <=> e \in created[k]
        BY <3>1
      <4> QED
        BY <3>1, <3>3, <3>5, <4>1, <4>2
    <3> QED
      BY <3>1, <3>2, <3>4, <3>5
  <2> QED
    BY <2>1, <2>2
<1>8. ASSUME NEW i \in Importers, NEW d \in Digests, UndoBlob(i, d) PROVE LinksKept'
  BY <1>8 DEF UndoBlob
<1>9. ASSUME NEW i \in Importers, VerifyImport(i) PROVE LinksKept'
  BY <1>9 DEF VerifyImport
<1>10. ASSUME NEW i \in Importers, CommitImport(i) PROVE LinksKept'
  BY <1>10 DEF CommitImport
<1>11. ASSUME NEW i \in Importers, FailImport(i) PROVE LinksKept'
  BY <1>11 DEF FailImport
<1>12. ASSUME NEW i \in Importers, RollbackImport(i) PROVE LinksKept'
  BY <1>12 DEF RollbackImport
<1>13. ASSUME NEW i \in Importers, UnlockStage(i) PROVE LinksKept'
  BY <1>13 DEF UnlockStage
<1>14. ASSUME NEW i \in Importers, RemoveStage(i) PROVE LinksKept'
  BY <1>14 DEF RemoveStage, RemoveDirectory
<1>15. ASSUME NEW i \in Importers, Crash(i) PROVE LinksKept'
  BY <1>15 DEF Crash
<1>16. ASSUME NEW r \in Recorders, NEW d \in Digests, LookUpBlob(r, d) PROVE LinksKept'
  BY <1>16 DEF LookUpBlob
<1>17. ASSUME NEW r \in Recorders, WriteBlob(r) PROVE LinksKept'
  BY <1>17 DEF WriteBlob
<1>18. ASSUME NEW r \in Recorders, AppendEvent(r) PROVE LinksKept'
  BY <1>18 DEF AppendEvent
<1>19. ASSUME NEW o \in Openers, NEW i \in Importers, VisitStage(o, i) PROVE LinksKept'
  BY <1>19 DEF VisitStage
<1>20. ASSUME NEW o \in Openers, TryLock(o) PROVE LinksKept'
  BY <1>20 DEF TryLock
<1>21. ASSUME NEW o \in Openers, NEW d \in Digests, CheckBlob(o, d) PROVE LinksKept'
  <2> DEFINE v == visiting[o]
  <2>1. /\ pc[o] = "cleaning" /\ doomed[o] = "none" /\ v \in Importers
        /\ doomed' = [doomed EXCEPT ![o] =
               IF file[d] = v /\ d \in staged[v] /\ d \notin Referenced THEN d ELSE "none"]
        /\ UNCHANGED <<pc, file, stageVars, importVars, visiting>>
    BY <1>21 DEF CheckBlob
  <2>2. CASE ~ (file[d] = v /\ d \in staged[v] /\ d \notin Referenced)
    <3>1. doomed' = doomed
      BY <2>1, <2>2
    <3> QED
      BY <2>1, <3>1
  <2>3. CASE file[d] = v /\ d \in staged[v] /\ d \notin Referenced
    <3>1. doomed' = [doomed EXCEPT ![o] = d]
      BY <2>1, <2>3
    <3>2. imported = {}
      BY <2>3 DEF Referenced
    <3>3. ASSUME detached = {} PROVE stageLock[v] = o /\ pc[v] \in {"made", "opened", "removing", "dead"}
      BY <2>1, <2>3, <3>3 DEF StagesGuarded, CleanupHolds
    <3>4. ASSUME detached = {}, NEW i \in Importers, Owning(i) PROVE d \notin created[i]
      BY <2>1, <2>3, <3>2, <3>3, <3>4
    <3>5. ASSUME detached = {}, NEW p \in Openers, doomed[p] = d PROVE FALSE
      <4>1. visiting[p] = v
        BY <2>1, <2>3, <3>5
      <4>2. pc[p] = "cleaning" /\ p # o
        BY <2>1, <3>5
      <4> QED
        BY <3>3, <3>5, <4>1, <4>2 DEF StagesGuarded, CleanupHolds
    <3>6. LinksComeLate'
      BY <2>1
    <3>7. \A i \in Importers : Owning(i)' <=> Owning(i)
      BY <2>1
    <3>8. ASSUME detached = {} PROVE OwnerKeeps'
      BY <2>1, <3>8
    <3>9. ASSUME detached = {} PROVE DoomedIsNobodys'
      BY <2>1, <2>3, <3>1, <3>4, <3>5, <3>7, <3>9
    <3> QED
      BY <2>1, <3>6, <3>8, <3>9
  <2> QED
    BY <2>2, <2>3
<1>22. ASSUME NEW o \in Openers, UnlinkBlob(o) PROVE LinksKept'
  BY <1>22 DEF UnlinkBlob
<1>23. ASSUME NEW o \in Openers, FinishStage(o) PROVE LinksKept'
  BY <1>23 DEF FinishStage, RemoveDirectory
<1>24. CASE UNCHANGED vars
  BY <1>24 DEF vars
<1>25. QED
  BY <1>1, <1>2, <1>3, <1>4, <1>5, <1>6, <1>7, <1>8, <1>9, <1>10, <1>11, <1>12, <1>13, <1>14, <1>15, <1>16, <1>17, <1>18, <1>19, <1>20, <1>21, <1>22, <1>23, <1>24 DEF Next

\* While only imports use the store, whatever failed or died, every blob that a
\* committed event refers to is there; beside recorders and cleanups, every blob
\* that a committed import linked itself is, unless cleanup took a lock file from
\* under an import (cassette.py import_cassette, store.py _cleanup_import_staging).
THEOREM SafeImports == Spec => []ImportsKeepBlobs
<1>1. Recoverable /\ [Next]_vars => Recoverable'
  BY KindsStep, GuardedStep, OwnedStep DEF Recoverable
<1>2. Recoverable /\ Recoverable' /\ LinksKept /\ [Next]_vars => LinksKept'
  BY KeptStep DEF Recoverable
<1>3. Recoverable /\ LinksKept => OwnLinksStay
  BY ProcessesAssumption
     DEF Recoverable, Kinds, TypeOK, LinksKept, OwnerKeeps, Owning, OwnLinksStay
<1>4. (ImportsAlone => ReferencedBlobsExist) /\ OwnLinksStay => ImportsKeepBlobs
  BY DEF ImportsKeepBlobs
<1>5. QED
  BY <1>1, <1>2, <1>3, <1>4, RecoverableInit, KeptInit, ImportsAloneAreSafe, PTL DEF Spec
=============================================================================
