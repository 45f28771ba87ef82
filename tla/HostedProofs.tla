---------------------------- MODULE HostedProofs ----------------------------
(***************************************************************************)
(* The small state machines of the control plane: a token while the pepper *)
(* is rotated, the key of a job's creation, and a stored object, for any   *)
(* number of replicas and requests and any lengths of time; and the        *)
(* contract of requests and completions, for every one of them.            *)
(***************************************************************************)
EXTENDS HostedObjects, IdempotencyKeys, TokenRotation, ResultContract, TLAPS

-----------------------------------------------------------------------------
\* Rings of neighbouring versions, and logins in flight that verified what they
\* read with the ring their replica still has.
RingsHold ==
    /\ ring \in [Replicas -> Nat \ {0}]
    /\ \A r, s \in Replicas : ring[r] <= ring[s] + 1
LoginsHold ==
    /\ login \in [Logins -> [pc : {"off", "use"}, replica : Replicas \cup {"none"}, secret : Issued \cup {"none"},
                            verifier : Nat \X (Issued \cup {"none"}), version : Nat]]
    /\ \A q \in Logins :
           login[q].pc = "use" =>
               /\ login[q].replica \in Replicas
               /\ login[q].secret \in Issued
               /\ login[q].verifier = <<login[q].version, login[q].secret>>

\* The row is the verifier of the registered secret under the version it names,
\* which some replica has reached and no replica has left behind by two.
RowHolds ==
    /\ valid \in Issued
    /\ token \in [verifier : Nat \X Issued, version : Nat \ {0}]
    /\ token.verifier = <<token.version, valid>>
    /\ \E r \in Replicas : token.version <= ring[r]
    /\ \A r \in Replicas : ring[r] <= token.version + 1

TokenHolds == RingsHold /\ LoginsHold /\ RowHolds

\* The operator registers the first secret with the first pepper.
LEMMA TokenHoldsInit == TokenInit => TokenHolds
<1> SUFFICES ASSUME TokenInit PROVE TokenHolds
  OBVIOUS
<1>1. valid \in Issued
  BY RotationAssumption DEF TokenInit
<1> QED
  BY <1>1, RotationAssumption DEF TokenInit, TokenHolds, RingsHold, LoginsHold, RowHolds, Nobody

\* Only the newest secret is ever written, under the version of a running ring.
LEMMA TokenHoldsStep == TokenHolds /\ [TokenNext]_tokenVars => TokenHolds'
<1> SUFFICES ASSUME TokenHolds, [TokenNext]_tokenVars PROVE TokenHolds'
  OBVIOUS
<1> USE DEF TokenHolds, RingsHold, LoginsHold, RowHolds
<1>1. ASSUME NEW r \in Replicas, Rotate(r) PROVE TokenHolds'
  BY <1>1 DEF Rotate
<1>2. ASSUME NEW r \in Replicas, NEW secret \in Issued, EnsureToken(r, secret) PROVE TokenHolds'
  BY <1>2 DEF EnsureToken
<1>3. ASSUME NEW q \in Logins, NEW r \in Replicas, NEW secret \in Issued, ReadToken(q, r, secret)
      PROVE TokenHolds'
  BY <1>3 DEF ReadToken, Verify
<1>4. ASSUME NEW q \in Logins, UseToken(q) PROVE TokenHolds'
  <2>1. login' \in [Logins -> [pc : {"off", "use"}, replica : Replicas \cup {"none"}, secret : Issued \cup {"none"},
                             verifier : Nat \X (Issued \cup {"none"}), version : Nat]]
    BY <1>4 DEF UseToken, Nobody
  <2>2. LoginsHold'
    BY <1>4, <2>1 DEF UseToken, Nobody
  <2>3. CASE UnchangedSince(q)
    <3>1. login[q].secret = valid
      BY <1>4, <2>3 DEF UseToken, UnchangedSince
    <3>2. token'.version = ring[login[q].replica] /\ token'.verifier = <<token'.version, valid>>
      BY <1>4, <2>3, <3>1 DEF UseToken, Migrated
    <3>3. token' \in [verifier : Nat \X Issued, version : Nat \ {0}]
      BY <1>4, <2>3, <3>1 DEF UseToken, Migrated
    <3> QED
      BY <1>4, <2>2, <3>2, <3>3 DEF UseToken
  <2>4. CASE ~UnchangedSince(q)
    BY <1>4, <2>2, <2>4 DEF UseToken
  <2> QED
    BY <2>3, <2>4
<1>5. CASE UNCHANGED tokenVars
  BY <1>5 DEF tokenVars
<1> QED
  BY <1>1, <1>2, <1>3, <1>4, <1>5 DEF TokenNext

\* A rotation of the pepper, at any number of replicas and requests, neither
\* brings back a secret that was replaced nor locks out the registered one
\* (auth.go authenticateToken, EnsureWorkspaceToken, EnsureWorkerCredential).
THEOREM TokenRotationIsSafe == TokenSpec => []RotationKeepsTheSecret
<1>1. TokenHolds => RotationKeepsTheSecret
  <2> SUFFICES ASSUME TokenHolds PROVE RotationKeepsTheSecret
    OBVIOUS
  <2> USE DEF TokenHolds, RingsHold, RowHolds
  <2>1. ReplacedSecretsStayReplaced
    BY DEF ReplacedSecretsStayReplaced
  <2>2. NewestRingAccepts
    BY DEF NewestRingAccepts, Verify
  <2> QED
    BY <2>1, <2>2 DEF RotationKeepsTheSecret
<1> QED
  BY <1>1, TokenHoldsInit, TokenHoldsStep, PTL DEF TokenSpec

-----------------------------------------------------------------------------
\* The record that the creation of a job leaves.
RecordOf(a) == [digest |-> a.digest, job |-> a.job, expires |-> a.at + Lifetime]

ClientsTyped ==
    /\ hour \in Nat
    /\ client \in [Clients -> [pc : {"new", "look", "insert", "commit", "done"}, digest : Requested \cup {"none"},
                              began : Nat, answer : Clients \cup {"none", "conflict", "error"}]]
    /\ made \subseteq [job : Clients, digest : Requested \cup {"none"}, at : Nat]

\* One transaction at a time has inserted the key, over no record; and it, like
\* every transaction in flight, is not older than the longest one.
InsertsAlone ==
    /\ \A c \in Clients : client[c].pc = "commit" <=> holder = c
    /\ holder # "none" => record = NoRecord
    /\ holder \in Clients \cup {"none"}
    /\ \A c \in Clients : client[c].pc \in {"look", "insert", "commit"} => hour <= client[c].began + TransactionTicks

\* The record is that of a job that was made, and a job that was made has its
\* record still or has outlived it.
RecordsHold ==
    /\ record = NoRecord \/ \E a \in made : record = RecordOf(a)
    /\ \A a \in made : record = RecordOf(a) \/ a.at + Lifetime <= hour

\* What a client was answered with was made for the same request, and lived then.
AnswersHold ==
    \A c \in Clients :
        client[c].answer \in Clients =>
            \E a \in made :
                /\ a.job = client[c].answer
                /\ a.digest = client[c].digest
                /\ client[c].answer = c \/ client[c].began < a.at + Lifetime

LifetimesApart ==
    \A a, b \in made :
        a # b => a.at + Lifetime <= b.at + TransactionTicks \/ b.at + Lifetime <= a.at + TransactionTicks

KeyHolds == ClientsTyped /\ InsertsAlone /\ RecordsHold /\ AnswersHold /\ LifetimesApart

\* Before the first request there is neither record nor job.
LEMMA KeyHoldsInit == KeyInit => KeyHolds
BY ClientsAssumption, LifetimeAssumption
   DEF KeyInit, KeyHolds, ClientsTyped, InsertsAlone, RecordsHold, AnswersHold, LifetimesApart

\* A transaction that ends is answered, and keeps what it asked for and when.
LEMMA ClientsSettled ==
    ASSUME ClientsTyped, NEW c \in Clients, NEW answer \in Clients \cup {"none", "conflict", "error"}
    PROVE  [client EXCEPT ![c].pc = "done", ![c].answer = answer]
               \in [Clients -> [pc : {"new", "look", "insert", "commit", "done"}, digest : Requested \cup {"none"},
                               began : Nat, answer : Clients \cup {"none", "conflict", "error"}]]
BY DEF ClientsTyped

\* A job is made only by the transaction that holds the key, when every earlier
\* job of the key has outlived its record.
LEMMA KeyHoldsStep == KeyHolds /\ [KeyNext]_keyVars => KeyHolds'
<1> SUFFICES ASSUME KeyHolds, [KeyNext]_keyVars PROVE KeyHolds'
  OBVIOUS
<1> USE ClientsAssumption, LifetimeAssumption
        DEF KeyHolds, ClientsTyped, InsertsAlone, RecordsHold, AnswersHold, LifetimesApart
<1>1. CASE PassHour
  BY <1>1 DEF PassHour
<1>2. CASE SweepRecord
  BY <1>2 DEF SweepRecord, NoRecord, RecordOf
<1>3. ASSUME NEW c \in Clients, NEW digest \in Requested, BeginCreate(c, digest) PROVE KeyHolds'
  BY <1>3 DEF BeginCreate
<1>4. ASSUME NEW c \in Clients, ReadRecord(c) PROVE KeyHolds'
  <2>1. CASE ~Alive(c)
    BY <1>4, <2>1 DEF ReadRecord
  <2>2. CASE Alive(c)
    <3>1. PICK a \in made : record = RecordOf(a)
      BY <2>2 DEF Alive
    <3>2. a.job = record.job /\ a.digest = record.digest /\ client[c].began < a.at + Lifetime
      BY <2>2, <3>1 DEF Alive, RecordOf
    <3>3. client' = [client EXCEPT ![c] =
              [@ EXCEPT !.pc = "done",
                        !.answer = IF record.digest = client[c].digest THEN record.job ELSE "conflict"]]
      BY <1>4, <2>2 DEF ReadRecord
    <3>4. ClientsTyped'
      <4> DEFINE answer == IF record.digest = client[c].digest THEN record.job ELSE "conflict"
      <4>1. answer \in Clients \cup {"none", "conflict", "error"}
        BY <3>2
      <4>2. client' = [client EXCEPT ![c].pc = "done", ![c].answer = answer]
        BY <3>3
      <4>3. hour' = hour /\ made' = made
        BY <1>4 DEF ReadRecord
      <4> HIDE DEF answer
      <4> QED
        BY <4>1, <4>2, <4>3, ClientsSettled
    <3>6. InsertsAlone'
      BY <1>4, <3>3 DEF ReadRecord
    <3>5. AnswersHold'
      BY <1>4, <3>2, <3>3, <3>4 DEF ReadRecord
    <3> QED
      BY <1>4, <3>4, <3>5, <3>6 DEF ReadRecord
  <2> QED
    BY <2>1, <2>2
<1>5. ASSUME NEW c \in Clients, InsertRecord(c) PROVE KeyHolds'
  BY <1>5 DEF InsertRecord, Collides
<1>6. ASSUME NEW c \in Clients, CommitCreate(c) PROVE KeyHolds'
  <2> DEFINE new == [job |-> c, digest |-> client[c].digest, at |-> client[c].began]
  <2>1. record = NoRecord /\ hour <= client[c].began + TransactionTicks
    BY <1>6 DEF CommitCreate
  <2>2. record' = RecordOf(new) /\ made' = made \cup {new}
    BY <1>6 DEF CommitCreate, RecordOf
  <2>3. \A a \in made : a.at + Lifetime <= hour
    BY <2>1 DEF RecordOf, NoRecord
  <2>4. ClientsTyped'
    <3>1. made' \subseteq [job : Clients, digest : Requested \cup {"none"}, at : Nat]
      BY <2>2
    <3>2. client' = [client EXCEPT ![c].pc = "done", ![c].answer = c] /\ hour' = hour
      BY <1>6 DEF CommitCreate
    <3> QED
      BY <3>1, <3>2, ClientsSettled
  <2>5. InsertsAlone'
    BY <1>6 DEF CommitCreate
  <2>6. RecordsHold'
    BY <1>6, <2>2, <2>3 DEF CommitCreate
  <2>7. AnswersHold'
    <3>1. client'[c].answer = c /\ client'[c].digest = new.digest /\ new \in made' /\ new.job = c
      BY <1>6, <2>2 DEF CommitCreate
    <3>2. \A q \in Clients \ {c} : client'[q] = client[q]
      BY <1>6 DEF CommitCreate
    <3> QED
      BY <2>2, <3>1, <3>2
  <2>8. LifetimesApart'
    <3>1. \A a \in made : a.at + Lifetime <= new.at + TransactionTicks
      BY <2>1, <2>3
    <3> QED
      BY <2>2, <3>1
  <2> QED
    BY <2>4, <2>5, <2>6, <2>7, <2>8
<1>7. ASSUME NEW c \in Clients, RollBack(c) PROVE KeyHolds'
  <2>1. ClientsTyped'
    BY <1>7, ClientsSettled DEF RollBack
  <2>2. InsertsAlone' /\ RecordsHold' /\ LifetimesApart'
    BY <1>7 DEF RollBack
  <2>3. AnswersHold'
    BY <1>7 DEF RollBack
  <2> QED
    BY <2>1, <2>2, <2>3
<1>8. CASE UNCHANGED keyVars
  BY <1>8 DEF keyVars
<1> QED
  BY <1>1, <1>2, <1>3, <1>4, <1>5, <1>6, <1>7, <1>8 DEF KeyNext

\* However the requests under a key interleave with each other, with time and
\* with the sweep, the key names one job while its record lives, and nobody is
\* answered with a job of another request or of an expired record
\* (lifecycle.go CreateJob).
THEOREM KeysNameOneJob == KeySpec => []KeysAreExact
<1>1. KeyHolds => KeysAreExact
  <2> SUFFICES ASSUME KeyHolds PROVE KeysAreExact
    OBVIOUS
  <2> USE DEF KeyHolds, AnswersHold
  <2>1. KeyNamesOneJob
    BY DEF LifetimesApart, KeyNamesOneJob
  <2>2. AnswersAreFresh
    BY DEF AnswersAreFresh
  <2> QED
    BY <2>1, <2>2 DEF KeysAreExact
<1> QED
  BY <1>1, KeyHoldsInit, KeyHoldsStep, PTL DEF KeySpec

-----------------------------------------------------------------------------
ObjectsTyped ==
    /\ now \in Nat
    /\ DOMAIN objects \subseteq Versions
    /\ objects \in [DOMAIN objects -> Nat]
    /\ born \in [Versions -> Nat \cup {-1}]
    /\ owner \in [state : {"open", "registered", "closed"}, version : Versions \cup {0}, at : Nat]
    /\ caller \in [Callers -> [pc : {"off", "commit", "register"}, version : Versions \cup {0}]]
    /\ sweep \in [pc : {"off", "cutoff", "list"}, keep : SUBSET Versions, since : Nat, before : Int,
                  doomed : SUBSET Versions]

\* A stored version has been uploaded, not after it was last modified; one that
\* is gone was older than the grace period.
UploadsHold ==
    \A v \in Versions :
        /\ v \in DOMAIN objects => born[v] # -1 /\ born[v] <= objects[v] /\ objects[v] <= now
        /\ born[v] # -1 /\ v \notin DOMAIN objects => born[v] + Grace <= now

\* What is registered, or about to be, has been uploaded.
OwnersHold ==
    /\ owner.at <= now
    /\ owner.state = "registered" => owner.version \in Versions /\ born[owner.version] # -1
    /\ \A c \in Callers : caller[c].pc # "off" => caller[c].version \in Versions
    /\ \A c \in Callers : caller[c].pc = "register" => born[caller[c].version] # -1

\* The snapshot keeps what was registered before it, and the cutoff of the pass
\* is within the slack of the snapshot.
SnapshotHolds ==
    /\ sweep.pc = "cutoff" =>
           /\ sweep.since <= now /\ now - sweep.since <= Slack
           /\ owner.state = "registered" /\ owner.at < sweep.since => owner.version \in sweep.keep
    /\ sweep.pc = "list" =>
           /\ sweep.before + Grace <= now
           /\ owner.state = "registered" /\ owner.at < sweep.before + Grace - Slack => owner.version \in sweep.keep

\* What a pass is about to remove was uploaded before the cutoff and not kept.
DoomedHold ==
    /\ sweep.pc # "list" => sweep.doomed = {}
    /\ \A v \in sweep.doomed : v \notin sweep.keep /\ born[v] # -1 /\ born[v] <= sweep.before

ObjectsHold ==
    ObjectsTyped /\ UploadsHold /\ OwnersHold /\ SnapshotHolds /\ DoomedHold /\ RegisteredObjectsExist

\* Nothing is stored, registered or swept at first.
LEMMA ObjectsHoldInit == ObjectInit => ObjectsHold
BY DEF ObjectInit, Resting, Ready, ObjectsHold, ObjectsTyped, UploadsHold, OwnersHold, SnapshotHolds, DoomedHold,
       RegisteredObjectsExist

\* A registration that a pass does not know of is too late or safe from the pass.
LEMMA ObjectsHoldStep == ObjectsHold /\ [ObjectNext]_objectVars => ObjectsHold'
<1> SUFFICES ASSUME ObjectsHold, [ObjectNext]_objectVars PROVE ObjectsHold'
  OBVIOUS
<1> USE GraceAssumption
        DEF ObjectsHold, ObjectsTyped, UploadsHold, OwnersHold, SnapshotHolds, DoomedHold, RegisteredObjectsExist
<1>1. CASE TickObjects
  BY <1>1 DEF TickObjects
<1>2. CASE CloseOwner
  BY <1>2 DEF CloseOwner
<1>3. CASE BeginSweep
  <2>1. RetainedObjects \subseteq Versions
    BY DEF RetainedObjects
  <2>2. sweep' = [pc |-> "cutoff", keep |-> RetainedObjects, since |-> now, before |-> 0, doomed |-> {}]
    BY <1>3 DEF BeginSweep, Resting
  <2>3. owner.state = "registered" => owner.version \in RetainedObjects
    BY DEF RetainedObjects
  <2> QED
    <3>1. sweep'.pc = "cutoff" /\ sweep'.keep = RetainedObjects /\ sweep'.since = now /\ sweep'.doomed = {}
      BY <2>2
    <3>2. ObjectsTyped'
      BY <1>3, <2>1, <2>2 DEF BeginSweep
    <3> QED
      BY <1>3, <2>3, <3>1, <3>2 DEF BeginSweep
<1>4. CASE TakeCutoff
  <2>1. sweep' = [pc |-> "list", keep |-> sweep.keep, since |-> 0, before |-> now - Grace, doomed |-> {}]
    BY <1>4 DEF TakeCutoff
  <2> QED
    BY <1>4, <2>1 DEF TakeCutoff
<1>5. CASE EndSweep
  BY <1>5 DEF EndSweep, Resting
<1>6. ASSUME NEW v \in Versions, PutObject(v) PROVE ObjectsHold'
  BY <1>6 DEF PutObject
<1>7. ASSUME NEW v \in Versions, ListObject(v) PROVE ObjectsHold'
  BY <1>7 DEF ListObject
<1>8. ASSUME NEW v \in Versions, RemoveObject(v) PROVE ObjectsHold'
  BY <1>8 DEF RemoveObject
<1>9. ASSUME NEW c \in Callers, CommitObject(c) PROVE ObjectsHold'
  BY <1>9 DEF CommitObject, Ready
<1>10. ASSUME NEW c \in Callers, RegisterObject(c) PROVE ObjectsHold'
  BY <1>10 DEF RegisterObject, Ready
<1>11. ASSUME NEW c \in Callers, NEW v \in Versions, AuthorizeCaller(c, v) PROVE ObjectsHold'
  BY <1>11 DEF AuthorizeCaller
<1>12. CASE UNCHANGED objectVars
  BY <1>12 DEF objectVars
<1> QED
  BY <1>1, <1>2, <1>3, <1>4, <1>5, <1>6, <1>7, <1>8, <1>9, <1>10, <1>11, <1>12 DEF ObjectNext

\* No pass of the cleanup removes an object that was registered in time, however
\* it interleaves with uploads, repeated completions and the end of the owner
\* (httpapi completeUpload, workerapi complete, artifacts filesystem.go Cleanup).
THEOREM RegisteredObjectsStay == ObjectSpec => []RegisteredObjectsExist
<1>1. ObjectsHold => RegisteredObjectsExist
  BY DEF ObjectsHold
<1> QED
  BY <1>1, ObjectsHoldInit, ObjectsHoldStep, PTL DEF ObjectSpec

-----------------------------------------------------------------------------
\* An identifier: the UUID and how it is spelled.
IsId(id) == id = [uuid |-> id.uuid, form |-> id.form]

\* The contract, the control plane, the worker and the client agree on every
\* request, whatever its operation, profile, runs and their spellings, up to the
\* spellings that only the contract reads (PublicJobRequest, validID,
\* normalizedDigest, _operation, claim, analyze).
THEOREM RequestsAlwaysAgree ==
    ASSUME NEW S, \A id \in S : IsId(id), NEW op, NEW runs \in Seq(S), NEW profile
    PROVE  RequestAgrees([op |-> op, runs |-> runs, profile |-> profile])
<1> DEFINE r == [op |-> op, runs |-> runs, profile |-> profile]
<1> DEFINE Known == {"diff", "localize", "otlp", "pprof"}
           uuids == [k \in DOMAIN runs |-> runs[k].uuid]
<1>1. r.op = op /\ r.runs = runs /\ r.profile = profile
  OBVIOUS
<1>2. DOMAIN RequiredRuns = Known /\ DOMAIN RequiredProfile = Known /\ DOMAIN AnalysisOperations = Known
  BY DEF RequiredRuns, RequiredProfile, AnalysisOperations
<1>3. \A o \in Known : /\ AnalysisOperations[o].runs = RequiredRuns[o] /\ AnalysisOperations[o].profile = RequiredProfile[o]
                       /\ RequiredRuns[o] \in {1, 2}
  BY DEF RequiredRuns, RequiredProfile, AnalysisOperations
<1>4. Len(runs) \in Nat /\ DOMAIN runs = 1 .. Len(runs)
  OBVIOUS
<1>5. ASSUME op \in Known, Len(runs) = RequiredRuns[op]
      PROVE  IsInjective(uuids) <=> ~(RequiredRuns[op] = 2 /\ runs[1].uuid = runs[2].uuid)
  <2>1. CASE Len(runs) = 1
    BY <1>4, <1>5, <2>1 DEF IsInjective
  <2>2. CASE Len(runs) = 2
    <3>1. DOMAIN runs = {1, 2}
      BY <1>4, <2>2
    <3>2. DOMAIN uuids = {1, 2} /\ uuids[1] = runs[1].uuid /\ uuids[2] = runs[2].uuid
      BY <3>1
    <3> HIDE DEF uuids
    <3>3. IsInjective(uuids) <=> ~(uuids[1] = uuids[2])
      BY <3>2 DEF IsInjective
    <3> QED
      BY <1>5, <2>2, <3>2, <3>3
  <2> QED
    BY <1>3, <1>5, <2>1, <2>2
<1> HIDE DEF r
<1>6. RequestVerdict(r) = "accepted" <=>
          /\ \A k \in DOMAIN runs : ValidID(runs[k])
          /\ op \in DOMAIN AnalysisOperations /\ profile = AnalysisOperations[op].profile
          /\ Len(runs) = AnalysisOperations[op].runs
          /\ ~(AnalysisOperations[op].runs = 2 /\ runs[1].uuid = runs[2].uuid)
  BY <1>1 DEF RequestVerdict
<1>7. PublicRequestValid(r) <=>
          /\ op \in Known /\ Len(runs) = RequiredRuns[op] /\ IsInjective(uuids)
          /\ \A k \in DOMAIN runs : IsUuid(runs[k])
          /\ profile = RequiredProfile[op]
  BY <1>1, <1>2 DEF PublicRequestValid
<1>a. \A id : ValidID(id) => IsUuid(id)
  BY DEF ValidID, IsUuid
<1>8. RequestVerdict(r) = "accepted" <=> PublicRequestValid(r) /\ \A k \in DOMAIN runs : ValidID(runs[k])
  <2> HIDE DEF uuids
  <2> QED
    BY <1>2, <1>3, <1>5, <1>6, <1>7, <1>a
<1>b. ASSUME RequestVerdict(r) = "error"
      PROVE  \E i, k \in DOMAIN runs : runs[i].uuid = runs[k].uuid /\ runs[i].form # runs[k].form
  <2>1. /\ \A k \in DOMAIN runs : ValidID(runs[k])
        /\ Len(runs) = 2 /\ runs[1] # runs[2] /\ runs[1].uuid = runs[2].uuid
    BY <1>1, <1>b DEF RequestVerdict
  <2>2. 1 \in DOMAIN runs /\ 2 \in DOMAIN runs
    BY <1>4, <2>1
  <2>3. runs[1] \in S /\ runs[2] \in S
    BY <2>2
  <2>5. IsId(runs[1]) /\ IsId(runs[2])
    BY <2>3
  <2>4. runs[1].form # runs[2].form
    BY <2>1, <2>5 DEF IsId
  <2> QED
    BY <2>1, <2>2, <2>4
<1>9. ASSUME PublicRequestValid(r)
      PROVE  WorkerSupports(op, profile) /\ ClaimedInputs(op) = Len(runs) /\ AnalyzeRequest(op, runs) = r
  <2>1. op \in Known /\ profile = RequiredProfile[op] /\ Len(runs) = AnalysisOperations[op].runs
    BY <1>3, <1>7, <1>9
  <2>2. WorkerSupports(op, profile)
    BY <1>2, <2>1 DEF WorkerSupports
  <2> QED
    BY <1>2, <2>1, <2>2 DEF ClaimedInputs, AnalyzeRequest, r
<1> QED
  BY <1>1, <1>8, <1>9, <1>b DEF RequestAgrees, r
-----------------------------------------------------------------------------
\* What a completion is, of which nothing is valid yet.
IsBody(c) ==
    /\ \E S : c.companions \in Seq(S)
    /\ c.formats \in [1 .. 3 -> Int]
    /\ c.size \in Int
    /\ \A k \in DOMAIN c.companions : c.companions[k].size \in Int

\* The contract and the control plane agree on every completion, whatever its
\* fields are and wherever the limits lie, up to the spellings of identifiers that
\* only the contract reads (ArtifactCommit, ValidWorkerRequest).
THEOREM CompletionsAlwaysAgree ==
    ASSUME NEW c, IsBody(c)
    PROVE  CompletionAgrees(c)
<1>1. /\ c.companions = <<>> => Len(c.companions) = 0 /\ DOMAIN c.companions = {}
      /\ Len(c.companions) = 1 => DOMAIN c.companions = {1}
      /\ \A k \in 1 .. 3 : c.formats[k] \in Int
      /\ \A k \in DOMAIN c.companions : c.companions[k].size \in Int
  BY DEF IsBody
<1>2. ASSUME ValidWorkerRequest(c, c.attempt), c.attempt \in 1 .. 3 PROVE CommitValid(c)
  <2>1. CASE c.kind = "validation_json"
    BY <1>1, <1>2, <2>1 DEF ValidWorkerRequest, CommitValid, ValidID, IsUuid
  <2>2. CASE c.kind # "validation_json"
    <3>1. \A k \in 1 .. 3 : c.formats[k] = 0
      BY <1>2, <2>2 DEF ValidWorkerRequest, IdentityEmpty
    <3>2. /\ c.kind \in DOMAIN CompanionOf \cup {"validation_json"}
          /\ c.size \in 0 .. MaxArtifact /\ c.media = "json" /\ c.schema = "result-envelope"
          /\ c.events \in 0 .. MaxEventCount /\ IsUuid(c.id) /\ IsUuid(c.companions[1].id)
          /\ Len(c.companions) = 1 /\ IdentityEmpty(c)
          /\ c.companions[1].kind = CompanionOf[c.kind] /\ c.companions[1].size \in 0 .. MaxArtifact
          /\ c.companions[1].media = MediaType[c.companions[1].kind] /\ c.companions[1].schema = "none"
      BY <1>2, <2>2 DEF ValidWorkerRequest, ValidID, IsUuid
    <3>3. \A k \in DOMAIN c.companions :
             /\ c.companions[k].schema = "none" /\ c.companions[k].size >= 0 /\ IsUuid(c.companions[k].id)
             /\ c.companions[k].media = MediaType[c.companions[k].kind]
      BY <1>1, <3>2, LimitsAssumption
    <3>4. Len(c.companions) <= 1 /\ \A k \in 1 .. 3 : c.formats[k] >= 0
      BY <3>1, <3>2
    <3> QED
      BY <1>2, <2>2, <3>2, <3>3, <3>4 DEF CommitValid
  <2> QED
    BY <2>1, <2>2
<1>3. ASSUME CommitValid(c), ValidID(c.id),
             \A k \in DOMAIN c.companions : c.companions[k].size <= MaxArtifact /\ ValidID(c.companions[k].id)
      PROVE  ValidWorkerRequest(c, c.attempt)
  <2>1. CASE c.kind = "validation_json"
    BY <1>1, <1>3, <2>1 DEF ValidWorkerRequest, CommitValid
  <2>2. CASE c.kind # "validation_json"
    BY <1>1, <1>3, <2>2, LimitsAssumption DEF ValidWorkerRequest, CommitValid
  <2> QED
    BY <2>1, <2>2
<1> QED
  BY <1>2, <1>3 DEF CompletionAgrees

-----------------------------------------------------------------------------
\* What a job reads, and what its rows say of an analysed run.
Inputs(rows) == [k \in DOMAIN rows |-> [run |-> rows[k].run, object |-> rows[k].object, bundle |-> rows[k].bundle]]
Facts(rows) == [k \in DOMAIN rows |-> <<rows[k].logical, rows[k].formats[1], rows[k].formats[2], rows[k].formats[3]>>]
\* Two attempts that are one piece of work.
SameWork(job, other) ==
    /\ job.id = other.id /\ job.attempt = other.attempt /\ job.op = other.op
    /\ Inputs(job.rows) = Inputs(other.rows)
    /\ job.op # "validate" => Facts(job.rows) = Facts(other.rows)
IsJob(job) == job.op \in DOMAIN ResultKind /\ job.rows = [k \in 1 .. Len(job.rows) |-> job.rows[k]]

\* An operation is known by the kind of its result.
LEMMA ResultKindsDiffer ==
    ASSUME NEW p \in DOMAIN ResultKind, NEW q \in DOMAIN ResultKind, ResultKind[p] = ResultKind[q]
    PROVE  p = q
BY DEF ResultKind

\* provenanceInputsMatch: what the control plane expects of input k.
Expected(job, c, k) ==
    LET logical == IF job.op = "validate" THEN c.logical ELSE job.rows[k].logical
        others == IF job.op = "validate" THEN c.formats ELSE job.rows[k].formats
    IN [run |-> job.rows[k].run, object |-> job.rows[k].object, bundle |-> job.rows[k].bundle,
        logical |-> logical, formats |-> <<job.rows[k].formats[1], others[2], others[3]>>]

\* What an accepted completion says of its job: its key, its operation and its
\* inputs are the job's own (CompleteAttempt, validateResultBindings).
LEMMA AcceptedFor ==
    ASSUME NEW job, IsJob(job), NEW store, NEW c, AcceptsCompletion(job, store, c)
    PROVE  /\ c.key = <<job.id, job.attempt, c.kind>>
           /\ c.digest[2].kind = job.op
           /\ Len(c.digest[2].inputs) = Len(job.rows)
           /\ \A k \in DOMAIN job.rows : c.digest[2].inputs[k] = Expected(job, c, k)
<1>1. c.key = <<job.id, job.attempt, c.kind>> /\ c.kind = ResultKind[job.op] /\ BindingsMatch(c.digest[2], c, job.rows)
  BY DEF AcceptsCompletion
<1>2. c.kind = ResultKind[c.digest[2].kind] /\ ProvenanceMatches(c.digest[2], c, job.rows)
  BY <1>1 DEF BindingsMatch
<1>3. c.digest[2].kind = job.op
  BY <1>1, <1>2, ResultKindsDiffer DEF IsJob, AcceptsCompletion, EnvelopeValid, SchemaValid
<1> QED
  BY <1>1, <1>2, <1>3, Zenon DEF ProvenanceMatches, Expected

\* A completion is accepted for one piece of work only: two attempts that accept
\* the same completion, whatever either has stored, are attempts of one job with
\* one number, and read the same inputs in the same order (complete,
\* validateResultBindings, CompleteAttempt).
THEOREM ResultsAreBoundToTheirWork ==
    ASSUME NEW job, IsJob(job), NEW other, IsJob(other), NEW store, NEW shelf, NEW c,
           AcceptsCompletion(job, store, c), AcceptsCompletion(other, shelf, c)
    PROVE  SameWork(job, other)
<1> DEFINE in == c.digest[2].inputs
<1>a. /\ c.key = <<job.id, job.attempt, c.kind>> /\ c.digest[2].kind = job.op /\ Len(in) = Len(job.rows)
      /\ \A k \in DOMAIN job.rows : in[k] = Expected(job, c, k)
  BY AcceptedFor
<1>b. /\ c.key = <<other.id, other.attempt, c.kind>> /\ c.digest[2].kind = other.op /\ Len(in) = Len(other.rows)
      /\ \A k \in DOMAIN other.rows : in[k] = Expected(other, c, k)
  BY AcceptedFor
<1>1. job.id = other.id /\ job.attempt = other.attempt
  <2>1. <<job.id, job.attempt, c.kind>> = <<other.id, other.attempt, c.kind>>
    BY <1>a, <1>b
  <2> QED
    BY <2>1
<1>2. job.op = other.op
  BY <1>a, <1>b
<1>3. Len(job.rows) = Len(other.rows)
  BY <1>a, <1>b
<1>4. DOMAIN job.rows = DOMAIN other.rows
  BY <1>3 DEF IsJob
<1>5. ASSUME NEW k \in DOMAIN job.rows
      PROVE  /\ job.rows[k].run = other.rows[k].run /\ job.rows[k].object = other.rows[k].object
             /\ job.rows[k].bundle = other.rows[k].bundle
             /\ job.op # "validate" => /\ job.rows[k].logical = other.rows[k].logical
                                       /\ \A n \in 1 .. 3 : job.rows[k].formats[n] = other.rows[k].formats[n]
  <2> DEFINE Says(j, logical, others) ==
                 [run |-> j.rows[k].run, object |-> j.rows[k].object, bundle |-> j.rows[k].bundle,
                  logical |-> logical, formats |-> <<j.rows[k].formats[1], others[2], others[3]>>]
  <2> DEFINE L(j) == IF job.op = "validate" THEN c.logical ELSE j.rows[k].logical
             O(j) == IF job.op = "validate" THEN c.formats ELSE j.rows[k].formats
  <2>1. in[k] = Says(job, L(job), O(job))
    BY <1>a, <1>5 DEF Expected
  <2>2. in[k] = Says(other, L(other), O(other))
    BY <1>b, <1>5, <1>4, <1>2 DEF Expected
  <2>3. Says(job, L(job), O(job)) = Says(other, L(other), O(other))
    BY <2>1, <2>2
  <2>4. /\ job.rows[k].run = other.rows[k].run /\ job.rows[k].object = other.rows[k].object
        /\ job.rows[k].bundle = other.rows[k].bundle /\ L(job) = L(other)
        /\ job.rows[k].formats[1] = other.rows[k].formats[1]
        /\ O(job)[2] = O(other)[2] /\ O(job)[3] = O(other)[3]
    <3> HIDE DEF L, O
    <3> QED
      BY <2>3
  <2> QED
    BY <2>4
<1>6. Inputs(job.rows) = Inputs(other.rows)
  BY <1>4, <1>5 DEF Inputs
<1>7. job.op # "validate" => Facts(job.rows) = Facts(other.rows)
  BY <1>4, <1>5 DEF Facts
<1> QED
  BY <1>1, <1>2, <1>6, <1>7 DEF SameWork

-----------------------------------------------------------------------------
\* A bundle that a worker found valid, and a row that declares it, its identifier
\* as PostgreSQL writes it: once the run is ready (CompleteAttempt of its
\* validation) it also has its identity.
IsBundle(b) ==
    /\ b.logical # "none" /\ b.digest # "none" /\ b.events \in 0 .. MaxEventCount
    /\ b.formats \in Seq(Nat \ {0}) /\ Len(b.formats) = 3
IsInput(job, row, b) ==
    /\ IsBundle(b) /\ row.formats[1] = b.formats[1] /\ row.run = Canonical(row.run)
    /\ job.op # "validate" => row.logical = b.logical /\ row.formats = b.formats
IsClaim(job, bundles) ==
    /\ job.op \in DOMAIN ResultKind /\ job.attempt \in 1 .. 3
    /\ job.rows = [k \in 1 .. Len(job.rows) |-> job.rows[k]] /\ Len(job.rows) = ClaimedInputs(job.op)
    /\ bundles = [k \in 1 .. Len(bundles) |-> bundles[k]] /\ Len(bundles) = Len(job.rows)
    /\ \A k \in DOMAIN job.rows : IsInput(job, job.rows[k], bundles[k])

\* What the worker uploads beside the result of an analysis (_upload).
LEMMA CompanionFields ==
    ASSUME NEW job, NEW bundles, NEW size
    PROVE  LET o == Companion(job, bundles, size)
           IN /\ o.kind = CompanionKind[job.op] /\ o.media = MediaType[CompanionKind[job.op]]
              /\ o.key = <<job.id, job.attempt, CompanionKind[job.op]>> /\ o.schema = "none" /\ o.size = size
              /\ ValidID(o.id) /\ Canonical(o.id) = o.id
BY DEF Companion, Uploaded, ValidID, Canonical, Spelled

\* The fields of the completion that _attempt sends.
LEMMA CompletionFields ==
    ASSUME NEW job, NEW bundles, NEW sizes, NEW c, c = Completion(job, bundles, sizes)
    PROVE  /\ c.kind = ResultKind[job.op] /\ c.media = "json" /\ c.size = sizes[1]
           /\ c.key = <<job.id, job.attempt, ResultKind[job.op]>>
           /\ c.digest = <<"succeeded", Semantic(job, bundles, sizes[2])>>
           /\ c.attempt = job.attempt /\ c.schema = "result-envelope" /\ ValidID(c.id)
           /\ job.op = "validate" => /\ c.logical = bundles[1].logical /\ c.bundle = bundles[1].digest
                                     /\ c.events = bundles[1].events /\ c.formats = bundles[1].formats
                                     /\ c.companions = <<>>
           /\ job.op # "validate" => IdentityEmpty(c) /\ c.companions = <<Companion(job, bundles, sizes[2])>>
BY DEF Completion, Uploaded, Envelope, IdentityEmpty, ValidID, Spelled

\* The fields of a result that the control plane compares (_validate, _diff,
\* _localize, _otlp, _pprof).
LEMMA SemanticFields ==
    ASSUME NEW job, job.op \in DOMAIN ResultKind, NEW bundles, NEW size, NEW result,
           result = Semantic(job, bundles, size)
    PROVE  /\ result.kind = job.op /\ result.inputs = Origins(job, bundles)
           /\ job.op = "validate" => /\ result.run = Canonical(job.rows[1].run)
                                     /\ result.bundle = bundles[Len(bundles)].digest
                                     /\ result.logical = bundles[Len(bundles)].logical
                                     /\ result.events = bundles[Len(bundles)].events
           /\ job.op # "validate" => result.artifact = Reference(Companion(job, bundles, size))
<1> DEFINE bad == bundles[Len(bundles)]
           origins == Origins(job, bundles)
           ref == Reference(Companion(job, bundles, size))
<1>1. job.op \in {"validate", "diff", "localize", "otlp", "pprof"}
  BY DEF ResultKind
<1> HIDE DEF origins, ref
<1>2. CASE job.op = "validate"
  BY <1>2 DEF Semantic, origins, ref
<1>3. CASE job.op = "diff"
  BY <1>3 DEF Semantic, origins, ref
<1>4. CASE job.op = "localize"
  BY <1>4 DEF Semantic, origins, ref
<1>5. CASE job.op = "otlp"
  BY <1>5 DEF Semantic, origins, ref
<1>6. CASE job.op = "pprof"
  BY <1>6 DEF Semantic, origins, ref
<1> QED
  BY <1>1, <1>2, <1>3, <1>4, <1>5, <1>6

\* The contract expects the companion that the worker uploads.
LEMMA CompanionOfResult ==
    ASSUME NEW op \in DOMAIN CompanionKind
    PROVE  /\ op \in DOMAIN ResultKind /\ op # "validate"
           /\ ResultKind[op] \in DOMAIN CompanionOf /\ CompanionOf[ResultKind[op]] = CompanionKind[op]
<1>1. DOMAIN CompanionKind \subseteq DOMAIN ResultKind /\ "validate" \notin DOMAIN CompanionKind
  BY DEF CompanionKind, ResultKind
<1>2. DOMAIN CompanionOf = {ResultKind[o] : o \in DOMAIN CompanionKind}
  BY DEF CompanionOf
<1> DEFINE o == CHOOSE o \in DOMAIN CompanionKind : ResultKind[o] = ResultKind[op]
<1>3. o \in DOMAIN CompanionKind /\ ResultKind[o] = ResultKind[op]
  OBVIOUS
<1>4. o = op
  BY <1>1, <1>3, ResultKindsDiffer
<1> QED
  BY <1>1, <1>2, <1>4 DEF CompanionOf

\* A claim has as many inputs as its operation needs.
LEMMA ShapeOfAClaim ==
    ASSUME NEW job, NEW bundles, IsClaim(job, bundles)
    PROVE  /\ job.op \in DOMAIN ResultKind /\ job.attempt \in 1 .. 3
           /\ Len(job.rows) = (IF job.op = "diff" THEN 2 ELSE 1) /\ Len(bundles) = Len(job.rows)
           /\ DOMAIN job.rows = 1 .. Len(job.rows) /\ 1 \in DOMAIN job.rows
           /\ job.op = "validate" => ResultKind[job.op] = "validation_json"
           /\ job.op # "validate" => job.op \in DOMAIN CompanionKind /\ ResultKind[job.op] # "validation_json"
<1>1. /\ job.op \in {"validate", "diff", "localize", "otlp", "pprof"} /\ job.attempt \in 1 .. 3
      /\ Len(job.rows) = ClaimedInputs(job.op) /\ Len(bundles) = Len(job.rows)
      /\ DOMAIN job.rows = 1 .. Len(job.rows)
  <2>1. job.rows = [k \in 1 .. Len(job.rows) |-> job.rows[k]]
    BY DEF IsClaim
  <2>2. DOMAIN job.rows = 1 .. Len(job.rows)
    BY <2>1
  <2> QED
    BY <2>2 DEF IsClaim, ResultKind
<1>2. ClaimedInputs(job.op) = IF job.op = "diff" THEN 2 ELSE 1
  BY <1>1 DEF ClaimedInputs, AnalysisOperations
<1>3. /\ job.op \in DOMAIN ResultKind
      /\ job.op = "validate" => ResultKind[job.op] = "validation_json"
      /\ job.op # "validate" => job.op \in DOMAIN CompanionKind /\ ResultKind[job.op] # "validation_json"
  BY <1>1 DEF ResultKind, CompanionKind
<1> QED
  BY <1>1, <1>2, <1>3

\* What the worker downloaded is what the row declares.
LEMMA InputsOfAClaim ==
    ASSUME NEW job, NEW bundles, NEW sizes, IsClaim(job, bundles), Completes(job, bundles, sizes),
           NEW k \in DOMAIN job.rows
    PROVE  /\ bundles[k].digest = job.rows[k].bundle /\ job.rows[k].formats[1] = bundles[k].formats[1]
           /\ Canonical(job.rows[k].run) = job.rows[k].run
           /\ job.op # "validate" => job.rows[k].logical = bundles[k].logical /\ job.rows[k].formats = bundles[k].formats
           /\ bundles[k].formats = <<bundles[k].formats[1], bundles[k].formats[2], bundles[k].formats[3]>>
           /\ \A n \in 1 .. 3 : bundles[k].formats[n] \in Nat \ {0}
           /\ bundles[k].logical # "none" /\ bundles[k].digest # "none" /\ bundles[k].events \in 0 .. MaxEventCount
<1>1. IsInput(job, job.rows[k], bundles[k]) /\ Downloads(job.rows[k], bundles[k])
  BY DEF IsClaim, Completes
<1>2. bundles[k].formats \in Seq(Nat \ {0}) /\ Len(bundles[k].formats) = 3
  BY <1>1 DEF IsInput, IsBundle
<1>3. bundles[k].formats = <<bundles[k].formats[1], bundles[k].formats[2], bundles[k].formats[3]>>
  BY <1>2
<1>4. \A n \in 1 .. 3 : bundles[k].formats[n] \in Nat \ {0}
  BY <1>2
<1> QED
  BY <1>1, <1>3, <1>4 DEF IsInput, IsBundle, Downloads

\* The provenance that the worker writes down is the one that the control plane
\* expects (_result_provenance, provenanceInputsMatch).
LEMMA ProvenanceOfTheInputs ==
    ASSUME NEW job, NEW bundles, NEW sizes, IsClaim(job, bundles), Completes(job, bundles, sizes)
    PROVE  ProvenanceMatches(Semantic(job, bundles, sizes[2]), Completion(job, bundles, sizes), job.rows)
<1> DEFINE result == Semantic(job, bundles, sizes[2])
           c == Completion(job, bundles, sizes)
<1> HIDE DEF result, c
<1>0. result = Semantic(job, bundles, sizes[2]) /\ c = Completion(job, bundles, sizes) /\ job.op \in DOMAIN ResultKind
  BY ShapeOfAClaim DEF result, c
<1>1. result.kind = job.op /\ result.inputs = Origins(job, bundles)
  BY <1>0, SemanticFields
<1>2. DOMAIN job.rows = 1 .. Len(job.rows) /\ (job.op = "validate" => Len(job.rows) = 1)
  BY ShapeOfAClaim
<1>3. Len(result.inputs) = Len(job.rows)
  <2>1. Len(job.rows) \in {1, 2}
    BY ShapeOfAClaim
  <2> QED
    BY <1>1, <1>2, <2>1 DEF Origins
<1>4. job.op = "validate" => c.logical = bundles[1].logical /\ c.formats = bundles[1].formats
  BY <1>0, CompletionFields
<1>5. ASSUME NEW k \in DOMAIN job.rows
      PROVE  LET logical == IF result.kind = "validate" THEN c.logical ELSE job.rows[k].logical
                 others == IF result.kind = "validate" THEN c.formats ELSE job.rows[k].formats
             IN result.inputs[k] =
                    [run |-> job.rows[k].run, object |-> job.rows[k].object, bundle |-> job.rows[k].bundle,
                     logical |-> logical, formats |-> <<job.rows[k].formats[1], others[2], others[3]>>]
  <2>1. /\ bundles[k].digest = job.rows[k].bundle /\ job.rows[k].formats[1] = bundles[k].formats[1]
        /\ job.op # "validate" => job.rows[k].logical = bundles[k].logical /\ job.rows[k].formats = bundles[k].formats
        /\ bundles[k].formats = <<bundles[k].formats[1], bundles[k].formats[2], bundles[k].formats[3]>>
        /\ Canonical(job.rows[k].run) = job.rows[k].run
    BY InputsOfAClaim
  <2>3. job.op = "validate" => k = 1
    <3>1. HAVE job.op = "validate"
    <3>2. DOMAIN job.rows = 1 .. 1
      BY <1>2, <3>1
    <3> QED
      BY <3>2
  <2>4. result.inputs[k] = [run |-> job.rows[k].run, object |-> job.rows[k].object, bundle |-> bundles[k].digest,
                            logical |-> bundles[k].logical, formats |-> bundles[k].formats]
    BY <1>1, <2>1 DEF Origins, Origin
  <2>5. CASE job.op = "validate"
    BY <1>1, <1>4, <2>1, <2>3, <2>4, <2>5
  <2>6. CASE job.op # "validate"
    BY <1>1, <2>1, <2>4, <2>6
  <2> QED
    BY <2>5, <2>6
<1> QED
  BY <1>3, <1>5, Zenon DEF ProvenanceMatches, result, c

\* The result is bound to the claim (validateResultBindings).
LEMMA HonestIsBound ==
    ASSUME NEW job, NEW bundles, NEW sizes, IsClaim(job, bundles), Completes(job, bundles, sizes)
    PROVE  BindingsMatch(Semantic(job, bundles, sizes[2]), Completion(job, bundles, sizes), job.rows)
<1> DEFINE result == Semantic(job, bundles, sizes[2])
           c == Completion(job, bundles, sizes)
<1>2. ProvenanceMatches(result, c, job.rows)
  BY ProvenanceOfTheInputs
<1> HIDE DEF result, c
<1>0. result = Semantic(job, bundles, sizes[2]) /\ c = Completion(job, bundles, sizes) /\ job.op \in DOMAIN ResultKind
  BY ShapeOfAClaim DEF result, c
<1>1. result.kind = job.op /\ c.kind = ResultKind[job.op]
  BY <1>0, SemanticFields, CompletionFields
<1>3. CASE job.op = "validate"
  <2>1. Len(job.rows) = 1 /\ Len(bundles) = 1 /\ 1 \in DOMAIN job.rows
    BY <1>3, ShapeOfAClaim
  <2>2. /\ bundles[1].digest = job.rows[1].bundle /\ job.rows[1].formats[1] = bundles[1].formats[1]
        /\ Canonical(job.rows[1].run) = job.rows[1].run
    BY <2>1, InputsOfAClaim
  <2>3. /\ result.run = job.rows[1].run /\ result.bundle = bundles[1].digest
        /\ result.logical = bundles[1].logical /\ result.events = bundles[1].events
    BY <1>0, <1>3, <2>1, <2>2, SemanticFields
  <2>4. /\ c.companions = <<>> /\ c.logical = bundles[1].logical /\ c.events = bundles[1].events
        /\ c.bundle = bundles[1].digest /\ c.formats = bundles[1].formats
    BY <1>0, <1>3, CompletionFields
  <2> QED
    BY <1>1, <1>2, <1>3, <2>1, <2>2, <2>3, <2>4 DEF BindingsMatch, ValidationMatches, result, c
<1>4. CASE job.op # "validate"
  <2>1. Len(job.rows) = IF job.op = "diff" THEN 2 ELSE 1
    BY ShapeOfAClaim
  <2>2. c.companions = <<Companion(job, bundles, sizes[2])>>
    BY <1>0, <1>4, CompletionFields
  <2>3. /\ Companion(job, bundles, sizes[2]).kind = CompanionKind[job.op]
        /\ Companion(job, bundles, sizes[2]).schema = "none"
        /\ Canonical(Companion(job, bundles, sizes[2]).id) = Companion(job, bundles, sizes[2]).id
    BY CompanionFields
  <2>4. result.artifact = Reference(Companion(job, bundles, sizes[2]))
    BY <1>0, <1>4, SemanticFields
  <2> QED
    BY <1>1, <1>2, <1>4, <2>1, <2>2, <2>3, <2>4 DEF BindingsMatch, Reference, result, c
<1> QED
  BY <1>3, <1>4

\* Whatever job a worker completes on valid inputs, the contract allows the
\* completion and the control plane accepts it: no honest result is lost to a
\* check (_attempt, ArtifactCommit, complete, CompleteAttempt).
THEOREM HonestResultsAreAccepted ==
    ASSUME NEW job, NEW bundles, NEW sizes \in Nat \X Nat,
           IsClaim(job, bundles)
    PROVE  HonestIsAccepted(job, bundles, sizes)
<1> SUFFICES ASSUME Completes(job, bundles, sizes)
             PROVE  /\ CommitValid(Completion(job, bundles, sizes))
                    /\ AcceptsCompletion(job, Objects(Completion(job, bundles, sizes)), Completion(job, bundles, sizes))
  BY DEF HonestIsAccepted
<1> DEFINE result == Semantic(job, bundles, sizes[2])
           c == Completion(job, bundles, sizes)
           x == Companion(job, bundles, sizes[2])
<1>0. c = Completion(job, bundles, sizes)
  OBVIOUS
<1> HIDE DEF c
<1>1. /\ c.kind = ResultKind[job.op] /\ c.media = "json" /\ c.size = sizes[1]
      /\ c.key = <<job.id, job.attempt, ResultKind[job.op]>>
      /\ c.digest = <<"succeeded", result>>
      /\ c.attempt = job.attempt /\ c.schema = "result-envelope" /\ ValidID(c.id)
  BY <1>0, CompletionFields
<1>2. job.op = "validate" => /\ c.logical = bundles[1].logical /\ c.bundle = bundles[1].digest
                             /\ c.events = bundles[1].events /\ c.formats = bundles[1].formats
                             /\ c.companions = <<>>
  BY <1>0, CompletionFields
<1>3. job.op # "validate" => IdentityEmpty(c) /\ c.companions = <<x>>
  BY <1>0, CompletionFields
<1>4. /\ x.kind = CompanionKind[job.op] /\ x.media = MediaType[CompanionKind[job.op]]
      /\ x.key = <<job.id, job.attempt, CompanionKind[job.op]>> /\ x.schema = "none" /\ x.size = sizes[2]
      /\ ValidID(x.id)
  BY CompanionFields
<1>5. EnvelopeValid(c.digest) /\ BindingsMatch(result, c, job.rows)
  BY <1>0, <1>1, HonestIsBound DEF EnvelopeValid, Completes, SemanticValid
<1>6. /\ job.attempt \in 1 .. 3 /\ sizes[1] \in 0 .. MaxArtifact
      /\ job.op # "validate" => sizes[2] \in 0 .. MaxArtifact
  BY LimitsAssumption, ShapeOfAClaim DEF Completes
<1>7. job.op # "validate" => job.op \in DOMAIN CompanionKind
  BY ShapeOfAClaim
<1>8. job.op = "validate" => ResultKind[job.op] = "validation_json" /\ 1 \in DOMAIN job.rows
  BY ShapeOfAClaim
<1>9. job.op # "validate" => ResultKind[job.op] # "validation_json"
  BY ShapeOfAClaim
<1> HIDE DEF result, c, x
<1>10. ValidWorkerRequest(c, job.attempt)
  <2>1. CASE job.op = "validate"
    <3>1. /\ bundles[1].logical # "none" /\ bundles[1].digest # "none" /\ bundles[1].events \in 0 .. MaxEventCount
          /\ \A k \in 1 .. 3 : bundles[1].formats[k] > 0
      BY <1>8, <2>1, InputsOfAClaim
    <3> QED
      BY <1>1, <1>2, <1>6, <1>8, <2>1, <3>1 DEF ValidWorkerRequest
  <2>2. CASE job.op # "validate"
    <3>1. c.kind \in DOMAIN CompanionOf /\ x.kind = CompanionOf[c.kind]
      BY <1>1, <1>4, <1>7, <2>2, CompanionOfResult
    <3>2. c.events \in 0 .. MaxEventCount
      BY <1>3, <2>2, LimitsAssumption DEF IdentityEmpty
    <3>3. Len(c.companions) = 1 /\ c.companions[1] = x
      BY <1>3, <2>2
    <3> QED
      BY <1>1, <1>3, <1>4, <1>6, <1>9, <2>2, <3>1, <3>2, <3>3 DEF ValidWorkerRequest
  <2> QED
    BY <2>1, <2>2
<1>11. CommitValid(c)
  <2>1. IsBody(c)
    <3>1. c.companions = <<>> \/ c.companions = <<x>>
      BY <1>2, <1>3
    <3>2. c.companions \in Seq({x})
      <4>1. CASE c.companions = <<>>
        BY <4>1
      <4>2. CASE c.companions = <<x>>
        BY <4>2
      <4> QED
        BY <3>1, <4>1, <4>2
    <3>3. \A k \in DOMAIN c.companions : c.companions[k].size \in Int
      BY <3>1, <1>4
    <3>4. c.formats \in [1 .. 3 -> Int]
      <4>1. CASE job.op = "validate"
        <5>1. /\ c.formats = <<bundles[1].formats[1], bundles[1].formats[2], bundles[1].formats[3]>>
              /\ \A n \in 1 .. 3 : bundles[1].formats[n] \in Nat \ {0}
          BY <1>2, <1>8, <4>1, InputsOfAClaim
        <5> QED
          BY <5>1
      <4>2. CASE job.op # "validate"
        BY <1>3, <4>2 DEF IdentityEmpty
      <4> QED
        BY <4>1, <4>2
    <3> QED
      BY <1>1, <3>2, <3>3, <3>4 DEF IsBody
  <2> QED
    BY <1>1, <1>6, <1>10, <2>1, CompletionsAlwaysAgree DEF CompletionAgrees
<1>12. /\ c.key[1] = job.id /\ c.key[2] = job.attempt
       /\ \A k \in DOMAIN c.companions : c.companions[k].key[1] = job.id /\ c.companions[k].key[2] = job.attempt
  BY <1>1, <1>2, <1>3, <1>4
<1>13. StoredAs(Objects(c), c) /\ \A k \in DOMAIN c.companions : StoredAs(Objects(c), c.companions[k])
  BY DEF StoredAs, Objects, Range
<1>14. IF job.op = "validate" THEN c.companions = <<>> /\ job.rows[1].bundle = c.bundle
       ELSE /\ Len(c.companions) = 1
            /\ c.companions[1].kind = CompanionKind[job.op]
            /\ c.companions[1].key = <<job.id, job.attempt, c.companions[1].kind>>
  <2>1. CASE job.op = "validate"
    BY <1>2, <1>8, <2>1, InputsOfAClaim
  <2>2. CASE job.op # "validate"
    BY <1>3, <1>4, <2>2
  <2> QED
    BY <2>1, <2>2
<1>15. c.digest[2] = result
  BY <1>1
<1>16. AcceptsCompletion(job, Objects(c), c)
  BY <1>1, <1>5, <1>10, <1>12, <1>13, <1>14, <1>15, Zenon DEF AcceptsCompletion
<1> QED
  BY <1>0, <1>11, <1>16
=============================================================================
