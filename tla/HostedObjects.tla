---------------------------- MODULE HostedObjects ----------------------------
(***************************************************************************)
(* Stored objects and the rows that register them: a client uploads a      *)
(* bundle, or a worker a result, the API verifies the object and registers *)
(* it in separate steps (httpapi completeUpload, workerapi complete), and  *)
(* the control plane removes objects that a snapshot of the rows does not  *)
(* retain and that are old enough (main.go, Cleanup).                      *)
(*                                                                         *)
(* One owner, a pending run or a live attempt, with the versions that were *)
(* uploaded for it.  In the file store a version is the digest and may be  *)
(* uploaded again; in S3 every upload is a new version.                    *)
(***************************************************************************)
EXTENDS Integers, FiniteSets

CONSTANTS
    Versions,  \* versions of the object
    Callers,   \* requests that complete the upload or the attempt
    Grace,     \* 24 hours, in ticks
    Slack,     \* longest time between the snapshot and the cutoff, in ticks
    MaxTime    \* the clock stops here

ASSUME GraceAssumption == Grace \in Nat /\ Slack \in Nat

VARIABLES
    now,       \* the clock
    objects,    \* stored version -> modification time
    born,      \* version -> time of its first upload, -1 before
    owner,     \* [state, version, at]: open, registered or closed
    caller,    \* [Callers -> [pc, version]]
    sweep      \* [pc, keep, since, before, doomed]

objectVars == <<now, objects, born, owner, caller, sweep>>

Resting == [pc |-> "off", keep |-> {}, since |-> 0, before |-> 0, doomed |-> {}]
Ready == [pc |-> "off", version |-> 0]

ObjectInit ==
    /\ now = 0 /\ objects = [v \in {} |-> 0] /\ born = [v \in Versions |-> -1]
    /\ owner = [state |-> "open", version |-> 0, at |-> 0]
    /\ caller = [c \in Callers |-> Ready] /\ sweep = Resting

\* Time passes; the cutoff is taken soon after the snapshot.
TickObjects ==
    /\ now < MaxTime
    /\ sweep.pc = "cutoff" => now - sweep.since < Slack
    /\ now' = now + 1
    /\ UNCHANGED <<objects, born, owner, caller, sweep>>

\* Put and the signed upload: the file is complete when it appears.  A grant
\* may be used, also again, whatever has become of its owner.
PutObject(v) ==
    /\ objects' = [w \in DOMAIN objects \cup {v} |-> IF w = v THEN now ELSE objects[w]]
    /\ born' = [born EXCEPT ![v] = IF @ = -1 THEN now ELSE @]
    /\ UNCHANGED <<now, owner, caller, sweep>>

\* UploadFor or AuthorizeAttempt: the owner takes no object unless it is open.
AuthorizeCaller(c, v) ==
    /\ caller[c].pc = "off" /\ owner.state = "open"
    /\ caller' = [caller EXCEPT ![c] = [pc |-> "commit", version |-> v]]
    /\ UNCHANGED <<now, objects, born, owner, sweep>>

\* Commit: the stored bytes are what was declared, or the request is refused.
CommitObject(c) ==
    /\ caller[c].pc = "commit"
    /\ caller' = [caller EXCEPT ![c] = IF caller[c].version \in DOMAIN objects
                                       THEN [@ EXCEPT !.pc = "register"] ELSE Ready]
    /\ UNCHANGED <<now, objects, born, owner, sweep>>

\* CompleteUpload or CompleteAttempt: the owner is checked again by the
\* transaction that registers the object.
RegisterObject(c) ==
    /\ caller[c].pc = "register"
    /\ owner' = IF owner.state = "open"
                THEN [state |-> "registered", version |-> caller[c].version, at |-> now] ELSE owner
    /\ caller' = [caller EXCEPT ![c] = Ready]
    /\ UNCHANGED <<now, objects, born, sweep>>

\* The run is deleted or expires, or the attempt is fenced before it registered.
CloseOwner ==
    /\ owner.state # "closed"
    /\ owner' = [owner EXCEPT !.state = "closed"]
    /\ UNCHANGED <<now, objects, born, caller, sweep>>

\* Fault: nothing is retained for its row.
RetainedObjectsNone == {}

\* RetainedObjects: one statement, the versions of registered rows.
RetainedObjects == IF owner.state = "registered" THEN {owner.version} ELSE {}

BeginSweep ==
    /\ sweep.pc = "off"
    /\ sweep' = [Resting EXCEPT !.pc = "cutoff", !.keep = RetainedObjects, !.since = now]
    /\ UNCHANGED <<now, objects, born, owner, caller>>

\* The cutoff is computed after the snapshot.
TakeCutoff ==
    /\ sweep.pc = "cutoff"
    /\ sweep' = [sweep EXCEPT !.pc = "list", !.since = 0, !.before = now - Grace]
    /\ UNCHANGED <<now, objects, born, owner, caller>>

\* Cleanup examines a version, and removes what it found old and unretained.
ListObject(v) ==
    /\ sweep.pc = "list" /\ v \in DOMAIN objects /\ v \notin sweep.keep
    /\ objects[v] <= sweep.before
    /\ sweep' = [sweep EXCEPT !.doomed = @ \cup {v}]
    /\ UNCHANGED <<now, objects, born, owner, caller>>
RemoveObject(v) ==
    /\ sweep.pc = "list" /\ v \in sweep.doomed
    /\ objects' = [w \in DOMAIN objects \ {v} |-> objects[w]]
    /\ sweep' = [sweep EXCEPT !.doomed = @ \ {v}]
    /\ UNCHANGED <<now, born, owner, caller>>
EndSweep ==
    /\ sweep.pc = "list" /\ sweep.doomed = {}
    /\ sweep' = Resting
    /\ UNCHANGED <<now, objects, born, owner, caller>>

ObjectNext ==
    \/ TickObjects \/ CloseOwner \/ BeginSweep \/ TakeCutoff \/ EndSweep
    \/ \E v \in Versions : PutObject(v) \/ ListObject(v) \/ RemoveObject(v)
    \/ \E c \in Callers : CommitObject(c) \/ RegisterObject(c)
    \/ \E c \in Callers, v \in Versions : AuthorizeCaller(c, v)
ObjectSpec == ObjectInit /\ [][ObjectNext]_objectVars

-----------------------------------------------------------------------------
\* An object that was registered in time is there as long as its row retains
\* it, at any interleaving of uploads, repeated completions and cleanup: in
\* time means that its first upload was then younger than the grace period less
\* the time a pass takes from its snapshot to its cutoff.  Nothing protects an
\* object that is registered later.
RegisteredObjectsExist ==
    owner.state = "registered" /\ owner.at - born[owner.version] < Grace - Slack
        => owner.version \in DOMAIN objects
=============================================================================
