--------------------------- MODULE IdempotencyKeys ---------------------------
(***************************************************************************)
(* Creating a job under an idempotency key: controlplane/lifecycle.go      *)
(* CreateJob.  Transactions of several requests under one key interleave;  *)
(* the record of a key lives for a day and is swept some time later.       *)
(***************************************************************************)
EXTENDS Naturals, FiniteSets

CONSTANTS
    Clients,   \* requests, each sent once
    Requested,  \* normalized requests
    Lifetime,  \* of an idempotency record, in ticks
    TransactionTicks, \* longest transaction, in ticks
    MaxHours   \* the clock stops here

\* No transaction is nearly as long as a record lives.
ASSUME LifetimeAssumption == TransactionTicks \in Nat /\ Lifetime \in Nat /\ 2 * TransactionTicks < Lifetime
\* The other answers are no jobs.
ASSUME ClientsAssumption == {"none", "conflict", "error"} \cap Clients = {}

VARIABLES
    hour,      \* the clock
    record,    \* the row of the key: [digest, job, expires] or NoRecord
    made,      \* committed jobs: [job, digest, at]
    client,    \* [Clients -> [pc, digest, began, answer]]
    holder     \* the transaction whose insert of the record is not decided

keyVars == <<hour, record, made, client, holder>>

NoRecord == [digest |-> "none", job |-> "none", expires |-> 0]

KeyInit ==
    /\ hour = 0 /\ record = NoRecord /\ made = {} /\ holder = "none"
    /\ client = [c \in Clients |-> [pc |-> "new", digest |-> "none", began |-> 0, answer |-> "none"]]

\* Time passes; a transaction ends before it is too long.
PassHour ==
    /\ hour < MaxHours
    /\ \A c \in Clients :
           client[c].pc \in {"look", "insert", "commit"} => hour - client[c].began < TransactionTicks
    /\ hour' = hour + 1
    /\ UNCHANGED <<record, made, client, holder>>

\* The transaction begins; its timestamp is the time of all its statements.
BeginCreate(c, digest) ==
    /\ client[c].pc = "new"
    /\ client' = [client EXCEPT ![c] = [pc |-> "look", digest |-> digest, began |-> hour, answer |-> "none"]]
    /\ UNCHANGED <<hour, record, made, holder>>

\* The lookup sees a record that has not expired.
Alive(c) == record # NoRecord /\ record.expires > client[c].began

\* The record is read: the answer is its job, a conflict, or the job is made.
ReadRecord(c) ==
    /\ client[c].pc = "look"
    /\ client' =
          [client EXCEPT ![c] =
              IF ~Alive(c) THEN [@ EXCEPT !.pc = "insert"]
              ELSE [@ EXCEPT !.pc = "done",
                             !.answer = IF record.digest = client[c].digest THEN record.job ELSE "conflict"]]
    /\ UNCHANGED <<hour, record, made, holder>>

\* Fault: a second record for the key is no error.
CollidesNever(c) == FALSE

\* The primary key: the insert fails if the key is there, expired or not.
Collides(c) == record # NoRecord

\* Job, outbox row and audit record are inserted, then the record of the key.
\* An insert waits for a transaction that has inserted the same key.
InsertRecord(c) ==
    /\ client[c].pc = "insert" /\ holder = "none"
    /\ IF Collides(c)
       THEN /\ client' = [client EXCEPT ![c].pc = "done", ![c].answer = "error"]
            /\ UNCHANGED holder
       ELSE /\ client' = [client EXCEPT ![c].pc = "commit"]
            /\ holder' = c
    /\ UNCHANGED <<hour, record, made>>

CommitCreate(c) ==
    /\ client[c].pc = "commit"
    /\ record' = [digest |-> client[c].digest, job |-> c, expires |-> client[c].began + Lifetime]
    /\ made' = made \cup {[job |-> c, digest |-> client[c].digest, at |-> client[c].began]}
    /\ client' = [client EXCEPT ![c].pc = "done", ![c].answer = c]
    /\ holder' = "none"
    /\ UNCHANGED hour

\* A run is not ready, or the connection is lost: nothing is made.
RollBack(c) ==
    /\ client[c].pc \in {"look", "insert", "commit"}
    /\ client' = [client EXCEPT ![c].pc = "done", ![c].answer = "error"]
    /\ holder' = IF holder = c THEN "none" ELSE holder
    /\ UNCHANGED <<hour, record, made>>

\* EnforceRetention removes the record once it has expired.
SweepRecord ==
    /\ record # NoRecord /\ record.expires <= hour
    /\ record' = NoRecord
    /\ UNCHANGED <<hour, made, client, holder>>

KeyNext ==
    \/ PassHour \/ SweepRecord
    \/ \E c \in Clients, digest \in Requested : BeginCreate(c, digest)
    \/ \E c \in Clients : ReadRecord(c) \/ InsertRecord(c) \/ CommitCreate(c) \/ RollBack(c)
KeySpec == KeyInit /\ [][KeyNext]_keyVars

-----------------------------------------------------------------------------
\* "Identical reuse returns the original logical response. Different reuse
\* returns an idempotency conflict and creates nothing": a key makes one job in
\* the lifetime of its record however its requests interleave, and whoever was
\* answered with a job asked for what that job was made for.  A transaction that
\* began before the record expired may insert after the sweep, so two jobs are a
\* lifetime apart less the length of a transaction.
KeyNamesOneJob ==
    /\ \A a, b \in made :
           a # b => a.at + Lifetime <= b.at + TransactionTicks \/ b.at + Lifetime <= a.at + TransactionTicks
    /\ \A c \in Clients :
           client[c].answer \in Clients =>
               \E a \in made : a.job = client[c].answer /\ a.digest = client[c].digest

\* A key is free again after its lifetime: an answer from a record is given only
\* while that record lives.
AnswersAreFresh ==
    \A c \in Clients :
        client[c].answer \in Clients \ {c} =>
            \E a \in made : a.job = client[c].answer /\ client[c].began < a.at + Lifetime

\* A key stands for one job while its record lives, and for none afterwards.
KeysAreExact == KeyNamesOneJob /\ AnswersAreFresh
=============================================================================
