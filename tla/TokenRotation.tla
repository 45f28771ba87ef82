---------------------------- MODULE TokenRotation ----------------------------
(***************************************************************************)
(* The verifier of one token while the pepper is rotated: replicas of the  *)
(* control plane with key rings of neighbouring versions authenticate,     *)
(* and register the token anew, over one row (controlplane/auth.go,        *)
(* service.go).                                                            *)
(*                                                                         *)
(* hmacDigest is injective: a verifier is the pair <<pepper, secret>>.     *)
(***************************************************************************)
EXTENDS Naturals, FiniteSets

CONSTANTS
    Replicas,     \* replicas of the control plane
    Logins,       \* requests
    Issued,       \* secrets the operator may register under the prefix
    MaxPepper     \* last pepper version

\* A control plane runs, and the operator has a secret to register.
ASSUME RotationAssumption == Replicas # {} /\ Issued # {}

VARIABLES
    ring,      \* replica -> its current pepper version; the one before is its previous
    token,     \* the row: [verifier, version]
    valid,     \* the secret registered last
    login      \* [Logins -> [pc, replica, secret, verifier, version]]

tokenVars == <<ring, token, valid, login>>

Nobody == [pc |-> "off", replica |-> "none", secret |-> "none", verifier |-> <<0, "none">>, version |-> 0]

TokenInit ==
    /\ ring = [r \in Replicas |-> 1]
    /\ valid = CHOOSE secret \in Issued : TRUE
    /\ token = [verifier |-> <<1, valid>>, version |-> 1]
    /\ login = [q \in Logins |-> Nobody]

\* KeyRing.Verify
Verify(r, version, secret, verifier) ==
    /\ version = ring[r] \/ (version = ring[r] - 1 /\ version > 0)
    /\ verifier = <<version, secret>>

\* The operator restarts a replica with the next pepper: only when every
\* replica has the one before and the token has been migrated.
Rotate(r) ==
    /\ ring[r] < MaxPepper
    /\ \A s \in Replicas : ring[s] >= ring[r]
    /\ token.version >= ring[r]
    /\ \A q \in Logins : login[q].replica # r
    /\ ring' = [ring EXCEPT ![r] = @ + 1]
    /\ UNCHANGED <<token, valid, login>>

\* authenticateToken reads the row and verifies the token it was given.
ReadToken(q, r, secret) ==
    /\ login[q].pc = "off"
    /\ Verify(r, token.version, secret, token.verifier)
    /\ login' = [login EXCEPT ![q] = [pc |-> "use", replica |-> r, secret |-> secret,
                                      verifier |-> token.verifier, version |-> token.version]]
    /\ UNCHANGED <<ring, token, valid>>

\* Fault: the update does not compare the verifier it has read.
UnchangedSinceIgnored(q) == TRUE

UnchangedSince(q) == token.verifier = login[q].verifier /\ token.version = login[q].version

\* A verifier of another version is replaced by one of the current version.
Migrated(q) ==
    LET current == ring[login[q].replica]
    IN [verifier |-> IF token.version # current THEN <<current, login[q].secret>> ELSE token.verifier,
        version |-> current]

\* authenticateToken and AuthenticateWorker: the use is recorded, or refused if
\* the row has changed.
UseToken(q) ==
    /\ login[q].pc = "use"
    /\ token' = IF UnchangedSince(q) THEN Migrated(q) ELSE token
    /\ login' = [login EXCEPT ![q] = Nobody]
    /\ UNCHANGED <<ring, valid>>

\* EnsureWorkspaceToken and EnsureWorkerCredential, at the start of a replica.
EnsureToken(r, secret) ==
    /\ token' = [verifier |-> <<ring[r], secret>>, version |-> ring[r]]
    /\ valid' = secret
    /\ UNCHANGED <<ring, login>>

TokenNext ==
    \/ \E r \in Replicas : Rotate(r)
    \/ \E r \in Replicas, secret \in Issued : EnsureToken(r, secret)
    \/ \E q \in Logins, r \in Replicas, secret \in Issued : ReadToken(q, r, secret)
    \/ \E q \in Logins : UseToken(q)
TokenSpec == TokenInit /\ [][TokenNext]_tokenVars

-----------------------------------------------------------------------------
\* A secret that was replaced never becomes valid again, although requests that
\* verified it migrate the row to a new pepper afterwards.
ReplacedSecretsStayReplaced == token.verifier[2] = valid

\* No rotation locks the holder of the token out: a replica with the newest
\* ring accepts the registered secret, whichever replica wrote the row last.
NewestRingAccepts ==
    \A r \in Replicas :
        (\A s \in Replicas : ring[s] <= ring[r]) => Verify(r, token.version, valid, token.verifier)

\* A rotation neither revives a replaced secret nor locks out the registered one.
RotationKeepsTheSecret == ReplacedSecretsStayReplaced /\ NewestRingAccepts
=============================================================================
