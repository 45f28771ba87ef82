\* A run is deleted while its validation, or an analysis of it, is created and executed.
CONSTANTS
    Txns = {"delete", "create", "claim", "complete", "fail", "retry", "cancel", "reconcile", "retain", "expire"}
    Kind <- KindByName
    Connections = 3
SPECIFICATION Spec
INVARIANTS
    CommittedIsSerial
