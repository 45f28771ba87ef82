\* A claim commits between the statements of a deletion.
CONSTANTS
    Txns = {"delete", "claim", "retain"}
    Kind <- KindByName
    Connections = 3
SPECIFICATION Spec
INVARIANTS
    DeletionFencesAttempts
