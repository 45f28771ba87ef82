\* Every lock wait of a deletion, a claim, a completion, a failure, a cancellation and retention ends.
CONSTANTS
    Txns = {"delete", "claim", "complete", "fail", "cancel", "retain"}
    Kind <- KindByName
    Connections = 3
SPECIFICATION FairSpec
PROPERTIES
    TransactionsSettle
    DeletionFencesEventually
