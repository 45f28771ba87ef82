\* Two uploads, their validations and a diff of the two runs; workers poll the outbox.
CONSTANTS
    Runs = {r1, r2}
    Jobs = {j1, j2, j3}
    AnalysisOps = {"diff"}
    MaxAttempts = 2
    LeaseTicks = 1
    FirstBackoff = 1
    SecondBackoff = 1
    NotifyTicks = 1
    UseQueue = FALSE
    MaxSequence = 0
    RepublishBound = 3
SPECIFICATION Spec
SYMMETRY Symmetry
INVARIANTS
    QueuedIsClaimable
    ErasedLeavesNothing
    RowsAgree
PROPERTIES
    TerminalIsFinal
    RefusalIsFinal
