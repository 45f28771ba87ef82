\* One validation through its three attempts, hosted queue, two different delays.
CONSTANTS
    Runs = {r1}
    Jobs = {j1}
    AnalysisOps = {}
    MaxAttempts = 3
    LeaseTicks = 2
    FirstBackoff = 1
    SecondBackoff = 2
    NotifyTicks = 1
    UseQueue = TRUE
    MaxSequence = 2
    RepublishBound = 2
SPECIFICATION FairSpec
INVARIANTS
    TypeOK
    OneLiveAttempt
    OneResult
PROPERTIES
    ProgressAdvances
    ImplementsContract
    JobsSettle
