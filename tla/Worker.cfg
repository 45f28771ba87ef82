\* Two attempts of a validation, or of an operation this worker does not know.
CONSTANTS
    None = None
    MaxAttempts = 2
    Requested = {"validate", "unsupported"}
SPECIFICATION FairSpec
CHECK_DEADLOCK FALSE
PROPERTIES
    SettledIsDurable
    FencedWorkerLetsGo
