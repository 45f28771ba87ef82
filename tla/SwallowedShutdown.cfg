\* SIGTERM arrives while a thread of the attempt interrupts the main thread.
CONSTANTS
    None = None
    MaxAttempts = 2
    Requested = {"validate"}
SPECIFICATION FairSpec
CHECK_DEADLOCK FALSE
PROPERTIES
    ShutdownStopsClaims
