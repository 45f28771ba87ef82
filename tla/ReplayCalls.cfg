SPECIFICATION Spec
CONSTANTS
    b1 = b1
    b2 = b2
    b3 = b3
    c1 = c1
    c2 = c2
    hidden = hidden
    home = home
    t1 = t1
    t2 = t2
    None = None
    Ops <- CallOps
    ToolOps = {}
    Raises = {TRUE}
    ToolIds = {t1}
    Variables = {}
    Paths = {}
    Contents = {}
    MatchConfigs <- ProvingOnly
    SystemBlocks = {b2}
    Redacted <- MCRedacted
    Restored <- MCRestored
    Dropped = {}
    Drops <- MCDrops
    Chunks = 1
    MaxRuns = 1
    MaxSessions = 2
    MaxOps = 3
CHECK_DEADLOCK FALSE
INVARIANTS
    CallsAreAccounted
    ReplayIsFaithful
PROPERTIES
    SessionsKeepOut
