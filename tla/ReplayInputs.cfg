SPECIFICATION Spec
CONSTANTS
    b1 = b1
    b2 = b2
    b3 = b3
    c1 = c1
    c2 = c2
    hidden = hidden
    home = home
    t1 = t1
    t2 = t2
    None = None
    Ops <- InputOps
    ToolOps <- InputToolOps
    Raises = {}
    ToolIds = {t1, t2}
    Variables = {"var"}
    Paths = {"f"}
    Contents = {c1, c2}
    MatchConfigs <- MoreProving
    SystemBlocks = {b2}
    Redacted <- MCRedacted
    Restored <- MCRestored
    Dropped <- MCDropped
    Drops = {}
    Chunks = 1
    MaxRuns = 1
    MaxSessions = 2
    MaxOps = 3
SYMMETRY MCSymmetry
CHECK_DEADLOCK FALSE
INVARIANTS
    ReplayIsFaithful
PROPERTIES
    SessionsKeepOut
