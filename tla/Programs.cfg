\* The algorithms on bounded inputs, and the small programs of the benchmark and the control plane.
CONSTANTS
    None = None
    LineFalloff = 50
    ScratchFallback = 2
    LongTrace = 2
    MaxEvidenceSteps = 160
    Ends = 20
    Around = 50
    ArgumentLimit = 2
    ReasonLimit = 3
    StepBudget = 4
    ContextBudget = 5
    MessageLimit = 3
    ErrorLimit = 2
    SummaryLimit = 2
    MaxResponseBytes = 3
    MaxTimeout = 2
    FormatVersion = 1
    SchemaVersion = 1
    MaxBundleEvents = 8
    MaxBlobSize = 2
    MaxEventBytes = 9
    MaxEntries = 4
    MaxBundleBytes = 19
    Placeholder <- MCPlaceholder
    HomePlaceholder <- MCHomePlaceholder
    MinSecret = 2
    Actions <- MCActions
    MaxSteps = 4
    KeepObservations = 2
    MaxStalls = 2
    Processes = {p1, p2, p3}
    Shards = 2
    Planned <- MCPlanned
    Samples <- MCSamples
    Pairs = {1, 2, 3}
    Tolerance = 2
    Versions = {v1, v2}
    Callers = {q1, q2}
    Grace = 2
    Slack = 1
    MaxTime = 4
    Clients = {"x1", "x2", "x3"}
    Requested = {"d1", "d2"}
    Lifetime = 3
    TransactionTicks = 1
    MaxHours = 5
    Replicas = {"a1", "a2"}
    Logins = {"l1", "l2"}
    Issued = {"s1", "s2"}
    MaxPepper = 3
    MaxArtifact = 2
    MaxEventCount = 2
SPECIFICATION Spec
SYMMETRY Symmetry
CHECK_DEADLOCK FALSE
INVARIANTS
    AlignmentIsSound
    LocalizationIsSound
    AdviceIsSound
    ArtifactsAreGenuine
    SecretsStayOut
    InterceptionIsExact
    CommandKeepsVerdicts
    ExportsAddUp
    ContractsAgree
    RegisteredObjectsExist
    KeysAreExact
    RotationKeepsTheSecret
    AgentAccounts
    BatchIsExact
    LabelsSurvive
    EvaluationIsExact
