CONSTANTS
    Kinds <- MCKinds
    MaxCalls = 3
    MaxIterations = 2
    MaxParallel = 2
    MaxOverflows = 1
    MaxFeedback = 1
    BaseMode = "workspace-write"
SPECIFICATION Spec
INVARIANTS
    TypeOK
    ExclusiveAlone
    ConflictsInOrder
    SandboxScoped
    ConvergedHasCause
PROPERTIES
    FailureClosesBatch
    TurnReturns
