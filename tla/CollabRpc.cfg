CONSTANTS
    Calls <- MCCalls
    Slow <- MCSlow
    Scopes <- MCScopes
    Keyed <- MCKeyed
    ScopesOf <- MCScopesOf
    TriesOf <- MCTries
    MaxFaults = 2
    MaxGuardRetries = 2
    ShowsOutage = FALSE
SPECIFICATION FairSpec
CHECK_DEADLOCK FALSE
INVARIANTS
    TypeOK
    KeyedOnce
    DelegatedIsDone
PROPERTY TurnIsOver
