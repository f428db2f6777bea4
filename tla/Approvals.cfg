CONSTANTS
    c1 = c1
    c2 = c2
    c3 = c3
    t1 = t1
    Calls <- MCCalls
    Actions <- MCActions
    Tasks <- MCTasks
    Families <- MCFamilies
    ActionOf <- MCActionOf
    TaskOf <- MCTaskOf
    FamilyOf <- MCFamilyOf
    Threshold = 2
    MaxAttempts <- MCMaxAttempts
    MaxRestarts = 1
    ClicksDuringPublish = FALSE
SPECIFICATION Spec
INVARIANTS
    TypeOK
    RunsOnlyApproved
    ParkedHasCard
    SessionGrantsStored
PROPERTIES
    PromptEnds
CHECK_DEADLOCK FALSE
