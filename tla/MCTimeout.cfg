SPECIFICATION FairSpec
CONSTANTS
    Objects <- MCObjects
    MaxRetry = 2
INVARIANTS
    TypeOK
    BackoffSchedule
    
PROPERTIES
    GivesUpLate
    ImplementsRemoteCall
    CallReturns
