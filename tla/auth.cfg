SPECIFICATION Spec
CONSTANTS
    r1 = r1
    r2 = r2
    Requests <- MCRequests
    MaxSessions = 3
    MaxTokens = 2
    MaxResets = 2
SYMMETRY
    Interchangeable
INVARIANTS
    TypeOK
    SessionsAreEarned
    ResetEndsSessions
    PasswordIsLatest
PROPERTIES
    AccessContractHolds
CHECK_DEADLOCK FALSE
