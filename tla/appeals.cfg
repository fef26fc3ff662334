SPECIFICATION Spec
CONSTANTS
    AutoPublishMax = 25
    AutoRejectMin = 85
    TrustedReputation = 500
    x1 = x1
    t1 = t1
    t2 = t2
    m1 = m1
    m2 = m2
    MaxAppeals = 2
    MaxOverturns = 1
    Content <- MCContent
    KindOf <- MCKindOf
    Tabs <- MCTabs
    Moderators <- MCModerators
SYMMETRY
    Interchangeable
INVARIANTS
    TypeOK
    UpheldIsPublished
    CreditsBounded
    DuplicatesBounded
CHECK_DEADLOCK FALSE
