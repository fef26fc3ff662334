SPECIFICATION ModerationSpec
CONSTANTS
    AutoPublishMax = 25
    AutoRejectMin = 85
    TrustedReputation = 500
    x1 = x1
    a1 = a1
    Moderators = {m1}
    r1 = r1
    r2 = r2
    Resolvers <- MCResolvers
    Tabs = {t1}
    MaxAppeals = 1
    MaxOverturns = 1
    MaxAttempts = 2
    MaxStalls = 0
    Content <- MCContent
    Authors <- MCAuthors
    AuthorOf <- MCAuthorOf
    KindOf <- MCKindOf
    Results <- MCResults
    InitialReputations <- MCReputations
SYMMETRY
    Interchangeable
PROPERTIES
    ContractWithAppeals
    PaidOnce
CHECK_DEADLOCK FALSE
