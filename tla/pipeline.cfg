SPECIFICATION Spec
CONSTANTS
    AutoPublishMax = 25
    AutoRejectMin = 85
    TrustedReputation = 500
    x1 = x1
    a1 = a1
    Moderators = {m1, m2}
    MaxAttempts = 3
    MaxStalls = 1
    Content <- MCContent
    Authors <- MCAuthors
    AuthorOf <- MCAuthorOf
    Results <- MCResults
    InitialReputations <- MCReputations
INVARIANTS
    TypeOK
    StatusIsRuled
    EffectsFollowStatus
    CompletedIsDecided
    DeadLetterIsFinal
PROPERTIES
    ReviewedOnce
    ReversalNeedsCause
    RewardedOnce
    ContractHolds
    QueuedIsDecided
CHECK_DEADLOCK FALSE
