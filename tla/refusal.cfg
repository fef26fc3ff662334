SPECIFICATION Safety
CONSTANTS
    AutoPublishMax = 25
    AutoRejectMin = 85
    TrustedReputation = 500
    x1 = x1
    a1 = a1
    Moderators = {m1}
    MaxAttempts = 2
    MaxStalls = 1
    Content <- MCContent
    Authors <- MCAuthors
    AuthorOf <- MCAuthorOf
    Results <- MCResults
    InitialReputations <- MCReputations
INVARIANT
    RefusalIsHeld
CHECK_DEADLOCK FALSE
