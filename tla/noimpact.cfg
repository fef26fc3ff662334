SPECIFICATION Spec
CONSTANTS
    AutoPublishMax = 25
    AutoRejectMin = 85
    TrustedReputation = 500
    x1 = x1
    t1 = t1
    t2 = t2
    m1 = m1
    m2 = m2
    MaxAppeals = 1
    MaxOverturns = 1
    Content <- MCContent
    KindOf <- MCKindOf
    Tabs = {t1}
    Moderators <- MCModerators
INVARIANT
    RejectedHasNoImpact
CHECK_DEADLOCK FALSE
