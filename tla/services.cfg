SPECIFICATION ServicesSpec
CONSTANTS
    \* McpServer
    p1 = p1
    p2 = p2
    p3 = p3
    c1 = c1
    Plugins <- MCPlugins
    Paths <- MCPaths
    HooksOf <- MCHooksOf
    Calls <- MCCalls
    \* RateLimit
    Attempts = {1, 2}
    Window = 3
    MaxHits = 2
    \* TranslationCache
    toggle1 = toggle1
    toggle2 = toggle2
    toggle3 = toggle3
    comment = comment
    postBody = postBody
    Toggles <- MCToggles
    Items <- MCItems
    Comments <- MCComments
    TextOf <- MCTextOf
    \* CommunityAgent
    u1 = u1
    u2 = u2
    Jobs = {1}
    Users <- MCUsers
    MaxAttempts = 2
    MaxStalls = 1
    MaxChanges = 1
    \* Notifications
    Notes = {1, 2, 3}
    Tabs = {1}
    BellSize = 2
    MaxDrops = 1
    \* PostPage
    PageComments = {1, 2, 3}
    CreatedAt <- MCCreatedAt
    CommentLimit = 1
    ParentOf <- MCParentOf
    NoParent = 0
    OwnComments = {3}
    \* PostForm
    MaxEdits = 3
    Renders = {1, 2}
    Sdgs = {1, 2, 3}
    GroupSdgs <- MCGroupSdgs
    \* GuardAdapter
    AutoPublishMax = 25
    AutoRejectMin = 85
    TrustedReputation = 500
    GuardCodes <- MCGuardCodes
    MaxCodes = 2
    AuxNumbers <- MCAuxNumbers
    \* Listings
    PageSize = 1
    MaxRows = 3
    MaxOverlap = 1
    MaxMembers = 2
    \* Feeds
    Posts = {1, 2, 3}
    Goals = {1, 2}
    Homes = {1}
    HomeOf <- MCHomeOf
    TagsOf <- MCTagsOf
    FeedLimit = 1
    \* Outcomes
    Reporters <- MCUsers
    Indicators = {1}
    MaxReports = 2
    MaxTime = 2
INVARIANTS
    ServicesTypeOK
    PluginsAreOrderly
    BurstBounded
    RetryAfterIsEnough
    RowsBounded
    RetriesEnd
    DigestOnlyToOptedIn
    BellNamesOnce
    BellReadIsRowRead
    ThreadIsFaithful
    FormSendsWhatItShows
    UnsafeIsRejected
    PagesMissNothing
    FreshPostsAreSeen
    ProgressAgrees
PROPERTIES
    LoadingEnds
CHECK_DEADLOCK FALSE
