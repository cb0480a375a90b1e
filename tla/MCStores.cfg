\* Small instances of everything that talks to a store or to IGDB, with one
\* failure or crash in each part that can have one.
CONSTANTS
    StoreKinds = {"plain", "gog", "epic"}
    Frequencies = {"manual", "daily"}
    MaxGrants = 2
    MaxRotations = 2
    MaxConnFaults = 1
    Adapters = {"steam", "playstation-store", "gog", "epic", "humble"}
    StoreGames = {1, 2, 3}
    TitleOf <- OneTitle
    OrderOf <- TwoOrders
    StorePlatforms = {1, 2}
    PlatformLists <- Lists
    PageSize = 2
    MaxPlaytime = 1
    MaxChanges = 1
    ExtGames = {1, 2}
    ExtParent <- SecondUnderFirst
    ExtStore <- OneStore
    ExtPlatforms <- ThreePlatforms
    IgdbIds = {1, 2}
    ExtWorkers = {1}
    MaxExtItems <- TwoThenOne
    MaxDecisions = 2
    LinkJobs = {1, 2}
    LinkScope <- Scopes
    LinkGroups = {1, 2}
    LinkRows = {1, 2}
    GroupOf <- OwnGroup
    LinkStore <- Stores
    ReapMinAge = 0
    MaxLinkTime = 1
    MaxLinkFaults = 1
    MetaGames = {1}
    Images = {"a", "b"}
    Fetchers = {1}
    MinAge = 0
    MaxMetaTime = 1
    MaxRefreshes = 1
    MaxMetaFaults = 1
    IgdbCalls = {"a", "b"}
    MaxRateRetries = 1
    TokenLife = 3
    MaxTokens = 3
    MaxIgdbTime = 3
    IgdbGames = {1, 2}
    Catalogues <- AnyGames
    Scopings = {{}, {1}}
    Limits = {1, 2}
    Expansions = 2
    Failures <- SomeFail
    Callers = {"a", "b"}
    Burst = 2
    Skew = 1
    MaxRateTime = 2
    MaxPassed = 6
SPECIFICATION Spec
INVARIANTS
    TokensKept NoNagging FetchSound OneHome OnlyOrphansReaped
    CoverOnDisk RetryIsFresh SearchLosesNothing RateHolds
\* Every part ends when its bounds are reached.
CHECK_DEADLOCK FALSE
