\* The rows of a game with a sync's Acquire among the requests, pools, tags, reads and
\* smell checks; an import of two games with one mishap.
CONSTANTS
    g1 = g1  g2 = g2  g3 = g3  q1 = q1  q2 = q2
    Games = {g1, g2}
    Platforms = {"pc"}
    Storefronts = {"steam"}
    NoStore = NoStore
    Keys <- PairSet
    Statuses = {"not_started", "in_progress", "completed"}
    Finished = {"completed"}
    MaxHours = 1
    Ranks = {1, 4}
    Pools = {q1, q2}
    NoGame = NoGame
    NoKey = NoKey
    MaxPosition = 1
    MaxListed = 2
    MaxOrder = 2
    TaggedGames = {g1}
    Spellings = {"RPG", "rpg"}
    Folded <- Lower
    Requests = {1, 2}
    NoTags = NoTags
    Listed = {g1, g2, g3}
    RowChoices <- RowSet
    Cards <- CardSet
    FinishedStates = {"completed"}
    CreatedAt <- Created
    Inside <- Substrings
    PerPage = 2
    SmellGames = {1}
    SmellRows <- PlatformSet
    SmellStates <- CheckedGames
    PlayedFrom = 2
    MaxIgnored = 1
    NItems = 2
    Workers = {"w1", "w2"}
    WithId = {2}
    MaxMishaps = 1
SPECIFICATION Spec
INVARIANTS
    WishlistDisjoint ReadsAgree ImportGateHolds FinalizerOnly
PROPERTIES
    PromoteOnPlay QueueOrdered MergedTagsStay FixesSettle
    ImportSettles
\* Once everything has ended nothing more happens.
CHECK_DEADLOCK FALSE
