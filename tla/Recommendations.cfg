SPECIFICATION RankingSpec
CONSTANTS
    Library = {1, 2, 3, 4}
    Vector <- OnCircle
    Tastes <- CircleTastes
    WatchLimit = 2
    PoolSize = 3
    Lambda = 7
    Limit = 2
    Durations = {0, 9}
    Earlier <- NoneOrThree
    MaxChanges = 2
    Candidates <- FiveCandidates
    Queries <- TwoQueries
    MaxLen = 4
    Lambdas <- SomeLambdas
    SeenIds <- NothingOrSome
    BlockedCreators <- NobodyOrA
    Ratios = {0, 20, 40, 70, 100, 101}
    Caps = {0, 1, 2}
INVARIANTS RankingHolds NewestWatched Ordered Picked
