SPECIFICATION RecommendSpec
CONSTANTS
    Library = {1, 2, 3, 4}
    Vector <- OnCircle
    Tastes <- CircleTastes
    WatchLimit = 2
    PoolSize = 3
    Lambda = 7
    Limit = 2
    Durations = {0, 9}
    Earlier <- NoneOrThree
    MaxChanges = 1
INVARIANT SessionInOrder
