SPECIFICATION FairSpec
CONSTANTS
    Videos <- FourVideos
    PageSize = 2
    WrapWindow = 2
    Rankings <- SomeRankings
    MaxEvents = 2
    MaxDrops = 1
INVARIANTS Paging JumpsAwaited
PROPERTIES LoadKeepsVideo JumpsEnd
