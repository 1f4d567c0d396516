SPECIFICATION FairSpec
CONSTANTS
    a = a
    b = b
    Videos <- MCVideos
    First = a
    Duration = 3
    FlushAt = 3
    MaxWatch = 3
    MaxEvents = 4
INVARIANTS Logged NothingInvented
PROPERTIES EveryEventStored
CHECK_DEADLOCK FALSE
