SPECIFICATION FairSpec
CONSTANTS
    Runs <- TwoRuns
    Plans <- ThreePlans
    Nearest <- MCNearest
    Uploaded <- MCUploaded
    BatchSize = 2
    Concurrency = 2
    TopK = 1
    AtStart = 2
    MaxVideos = 3
    NoLimit = NoLimit
INVARIANTS Accounted AllDone OneTopK
PROPERTIES GetsPast
