SPECIFICATION FairSpec
CONSTANTS
    v1 = v1
    v2 = v2
    v3 = v3
    t1 = t1
    t2 = t2
    f1 = f1
    NoAnswer = NoAnswer
    Raised = Raised
    LoadFailed = LoadFailed
    Nobody = Nobody
    FrameReq <- OneFrames
    VideoReq <- ThreeVideos
    TextReq <- TwoTexts
    Bad <- BadVideoAndText
    Invalid <- InvalidText
    MaxBatch = 2
INVARIANTS
    OwnResult
    NothingLost
    ModelSpared
PROPERTIES
    EveryoneAnswered
    ImplementsService
\* Every handler makes one request: the system stops when all are answered.
CHECK_DEADLOCK FALSE
