SPECIFICATION Spec
CONSTANTS
    Threads = {t1, t2}
    None = None
    Blank = Blank
    Hash <- SmallHash
    Sign <- SmallSign
    Digest <- TwoDigests
    Environments <- FiveEnvironments
    Machines <- ThreeMachines
    Inputs <- SomeInputs
    Hidden = 3
SYMMETRY AnyThread
INVARIANTS AnswerHonest TempFilesGone HalfOnlyOnCuda TokensFit FramesCover VectorsSound
PROPERTY WarmStays
