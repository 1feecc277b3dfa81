SPECIFICATION Spec
CONSTANTS
    MaxPort = 7
    MaxFrames = 3
    Mbufs = {m1, m2}
    Frames <- MCFrames
    SockCap = 1
    DropMod = 3
    MaxDrops = 4
    ReplayFrames = 2
    LoopCount = 2
    Jobs <- MCJobs
INVARIANTS
    ResourcesReleased
    MbufsConserved
    ExitCodeTruthful
    PacketsAccounted
    KernelDropsTruthful
    ConfigUsable
    ConfigPrecedence
PROPERTIES
    KeepsContract
    StopHonoured
CHECK_DEADLOCK FALSE
