SPECIFICATION Spec
CONSTANTS
    Buffers = {b1, b2}
    BatchSize = 2
    MaxFrameBytes = 2
    MaxTotalBytes = 6
    SegmentBytes = 4
    HeaderBytes = 1
    RecordHeader = 1
    FrameLens = {1, 2, 3}
    Existing <- MCExisting
    MaxFrames = 3
INVARIANTS
    BuffersConserved
    WrittenInOrder
    LossBounded
    Retention
PROPERTY
    Progress
CHECK_DEADLOCK FALSE
