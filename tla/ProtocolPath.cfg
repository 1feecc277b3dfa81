SPECIFICATION Spec
CONSTANTS
    Specs <- MCSpecs
    Datagrams <- MCDatagrams
    Sent <- MCSent
    CpiMod = 2
    PrtMod = 3
    MaxDatagrams = 3
    MaxFrames = 5
INVARIANTS
    OrderVerdict
    SummaryTruthful
    ReassemblyExact
CHECK_DEADLOCK FALSE
