SPECIFICATION FairSpec
CONSTANTS
    e1 = e1
    e2 = e2
    d = d
    NoProc = NoProc
    NoLine = NoLine
    Line <- Two
    Drainer <- OneDrainer
    Proc <- TwoAndDrainer
    Size <- UnitSize
    MaxBytes = 1
    MaxLines <- EmitLimits
    Timed <- Two
    IOFaults = TRUE
    Crashes = TRUE
    Uuid <- OwnUuid
    BadData = {e2}
    Healths = {"up", "refusing", "down"}
INVARIANTS
    PipelineInv
    NoSilentLoss
PROPERTIES
    LeavesWithReason
    DeliverySpec
    EmitEnds
    SpoolDrained
