SPECIFICATION EmitFairSpec
CONSTANTS
    e1 = e1
    e2 = e2
    d = d
    NoProc = NoProc
    NoLine = NoLine
    Line <- Two
    Drainer <- OneDrainer
    Proc <- TwoAndDrainer
    Size <- UnitSize
    MaxBytes = 1
    MaxLines <- EmitLimits
    Timed <- Two
    IOFaults = FALSE
    Crashes = FALSE
    Uuid <- OwnUuid
    BadData = {e2}
    Healths = {"up"}
PROPERTIES
    EmitEnds
