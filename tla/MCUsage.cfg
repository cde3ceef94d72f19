SPECIFICATION SessionsSpec
CONSTANTS
    e1 = e1
    e2 = e2
    e3 = e3
    NoProc = NoProc
    NoLine = NoLine
    Line <- Two
    Drainer <- NoDrainer
    Proc <- Two
    Size <- UnitSize
    MaxBytes = 2
    MaxLines <- EmitLimits
    Timed <- Two
    IOFaults = FALSE
    Crashes = FALSE
    Uuid <- OwnUuid
    BadData = {}
    Payload <- Payloads
    Tokens <- OneTooLong
    Bits = 4
    Healths = {"up"}
INVARIANTS
    UsageReadable
CHECK_DEADLOCK FALSE
