SPECIFICATION SessionsSpec
CONSTANTS
    e1 = e1
    e2 = e2
    e3 = e3
    NoProc = NoProc
    NoLine = NoLine
    Line <- Three
    Drainer <- NoDrainer
    Proc <- Three
    Size <- UnitSize
    MaxBytes = 2
    MaxLines <- EmitLimits
    Timed <- Three
    IOFaults = FALSE
    Crashes = TRUE
    Uuid <- SharedUuid
    BadData = {e2}
    Payload <- Payloads
    Tokens <- PowersOfFour
    Bits = 4
    Healths = {"up"}
INVARIANTS
    StoredOnce
    SpooledOnce
    OnlyBadDataDropped
    LastShown
    AliveEmits
    UsageExact
CHECK_DEADLOCK FALSE
