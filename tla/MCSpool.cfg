SPECIFICATION SpoolSpec
CONSTANTS
    p1 = p1
    p2 = p2
    short = short
    middle = middle
    long = long
    NoProc = NoProc
    NoLine = NoLine
    Proc <- MCProc
    Line <- MCLine
    Size <- MCSize
    MaxBytes = 5
    MaxLines <- MCMaxLines
    Timed <- MCTimed
    IOFaults = TRUE
INVARIANTS
    LockInv
    SpoolBounded
    DrainAccounts
    DrainLimited
    AppendFits
    SpoolInv
PROPERTY
    QueueSpec
