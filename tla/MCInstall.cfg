SPECIFICATION Spec
CONSTANTS
    p1 = p1
    p2 = p2
    s1 = s1
    s2 = s2
    s3 = s3
    s4 = s4
    s5 = s5
    s6 = s6
    Installer <- Two
    Secret <- Four
    Overlap = TRUE
    Stops = TRUE
    IOFaults = TRUE
    Unterminated = TRUE
    Overrides = FALSE
SYMMETRY Alike
INVARIANTS
    InstallInv
    InstallWorks
    PasswordsKept
    AgentsWork
