SPECIFICATION DoctorSpec
CONSTANTS
    p1 = p1
    s1 = s1
    s2 = s2
    Installer <- One
    Secret <- Two
    Overlap = FALSE
    Stops = TRUE
    IOFaults = FALSE
    Unterminated = TRUE
    Overrides = TRUE
SYMMETRY Alike
INVARIANTS
    DoctorInv
    DoctorTruthful
