CONSTANTS
    Char <- Chars
    Call <- Calls
SPECIFICATION Spec
INVARIANTS
    InputsInv
    EventAsAsked
    SilentWithoutDsn
    SettingsArrive
\* The commands end.
CHECK_DEADLOCK FALSE
