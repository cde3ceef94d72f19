SPECIFICATION FairSpec
CONSTANTS
    p1 = p1
    p2 = p2
    Migrator <- Two
    Script <- Excerpt
    Undo <- OneRollback
    Tools = {"binary", "script"}
    Overlap = TRUE
    Stops = TRUE
INVARIANTS
    MigrateInv
    RecordedIsMade
    RecordedInOrder
    SerialSchemaCurrent
PROPERTY
    MigrationsComplete
