SPECIFICATION Spec
CONSTANTS
    p1 = p1
    p2 = p2
    Migrator <- Two
    Script <- Migrations
    Undo <- NoRollbacks
    Tools = {"binary", "script"}
    Overlap = TRUE
    Stops = FALSE
INVARIANT
    SchemaCurrent
