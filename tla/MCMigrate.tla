----------------------------- MODULE MCMigrate -----------------------------
(***************************************************************************)
(* The repository's own migrations with two migrators that may overlap.    *)
(***************************************************************************)
EXTENDS Migrate, Schema

CONSTANTS p1, p2

Two == {p1, p2}
NoRollbacks == <<>>

\* 002, 003, 005 and 006, as 3 and 4; nobody replaces or drops what the other
\* two files make.  Of the rollbacks that of 005.
Excerpt == <<Views, SessionsLastHost, MissionCorrelation, ModelTokenUsage>>
OneRollback == 3 :> Rollbacks[5]
============================================================================
