------------------------------- MODULE Doctor -------------------------------
(***************************************************************************)
(* The command doctor (cmd/autospec-db/doctor.go) beside the installs of a *)
(* machine: it looks at db.conf, at the server as the admin and through    *)
(* both DSNs of db.env, and at the recorded migrations, one after the      *)
(* other, while installs go on, and exits 0 when no check fails.  A failed *)
(* check settles that exit code, so the model's doctor stops there.        *)
(***************************************************************************)
EXTENDS Install

VARIABLE look   \* the check that is next; "healthy": about to exit 0

Look == {"idle", "admin", "emit", "read", "migrations", "healthy"}

DoctorTypeOK == InstallTypeOK /\ look \in Look

DoctorInit == Init /\ look = "idle"

----------------------------------------------------------------------------

\* This check is the one that is next, it holds, and the next one is "to".
Passes(from, to) ==
    /\ look = from
    /\ look' = to
    /\ UNCHANGED vars

\* db.conf is there and has an admin password; whether it is the right one is
\* seen when connecting with it, whatever an editor does in between.
CheckConf == conf.there /\ conf.admin = "right" /\ Passes("idle", "admin")

CheckAdmin == db # "absent" /\ Passes("admin", "emit")

\* Mutation of LetsIn: a DSN that is missing is not a failure.
LetsInIfAny(r) == env[r] \in {"none", role[r]}

\* db.env has the DSN of role r, and the server lets it in.  Reading the DSN
\* and connecting with it are one step.  Simplification: AUTOSPEC_DB_DSN and
\* AUTOSPEC_DB_READ_DSN are not set for doctor, which would win over db.env
\* (config.go:149 and 158); db.env has to exist all the same (doctor.go:38).
LetsIn(r) == env[r] # "none" /\ env[r] = role[r]

CheckEmit == LetsIn("emit") /\ Passes("emit", "read")

CheckRead == LetsIn("read") /\ Passes("read", "migrations")

\* Every migration is recorded.
CheckMigrations == db = "migrated" /\ Passes("migrations", "healthy")

\* A check fails, for its own reason or because the server is not reachable,
\* or doctor has printed its report.
Exit == look # "idle" /\ Passes(look, "idle")

----------------------------------------------------------------------------

Check == CheckConf \/ CheckAdmin \/ CheckEmit \/ CheckRead \/ CheckMigrations

DoctorNext == (Next /\ UNCHANGED look) \/ Check \/ Exit

DoctorSpec == DoctorInit /\ [][DoctorNext]_<<vars, look>>

----------------------------------------------------------------------------

\* What doctor calls healthy does work, although it saw the parts at different
\* times while installs went on, and although it tries neither the grants nor
\* an event: the schema is there, both roles have their grants and a password
\* of install's, and the passwords are those of db.conf, unless db.conf was
\* once left unterminated or installs overlapped (doctor.go:47-123).
DoctorTruthful ==
    look = "healthy" =>
        /\ db = "migrated" /\ granted
        /\ \A r \in Role : role[r] \in Secret
        /\ spoilt \/ conf.pw = role

\* What has been seen stays so, although installs go on (the invariant).
Seen ==
    /\ look \in {"read", "migrations", "healthy"} => granted /\ role["emit"] \in Secret
    /\ look \in {"migrations", "healthy"} => role["read"] \in Secret
    /\ look = "healthy" => db = "migrated"

DoctorInv == InstallInv /\ DoctorTypeOK /\ Seen
============================================================================
