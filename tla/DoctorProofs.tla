---------------------------- MODULE DoctorProofs ----------------------------
(***************************************************************************)
(* Proof that doctor tells the truth, beside any number of installs.  What *)
(* it sees at one time is still so later: the schema, the grants and the   *)
(* roles' passwords, once there, stay; and a DSN of db.env that is let in  *)
(* shows grants that doctor does not try.                                  *)
(***************************************************************************)
EXTENDS Doctor, InstallProofs

\* What a step of the installs never takes back.
Stays ==
    /\ granted => granted'
    /\ db = "migrated" => db' = "migrated"
    /\ \A r \in Role : role[r] \in Secret => role'[r] \in Secret

\* The schema, the grants and the passwords stay.
LEMMA NothingTakenBack ==
    ASSUME InstallInv, [Next]_vars
    PROVE  Stays
    <1>0. InstallTypeOK
        BY DEF InstallInv
    <1>1. CASE UNCHANGED server
        BY <1>1 DEF Stays, server
    <1>2. ASSUME NEW p \in Installer, CreateDatabase(p) PROVE Stays
        BY <1>2 DEF CreateDatabase, Stays
    <1>3. ASSUME NEW p \in Installer, Migrate(p) PROVE Stays
        BY <1>3 DEF Migrate, Stays
    <1>4. ASSUME NEW p \in Installer, CreateRoles(p) PROVE Stays
        BY <1>4, SecretAssumption DEF CreateRoles, Stays
    <1>5. ASSUME NEW p \in Installer, Grant(p) PROVE Stays
        BY <1>5 DEF Grant, Stays
    <1>6. ASSUME NEW p \in Installer, NEW r \in Role, SetPassword(p, r) PROVE Stays
        <2>1. at[p] \in Settled
            BY <1>6 DEF SetPassword, Go, Alter, Settled, Role
        <2>2. mem[p].pw[r] \in Secret
            BY <1>0, <2>1 DEF InstallTypeOK
        <2> QED
            BY <1>0, <1>6, <2>2 DEF SetPassword, Stays, InstallTypeOK
    <1> QED
        BY <1>1, <1>2, <1>3, <1>4, <1>5, <1>6
           DEF Next, vars, Edit, Copy, Start, ConfMissing, WriteTemplate, Incomplete, LoadConf,
               Connect, NotConnected, NoServer, TruncateEnv, WriteEnv, Probe, ProbeRefused, Stop,
               KeepPassword, NewPassword, AppendFails

\* A DSN that is let in carries a password of install's, and the grants are there.
LEMMA LetInMeans ==
    ASSUME InstallInv, NEW r \in Role, LetsIn(r)
    PROVE  role[r] \in Secret /\ granted
    <1>1. env[r] # "none" /\ env[r] = role[r]
        BY DEF LetsIn
    <1>2. env # NoPassword
        BY <1>1 DEF NoPassword
    <1> QED
        BY <1>1, <1>2 DEF InstallInv, EnvWhole

\* What doctor has seen stays so.
LEMMA SeenStep ==
    ASSUME DoctorInv, [DoctorNext]_<<vars, look>>
    PROVE  DoctorInv'
    <1>0. InstallInv /\ look \in Look /\ Seen
        BY DEF DoctorInv, DoctorTypeOK
    <1>1. [Next]_vars
        BY DEF DoctorNext, Check, Exit, CheckConf, CheckAdmin, CheckEmit, CheckRead,
               CheckMigrations, Passes
    <1>2. InstallInv' /\ InstallTypeOK' /\ Stays
        BY <1>0, <1>1, InstallStep, NothingTakenBack DEF InstallInv
    <1>3. CASE UNCHANGED look
        BY <1>0, <1>2, <1>3 DEF DoctorInv, DoctorTypeOK, Seen, Stays, Role
    <1>4. CASE CheckConf \/ CheckAdmin \/ Exit
        BY <1>2, <1>4 DEF CheckConf, CheckAdmin, Exit, Passes, DoctorInv, DoctorTypeOK, Seen, Look
    <1>5. CASE CheckEmit
        <2>1. role["emit"] \in Secret /\ granted
            BY <1>0, <1>5, LetInMeans DEF CheckEmit, Role
        <2> QED
            BY <1>2, <1>5, <2>1
               DEF CheckEmit, Passes, DoctorInv, DoctorTypeOK, Seen, Stays, Look, Role
    <1>6. CASE CheckRead
        <2>1. role["read"] \in Secret
            BY <1>0, <1>6, LetInMeans DEF CheckRead, Role
        <2> QED
            BY <1>0, <1>2, <1>6, <2>1
               DEF CheckRead, Passes, DoctorInv, DoctorTypeOK, Seen, Stays, Look, Role
    <1>7. CASE CheckMigrations
        BY <1>0, <1>2, <1>7
           DEF CheckMigrations, Passes, DoctorInv, DoctorTypeOK, Seen, Stays, Look, Role
    <1> QED
        BY <1>3, <1>4, <1>5, <1>6, <1>7 DEF DoctorNext, Check

\* What doctor has seen holds, whatever the installs do meanwhile.
THEOREM DoctorCorrect == DoctorSpec => []DoctorInv
    <1>1. DoctorInit => DoctorInv
        <2>1. DoctorInit => InstallInv
            BY InstallInitInv DEF DoctorInit
        <2> QED
            BY <2>1 DEF DoctorInit, DoctorInv, DoctorTypeOK, Seen, Look, InstallInv
    <1>2. DoctorInv /\ [DoctorNext]_<<vars, look>> => DoctorInv'
        BY SeenStep
    <1> QED
        BY <1>1, <1>2, PTL DEF DoctorSpec

\* What doctor calls healthy works, although it saw the parts at different times
\* while installs went on (doctor.go:47-123).
THEOREM HealthyIsTrue == DoctorSpec => []DoctorTruthful
    <1>1. DoctorInv => DoctorTruthful
        <2> SUFFICES ASSUME DoctorInv, look = "healthy"
                     PROVE  /\ db = "migrated" /\ granted
                            /\ \A r \in Role : role[r] \in Secret
                            /\ spoilt \/ conf.pw = role
            BY DEF DoctorTruthful
        <2>1. db = "migrated" /\ granted /\ \A r \in Role : role[r] \in Secret
            BY DEF DoctorInv, Seen, Role
        <2>2. ASSUME ~ spoilt PROVE conf.pw = role
            <3>1. \A r \in Role : conf.pw[r] = role[r]
                BY <2>1, <2>2 DEF DoctorInv, InstallInv, PasswordsKept
            <3>2. conf.pw \in [Role -> Secret \cup {"none"}]
                  /\ role \in [Role -> Secret \cup {"absent", "none"}]
                BY DEF DoctorInv, InstallInv, InstallTypeOK, Conf, Password
            <3> QED
                BY <3>1, <3>2
        <2> QED
            BY <2>1, <2>2
    <1> QED
        BY <1>1, DoctorCorrect, PTL
============================================================================
