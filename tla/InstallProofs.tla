--------------------------- MODULE InstallProofs ---------------------------
(***************************************************************************)
(* Proofs about install and doctor, for any number of installs that        *)
(* overlap, die, meet errors and are edited around.  An install that is    *)
(* alone finds what it has done so far undisturbed; and as long as db.conf *)
(* is as install writes it and installs do not overlap, the passwords in   *)
(* db.conf are those of the install under way, so that every role keeps    *)
(* the password it was given first.                                        *)
(***************************************************************************)
EXTENDS Install, TLAPS

\* What appending a password makes of db.conf: another db.conf, whose last line
\* has its newline; and when the last one had its own, only r's password changed.
LEMMA AppendedConf ==
    ASSUME InstallTypeOK, NEW r \in Role, NEW s \in Secret, NEW c \in Appended(conf, r, s)
    PROVE  /\ c \in Conf /\ c.there = conf.there /\ ~ c.open
           /\ ~ conf.open => c.pw = [conf.pw EXCEPT ![r] = s]
    <1> DEFINE With(k, a, w, o) ==
                   [there |-> conf.there, admin |-> a, pw |-> w, last |-> k, open |-> o]
    <1>0. /\ conf.there \in BOOLEAN /\ conf.admin \in {"unset", "right", "wrong"}
          /\ conf.pw \in Password /\ conf.last \in {"note", "admin"} \cup Role
          /\ conf.open \in BOOLEAN
          /\ conf = With(conf.last, conf.admin, conf.pw, conf.open)
        BY DEF InstallTypeOK, Conf
    <1>1. CASE ~ conf.open
        <2>1. c = With(r, conf.admin, [conf.pw EXCEPT ![r] = s], conf.open)
            BY <1>0, <1>1 DEF Appended
        <2>2. [conf.pw EXCEPT ![r] = s] \in Password
            BY <1>0 DEF Password
        <2> QED
            BY <1>0, <1>1, <2>1, <2>2 DEF Conf
    <1>2. CASE conf.open /\ conf.last \in {"note", "admin"}
        <2>1. PICK a \in {conf.admin, "wrong"} : c = With(conf.last, a, conf.pw, FALSE)
            BY <1>0, <1>2 DEF Appended
        <2>2. c.there = conf.there /\ c.open = FALSE
            BY <2>1
        <2>3. a \in {"unset", "right", "wrong"}
            BY <1>0
        <2>4. c \in Conf
            BY <1>0, <2>1, <2>3 DEF Conf
        <2> QED
            BY <1>2, <2>2, <2>4
    <1>3. CASE conf.open /\ conf.last \in Role
        <2>1. PICK g \in Fresh \ {s} : c = [conf EXCEPT !.open = FALSE, !.pw[conf.last] = g]
            BY <1>3 DEF Appended, Role
        <2>2. c = With(conf.last, conf.admin, [conf.pw EXCEPT ![conf.last] = g], FALSE)
            BY <1>0, <2>1
        <2>3. [conf.pw EXCEPT ![conf.last] = g] \in Password
            BY <1>0, <1>3 DEF Password, Fresh
        <2> QED
            BY <1>0, <1>3, <2>2, <2>3 DEF Conf
    <1> QED
        BY <1>0, <1>1, <1>2, <1>3

\* An append that fails leaves a db.conf.
LEMMA FailedAppend ==
    ASSUME InstallTypeOK, NEW p \in Installer, NEW r \in Role, AppendFails(p, r)
    PROVE  conf' \in Conf /\ conf'.there = conf.there
    <1>0. conf \in Conf
        BY DEF InstallTypeOK
    <1>1. CASE UNCHANGED conf
        BY <1>0, <1>1
    <1>2. CASE \E k \in {"note", r} : conf' = [conf EXCEPT !.last = k, !.open = TRUE]
        BY <1>0, <1>2 DEF Conf, Role
    <1>3. ASSUME NEW s \in Fresh, NEW c \in Appended(conf, r, s), conf' = [c EXCEPT !.open = TRUE]
          PROVE  conf' \in Conf /\ conf'.there = conf.there
        <2>1. s \in Secret
            BY DEF Fresh
        <2>2. c \in Conf /\ c.there = conf.there
            BY <2>1, AppendedConf
        <2> QED
            BY <1>3, <2>2 DEF Conf
    <1> QED
        BY <1>1, <1>2, <1>3 DEF AppendFails

\* Every step keeps the types.
LEMMA TypeStep ==
    ASSUME InstallTypeOK, Loaded, [Next]_vars
    PROVE  InstallTypeOK'
    <1>a. ASSUME NEW r \in Role, NEW s \in Secret, NEW c \in Appended(conf, r, s)
          PROVE  /\ c \in Conf /\ c.there = conf.there /\ ~ c.open
                 /\ ~ conf.open => c.pw = [conf.pw EXCEPT ![r] = s]
        BY AppendedConf
    <1>b. ASSUME NEW p \in Installer, NEW r \in Role, AppendFails(p, r)
          PROVE  conf' \in Conf /\ conf'.there = conf.there
        BY <1>b, FailedAppend
    <1> USE SecretAssumption, InstallAssumption DEF vars, files, server,
        history, At, Settled, Role, InstallTypeOK, Loaded, HasLoaded, Conf,
        Password, Template, NoPassword, AfterPassword, Alter, AfterAlter
    <1>1. ASSUME Edit PROVE InstallTypeOK'
        <2>1. spoilt' \in BOOLEAN
            BY <1>1, ZenonT(30) DEF Edit
        <2>2. PICK a \in {"right", "wrong"}, o \in BOOLEAN, k \in {"note", "admin"} :
                conf' = [conf EXCEPT !.admin = a, !.open = o, !.last = IF @ \in Role THEN @ ELSE k]
            BY <1>1 DEF Edit
        <2>3. conf' \in Conf
            BY <2>2
        <2>4. UNCHANGED <<env, copies, server, at, mem, together, reported>>
            BY <1>1 DEF Edit
        <2> QED
            BY <2>1, <2>3, <2>4
    <1>2. ASSUME Copy PROVE InstallTypeOK'
        BY <1>2 DEF Copy
    <1>3. ASSUME NEW p \in Installer, Start(p) PROVE InstallTypeOK'
        <2>1. spoilt' \in BOOLEAN
            BY <1>3, ZenonT(30) DEF Start
        <2>2. together' \subseteq Installer
            BY <1>3 DEF Start, Busy
        <2>3. /\ at' = [at EXCEPT ![p] = "stat"] /\ reported' = FALSE
              /\ UNCHANGED <<files, server, mem>>
            BY <1>3 DEF Start, Go
        <2>4. at' \in [Installer -> At]
            BY <2>3
        <2>5. \A q \in Installer : at'[q] \in Settled => at[q] \in Settled
            BY <2>3
        <2> HIDE DEF Conf, Password, At, Settled, Role
        <2> QED
            BY <2>1, <2>2, <2>3, <2>4, <2>5
    <1>4. ASSUME NEW p \in Installer, ConfMissing(p) PROVE InstallTypeOK'
        BY <1>4 DEF ConfMissing, Go
    <1>5. ASSUME NEW p \in Installer, WriteTemplate(p) PROVE InstallTypeOK'
        BY <1>5 DEF WriteTemplate, End
    <1>6. ASSUME NEW p \in Installer, Incomplete(p) PROVE InstallTypeOK'
        BY <1>6 DEF Incomplete, End
    <1>7. ASSUME NEW p \in Installer, LoadConf(p) PROVE InstallTypeOK'
        BY <1>7 DEF LoadConf, Go
    <1>8. ASSUME NEW p \in Installer, Connect(p) PROVE InstallTypeOK'
        BY <1>8 DEF Connect, Go
    <1>9. ASSUME NEW p \in Installer, NotConnected(p) PROVE InstallTypeOK'
        BY <1>9 DEF NotConnected, Go
    <1>10. ASSUME NEW p \in Installer, CreateDatabase(p) PROVE InstallTypeOK'
        BY <1>10 DEF CreateDatabase, Go
    <1>11. ASSUME NEW p \in Installer, NoServer(p) PROVE InstallTypeOK'
        BY <1>11 DEF NoServer, End
    <1>12. ASSUME NEW p \in Installer, Migrate(p) PROVE InstallTypeOK'
        BY <1>12 DEF Migrate, Go
    <1>13. ASSUME NEW p \in Installer, CreateRoles(p) PROVE InstallTypeOK'
        BY <1>13 DEF CreateRoles, Go
    <1>14. ASSUME NEW p \in Installer, Grant(p) PROVE InstallTypeOK'
        BY <1>14 DEF Grant, Go
    <1>15. ASSUME NEW p \in Installer, TruncateEnv(p) PROVE InstallTypeOK'
        BY <1>15 DEF TruncateEnv, Go
    <1>16. ASSUME NEW p \in Installer, WriteEnv(p) PROVE InstallTypeOK'
        BY <1>16 DEF WriteEnv, Go
    <1>17. ASSUME NEW p \in Installer, Probe(p) PROVE InstallTypeOK'
        BY <1>17 DEF Probe, End
    <1>18. ASSUME NEW p \in Installer, ProbeRefused(p) PROVE InstallTypeOK'
        BY <1>18 DEF ProbeRefused, End
    <1>19. ASSUME NEW p \in Installer, Stop(p) PROVE InstallTypeOK'
        BY <1>19 DEF Stop, End
    <1>20. ASSUME NEW p \in Installer, NEW r \in Role, KeepPassword(p, r) PROVE InstallTypeOK'
        BY <1>20 DEF KeepPassword, Go
    <1>21. ASSUME NEW p \in Installer, NEW r \in Role, NewPassword(p, r) PROVE InstallTypeOK'
        <2>1. PICK s \in Fresh : mem' = [mem EXCEPT ![p].pw[r] = s] /\ conf' \in Appended(conf, r, s)
            BY <1>21 DEF NewPassword
        <2>2. s \in Secret
            BY <2>1 DEF Fresh
        <2>3. conf' \in Conf
            BY <1>a, <2>1, <2>2
        <2>4. mem[p] \in Conf /\ mem'[p] = [mem[p] EXCEPT !.pw[r] = s]
            BY <2>1
        <2>5. /\ mem'[p].pw = [mem[p].pw EXCEPT ![r] = s] /\ mem'[p] \in Conf
              /\ mem' \in [Installer -> Conf]
            BY <2>1, <2>2, <2>4
        <2>6. at' = [at EXCEPT ![p] = AfterPassword[r]] /\ at[p] = r
            BY <1>21 DEF NewPassword, Go
        <2>7. at' \in [Installer -> At]
            BY <2>6
        <2>8. ASSUME NEW q \in Installer, at'[q] \in Settled PROVE mem'[q].pw \in [Role -> Secret]
            <3>1. CASE q = p
                BY <2>2, <2>4, <2>5, <2>6, <2>8, <3>1
            <3>2. CASE q # p
                BY <2>1, <2>6, <2>8, <3>2
            <3> QED
                BY <3>1, <3>2
        <2> QED
            BY <1>21, <2>3, <2>5, <2>7, <2>8 DEF NewPassword
    <1>22. ASSUME NEW p \in Installer, NEW r \in Role, AppendFails(p, r) PROVE InstallTypeOK'
        <2>1. conf' \in Conf /\ conf'.there = conf.there
            BY <1>b, <1>22
        <2>2. spoilt' \in BOOLEAN
            BY <1>22, ZenonT(30) DEF AppendFails
        <2> QED
            BY <1>22, <2>1, <2>2 DEF AppendFails, End
    <1>23. ASSUME NEW p \in Installer, NEW r \in Role, SetPassword(p, r) PROVE InstallTypeOK'
        BY <1>23 DEF SetPassword, Go
    <1>24. CASE UNCHANGED vars
        BY <1>24
    <1> HIDE DEF files, server, history, At, Settled, Role, InstallTypeOK,
        Loaded, HasLoaded, Conf, Password, Template, NoPassword, AfterPassword,
        Alter, AfterAlter
    <1> QED
        BY <1>1, <1>2, <1>3, <1>4, <1>5, <1>6, <1>7, <1>8, <1>9, <1>10, <1>11,
           <1>12, <1>13, <1>14, <1>15, <1>16, <1>17, <1>18, <1>19, <1>20, <1>21,
           <1>22, <1>23, <1>24 DEF Next

\* What a step that generates the password of r does.
LEMMA Generated ==
    ASSUME InstallTypeOK, NEW p \in Installer, NEW r \in Role, NewPassword(p, r)
    PROVE  /\ at[p] = r /\ at'[p] = AfterPassword[r]
           /\ \A q \in Installer \ {p} : at'[q] = at[q] /\ mem'[q] = mem[q]
           /\ conf'.there = conf.there
           /\ \E s \in Secret :
                  /\ mem'[p].pw = [mem[p].pw EXCEPT ![r] = s]
                  /\ mem'[p].pw[r] = s
                  /\ ~ conf.open => ~ conf'.open /\ conf'.pw = [conf.pw EXCEPT ![r] = s]
    <1>1. PICK s \in Fresh : mem' = [mem EXCEPT ![p].pw[r] = s] /\ conf' \in Appended(conf, r, s)
        BY DEF NewPassword
    <1>2. s \in Secret
        BY DEF Fresh
    <1>3. /\ conf'.there = conf.there
          /\ ~ conf.open => ~ conf'.open /\ conf'.pw = [conf.pw EXCEPT ![r] = s]
        BY <1>1, <1>2, AppendedConf
    <1>4. mem \in [Installer -> Conf] /\ at \in [Installer -> At]
        BY DEF InstallTypeOK
    <1>5. mem[p].pw \in Password /\ mem[p] \in Conf
        BY <1>4 DEF Conf
    <1>6. mem'[p] = [mem[p] EXCEPT !.pw[r] = s]
        BY <1>1, <1>4
    <1>7. mem'[p].pw = [mem[p].pw EXCEPT ![r] = s] /\ mem'[p].pw[r] = s
        BY <1>5, <1>6 DEF Conf, Password
    <1>8. \A q \in Installer \ {p} : mem'[q] = mem[q]
        BY <1>1, <1>4
    <1>9. /\ at[p] = r /\ at'[p] = AfterPassword[r]
          /\ \A q \in Installer \ {p} : at'[q] = at[q]
        BY <1>4 DEF NewPassword, Go
    <1> QED
        BY <1>2, <1>3, <1>7, <1>8, <1>9

LEMMA GeneratedLoaded ==
    ASSUME InstallTypeOK, Loaded, NEW p \in Installer, NEW r \in Role, NewPassword(p, r)
    PROVE  Loaded'
    <1>1. /\ at[p] = r /\ at'[p] = AfterPassword[r] /\ conf'.there = conf.there
          /\ \A q \in Installer \ {p} : at'[q] = at[q] /\ mem'[q] = mem[q]
        BY Generated
    <1>2. at'[p] = "read" => r = "emit"
        BY <1>1 DEF Role, AfterPassword
    <1>3. mem'[p].pw[r] \in Secret
        BY Generated
    <1>4. conf'.there
        <2>1. HasLoaded(p)
            BY <1>1 DEF HasLoaded, Role
        <2> QED
            BY <1>1, <2>1 DEF Loaded
    <1>5. ASSUME NEW q \in Installer, at'[q] = "read" PROVE mem'[q].pw["emit"] \in Secret
        BY <1>1, <1>2, <1>3, <1>5 DEF Loaded
    <1> QED
        BY <1>4, <1>5 DEF Loaded

LEMMA GeneratedKnown ==
    ASSUME InstallTypeOK, Apart, ConfKnown,
           NEW p \in Installer, NEW r \in Role, NewPassword(p, r)
    PROVE  ConfKnown'
    <1>1. /\ at[p] = r /\ at'[p] = AfterPassword[r] /\ conf'.there = conf.there
          /\ \A q \in Installer \ {p} : at'[q] = at[q] /\ mem'[q] = mem[q]
        BY Generated
    <1>2. PICK s \in Secret :
              /\ mem'[p].pw = [mem[p].pw EXCEPT ![r] = s]
              /\ ~ conf.open => ~ conf'.open /\ conf'.pw = [conf.pw EXCEPT ![r] = s]
        BY Generated
    <1>3. p \in Busy /\ HasLoaded(p) /\ at'[p] # "template"
        BY <1>1 DEF Busy, HasLoaded, Role, AfterPassword
    <1>4. UNCHANGED spoilt
        BY DEF NewPassword, history
    <1>5. ASSUME ~ spoilt, NEW q \in Installer
          PROVE  /\ HasLoaded(q)' => mem'[q].pw = conf'.pw
                 /\ at'[q] = "template" => ~ conf'.there
        <2>1. CASE q = p
            BY <1>2, <1>3, <1>5, <2>1 DEF ConfKnown
        <2>2. CASE q # p
            <3>1. q \notin Busy
                BY <1>3, <1>5, <2>2 DEF Apart
            <3>2. at'[q] = "idle"
                BY <1>1, <2>2, <3>1 DEF Busy
            <3> QED
                BY <3>2 DEF HasLoaded
        <2> QED
            BY <2>1, <2>2
    <1> QED
        BY <1>2, <1>4, <1>5 DEF ConfKnown

LEMMA GeneratedKept ==
    ASSUME InstallTypeOK, ConfKnown, PasswordsKept,
           NEW p \in Installer, NEW r \in Role, NewPassword(p, r)
    PROVE  PasswordsKept'
    <1>1. at[p] = r
        BY Generated
    <1>2. PICK s \in Secret :
              /\ mem'[p].pw = [mem[p].pw EXCEPT ![r] = s]
              /\ ~ conf.open => ~ conf'.open /\ conf'.pw = [conf.pw EXCEPT ![r] = s]
        BY Generated
    <1>3. UNCHANGED <<spoilt, role>> /\ mem[p].pw[r] = "none"
        BY DEF NewPassword, history, server
    <1>4. conf.pw \in Password
        BY DEF InstallTypeOK, Conf
    <1>5. ASSUME ~ spoilt, NEW t \in Role, role[t] \in Secret
          PROVE  conf'.pw[t] = role[t]
        <2>1. ~ conf.open /\ mem[p].pw = conf.pw
            BY <1>1, <1>5 DEF ConfKnown, HasLoaded, Role
        <2>2. conf.pw[t] = role[t]
            BY <1>5 DEF PasswordsKept
        <2>3. t # r
            BY <1>3, <1>5, <2>1, <2>2, SecretAssumption
        <2> QED
            BY <1>2, <1>4, <2>1, <2>2, <2>3 DEF Password
    <1> QED
        BY <1>3, <1>5 DEF PasswordsKept

\* Every step keeps what an install knows.
LEMMA LoadedStep ==
    ASSUME InstallTypeOK, Loaded, [Next]_vars
    PROVE  Loaded'
    <1>b. ASSUME NEW p \in Installer, NEW r \in Role, NewPassword(p, r) PROVE Loaded'
        BY <1>b, GeneratedLoaded
    <1>c. ASSUME NEW p \in Installer, NEW r \in Role, AppendFails(p, r)
          PROVE  conf' \in Conf /\ conf'.there = conf.there
        BY <1>c, FailedAppend
    <1> USE SecretAssumption DEF vars, files, server, history, At, Settled,
        Role, InstallTypeOK, Loaded, HasLoaded, Conf, Password, Template,
        AfterPassword, Alter, AfterAlter
    <1>1. ASSUME Edit PROVE Loaded'
        BY <1>1 DEF Edit
    <1>2. ASSUME Copy PROVE Loaded'
        BY <1>2 DEF Copy
    <1>3. ASSUME NEW p \in Installer, Start(p) PROVE Loaded'
        BY <1>3 DEF Start, Go
    <1>4. ASSUME NEW p \in Installer, ConfMissing(p) PROVE Loaded'
        BY <1>4 DEF ConfMissing, Go
    <1>5. ASSUME NEW p \in Installer, WriteTemplate(p) PROVE Loaded'
        BY <1>5 DEF WriteTemplate, End
    <1>6. ASSUME NEW p \in Installer, Incomplete(p) PROVE Loaded'
        BY <1>6 DEF Incomplete, End
    <1>7. ASSUME NEW p \in Installer, LoadConf(p) PROVE Loaded'
        BY <1>7 DEF LoadConf, Go
    <1>8. ASSUME NEW p \in Installer, Connect(p) PROVE Loaded'
        BY <1>8 DEF Connect, Go
    <1>9. ASSUME NEW p \in Installer, NotConnected(p) PROVE Loaded'
        BY <1>9 DEF NotConnected, Go
    <1>10. ASSUME NEW p \in Installer, CreateDatabase(p) PROVE Loaded'
        BY <1>10 DEF CreateDatabase, Go
    <1>11. ASSUME NEW p \in Installer, NoServer(p) PROVE Loaded'
        BY <1>11 DEF NoServer, End
    <1>12. ASSUME NEW p \in Installer, Migrate(p) PROVE Loaded'
        BY <1>12 DEF Migrate, Go
    <1>13. ASSUME NEW p \in Installer, CreateRoles(p) PROVE Loaded'
        BY <1>13 DEF CreateRoles, Go
    <1>14. ASSUME NEW p \in Installer, Grant(p) PROVE Loaded'
        BY <1>14 DEF Grant, Go
    <1>15. ASSUME NEW p \in Installer, TruncateEnv(p) PROVE Loaded'
        BY <1>15 DEF TruncateEnv, Go
    <1>16. ASSUME NEW p \in Installer, WriteEnv(p) PROVE Loaded'
        BY <1>16 DEF WriteEnv, Go
    <1>17. ASSUME NEW p \in Installer, Probe(p) PROVE Loaded'
        BY <1>17 DEF Probe, End
    <1>18. ASSUME NEW p \in Installer, ProbeRefused(p) PROVE Loaded'
        BY <1>18 DEF ProbeRefused, End
    <1>19. ASSUME NEW p \in Installer, Stop(p) PROVE Loaded'
        BY <1>19 DEF Stop, End
    <1>20. ASSUME NEW p \in Installer, NEW r \in Role, KeepPassword(p, r) PROVE Loaded'
        BY <1>20 DEF KeepPassword, Go
    <1>21. ASSUME NEW p \in Installer, NEW r \in Role, NewPassword(p, r) PROVE Loaded'
        BY <1>b, <1>21
    <1>22. ASSUME NEW p \in Installer, NEW r \in Role, AppendFails(p, r) PROVE Loaded'
        <2>1. conf' \in Conf /\ conf'.there = conf.there
            BY <1>c, <1>22
        <2> QED
            BY <1>22, <2>1 DEF AppendFails, End
    <1>23. ASSUME NEW p \in Installer, NEW r \in Role, SetPassword(p, r) PROVE Loaded'
        BY <1>23 DEF SetPassword, Go
    <1>24. CASE UNCHANGED vars
        BY <1>24
    <1> HIDE DEF files, server, history, At, Settled, Role, InstallTypeOK,
        Loaded, HasLoaded, Conf, Password, Template, AfterPassword, Alter,
        AfterAlter
    <1> QED
        BY <1>1, <1>2, <1>3, <1>4, <1>5, <1>6, <1>7, <1>8, <1>9, <1>10, <1>11,
           <1>12, <1>13, <1>14, <1>15, <1>16, <1>17, <1>18, <1>19, <1>20, <1>21,
           <1>22, <1>23, <1>24 DEF Next

\* Every step keeps the knowledge of each other.
LEMMA ApartStep ==
    ASSUME InstallTypeOK, Apart, [Next]_vars
    PROVE  Apart'
    <1> USE DEF vars, files, server, history, At, Settled, Role, InstallTypeOK,
        Apart, Busy, AfterPassword, Alter, AfterAlter
    <1>1. ASSUME Edit PROVE Apart'
        BY <1>1 DEF Edit
    <1>2. ASSUME Copy PROVE Apart'
        BY <1>2 DEF Copy
    <1>3. ASSUME NEW p \in Installer, Start(p) PROVE Apart'
        BY <1>3 DEF Start, Go
    <1>4. ASSUME NEW p \in Installer, ConfMissing(p) PROVE Apart'
        BY <1>4 DEF ConfMissing, Go
    <1>5. ASSUME NEW p \in Installer, WriteTemplate(p) PROVE Apart'
        BY <1>5 DEF WriteTemplate, End
    <1>6. ASSUME NEW p \in Installer, Incomplete(p) PROVE Apart'
        BY <1>6 DEF Incomplete, End
    <1>7. ASSUME NEW p \in Installer, LoadConf(p) PROVE Apart'
        BY <1>7 DEF LoadConf, Go
    <1>8. ASSUME NEW p \in Installer, Connect(p) PROVE Apart'
        BY <1>8 DEF Connect, Go
    <1>9. ASSUME NEW p \in Installer, NotConnected(p) PROVE Apart'
        BY <1>9 DEF NotConnected, Go
    <1>10. ASSUME NEW p \in Installer, CreateDatabase(p) PROVE Apart'
        BY <1>10 DEF CreateDatabase, Go
    <1>11. ASSUME NEW p \in Installer, NoServer(p) PROVE Apart'
        BY <1>11 DEF NoServer, End
    <1>12. ASSUME NEW p \in Installer, Migrate(p) PROVE Apart'
        BY <1>12 DEF Migrate, Go
    <1>13. ASSUME NEW p \in Installer, CreateRoles(p) PROVE Apart'
        BY <1>13 DEF CreateRoles, Go
    <1>14. ASSUME NEW p \in Installer, Grant(p) PROVE Apart'
        BY <1>14 DEF Grant, Go
    <1>15. ASSUME NEW p \in Installer, TruncateEnv(p) PROVE Apart'
        BY <1>15 DEF TruncateEnv, Go
    <1>16. ASSUME NEW p \in Installer, WriteEnv(p) PROVE Apart'
        BY <1>16 DEF WriteEnv, Go
    <1>17. ASSUME NEW p \in Installer, Probe(p) PROVE Apart'
        BY <1>17 DEF Probe, End
    <1>18. ASSUME NEW p \in Installer, ProbeRefused(p) PROVE Apart'
        BY <1>18 DEF ProbeRefused, End
    <1>19. ASSUME NEW p \in Installer, Stop(p) PROVE Apart'
        BY <1>19 DEF Stop, End
    <1>20. ASSUME NEW p \in Installer, NEW r \in Role, KeepPassword(p, r) PROVE Apart'
        BY <1>20 DEF KeepPassword, Go
    <1>21. ASSUME NEW p \in Installer, NEW r \in Role, NewPassword(p, r) PROVE Apart'
        BY <1>21 DEF NewPassword, Go
    <1>22. ASSUME NEW p \in Installer, NEW r \in Role, AppendFails(p, r) PROVE Apart'
        BY <1>22 DEF AppendFails, End
    <1>23. ASSUME NEW p \in Installer, NEW r \in Role, SetPassword(p, r) PROVE Apart'
        BY <1>23 DEF SetPassword, Go
    <1>24. CASE UNCHANGED vars
        BY <1>24
    <1> HIDE DEF files, server, history, At, Settled, Role, InstallTypeOK,
        Apart, Busy, AfterPassword, Alter, AfterAlter
    <1> QED
        BY <1>1, <1>2, <1>3, <1>4, <1>5, <1>6, <1>7, <1>8, <1>9, <1>10, <1>11,
           <1>12, <1>13, <1>14, <1>15, <1>16, <1>17, <1>18, <1>19, <1>20, <1>21,
           <1>22, <1>23, <1>24 DEF Next

\* Every step keeps what an install has done.
LEMMA ConvergedStep ==
    ASSUME InstallTypeOK, Apart, Converged, [Next]_vars
    PROVE  Converged'
    <1> USE DEF vars, files, server, history, At, Settled, Role, InstallTypeOK,
        Apart, Busy, Converged, Password, Conf, AfterPassword, Alter, AfterAlter
    <1>1. ASSUME Edit PROVE Converged'
        BY <1>1 DEF Edit
    <1>2. ASSUME Copy PROVE Converged'
        BY <1>2 DEF Copy
    <1>3. ASSUME NEW p \in Installer, Start(p) PROVE Converged'
        BY <1>3 DEF Start, Go
    <1>4. ASSUME NEW p \in Installer, ConfMissing(p) PROVE Converged'
        BY <1>4 DEF ConfMissing, Go
    <1>5. ASSUME NEW p \in Installer, WriteTemplate(p) PROVE Converged'
        BY <1>5 DEF WriteTemplate, End
    <1>6. ASSUME NEW p \in Installer, Incomplete(p) PROVE Converged'
        BY <1>6 DEF Incomplete, End
    <1>7. ASSUME NEW p \in Installer, LoadConf(p) PROVE Converged'
        BY <1>7 DEF LoadConf, Go
    <1>8. ASSUME NEW p \in Installer, Connect(p) PROVE Converged'
        BY <1>8 DEF Connect, Go
    <1>9. ASSUME NEW p \in Installer, NotConnected(p) PROVE Converged'
        BY <1>9 DEF NotConnected, Go
    <1>10. ASSUME NEW p \in Installer, CreateDatabase(p) PROVE Converged'
        BY <1>10 DEF CreateDatabase, Go
    <1>11. ASSUME NEW p \in Installer, NoServer(p) PROVE Converged'
        BY <1>11 DEF NoServer, End
    <1>12. ASSUME NEW p \in Installer, Migrate(p) PROVE Converged'
        BY <1>12 DEF Migrate, Go
    <1>13. ASSUME NEW p \in Installer, CreateRoles(p) PROVE Converged'
        BY <1>13 DEF CreateRoles, Go
    <1>14. ASSUME NEW p \in Installer, Grant(p) PROVE Converged'
        BY <1>14 DEF Grant, Go
    <1>15. ASSUME NEW p \in Installer, TruncateEnv(p) PROVE Converged'
        BY <1>15 DEF TruncateEnv, Go
    <1>16. ASSUME NEW p \in Installer, WriteEnv(p) PROVE Converged'
        BY <1>16 DEF WriteEnv, Go
    <1>17. ASSUME NEW p \in Installer, Probe(p) PROVE Converged'
        BY <1>17 DEF Probe, End
    <1>18. ASSUME NEW p \in Installer, ProbeRefused(p) PROVE Converged'
        BY <1>18 DEF ProbeRefused, End
    <1>19. ASSUME NEW p \in Installer, Stop(p) PROVE Converged'
        BY <1>19 DEF Stop, End
    <1>20. ASSUME NEW p \in Installer, NEW r \in Role, KeepPassword(p, r) PROVE Converged'
        BY <1>20 DEF KeepPassword, Go
    <1>21. ASSUME NEW p \in Installer, NEW r \in Role, NewPassword(p, r) PROVE Converged'
        BY <1>21 DEF NewPassword, Go
    <1>22. ASSUME NEW p \in Installer, NEW r \in Role, AppendFails(p, r) PROVE Converged'
        BY <1>22 DEF AppendFails, End
    <1>23. ASSUME NEW p \in Installer, NEW r \in Role, SetPassword(p, r) PROVE Converged'
        BY <1>23 DEF SetPassword, Go
    <1>24. CASE UNCHANGED vars
        BY <1>24
    <1> HIDE DEF files, server, history, At, Settled, Role, InstallTypeOK,
        Apart, Busy, Converged, Password, Conf, AfterPassword, Alter, AfterAlter
    <1> QED
        BY <1>1, <1>2, <1>3, <1>4, <1>5, <1>6, <1>7, <1>8, <1>9, <1>10, <1>11,
           <1>12, <1>13, <1>14, <1>15, <1>16, <1>17, <1>18, <1>19, <1>20, <1>21,
           <1>22, <1>23, <1>24 DEF Next

\* Every step keeps db.env whole.
LEMMA EnvStep ==
    ASSUME InstallTypeOK, Apart, Converged, EnvWhole, [Next]_vars
    PROVE  EnvWhole'
    <1> USE SecretAssumption DEF vars, files, server, history, At, Settled,
        Role, InstallTypeOK, Apart, Busy, Converged, EnvWhole, Password,
        NoPassword, AfterPassword, Alter, AfterAlter
    <1>1. ASSUME Edit PROVE EnvWhole'
        BY <1>1 DEF Edit
    <1>2. ASSUME Copy PROVE EnvWhole'
        BY <1>2 DEF Copy
    <1>3. ASSUME NEW p \in Installer, Start(p) PROVE EnvWhole'
        BY <1>3 DEF Start, Go
    <1>4. ASSUME NEW p \in Installer, ConfMissing(p) PROVE EnvWhole'
        BY <1>4 DEF ConfMissing, Go
    <1>5. ASSUME NEW p \in Installer, WriteTemplate(p) PROVE EnvWhole'
        BY <1>5 DEF WriteTemplate, End
    <1>6. ASSUME NEW p \in Installer, Incomplete(p) PROVE EnvWhole'
        BY <1>6 DEF Incomplete, End
    <1>7. ASSUME NEW p \in Installer, LoadConf(p) PROVE EnvWhole'
        BY <1>7 DEF LoadConf, Go
    <1>8. ASSUME NEW p \in Installer, Connect(p) PROVE EnvWhole'
        BY <1>8 DEF Connect, Go
    <1>9. ASSUME NEW p \in Installer, NotConnected(p) PROVE EnvWhole'
        BY <1>9 DEF NotConnected, Go
    <1>10. ASSUME NEW p \in Installer, CreateDatabase(p) PROVE EnvWhole'
        BY <1>10 DEF CreateDatabase, Go
    <1>11. ASSUME NEW p \in Installer, NoServer(p) PROVE EnvWhole'
        BY <1>11 DEF NoServer, End
    <1>12. ASSUME NEW p \in Installer, Migrate(p) PROVE EnvWhole'
        BY <1>12 DEF Migrate, Go
    <1>13. ASSUME NEW p \in Installer, CreateRoles(p) PROVE EnvWhole'
        BY <1>13 DEF CreateRoles, Go
    <1>14. ASSUME NEW p \in Installer, Grant(p) PROVE EnvWhole'
        BY <1>14 DEF Grant, Go
    <1>15. ASSUME NEW p \in Installer, TruncateEnv(p) PROVE EnvWhole'
        BY <1>15 DEF TruncateEnv, Go
    <1>16. ASSUME NEW p \in Installer, WriteEnv(p) PROVE EnvWhole'
        BY <1>16 DEF WriteEnv, Go
    <1>17. ASSUME NEW p \in Installer, Probe(p) PROVE EnvWhole'
        BY <1>17 DEF Probe, End
    <1>18. ASSUME NEW p \in Installer, ProbeRefused(p) PROVE EnvWhole'
        BY <1>18 DEF ProbeRefused, End
    <1>19. ASSUME NEW p \in Installer, Stop(p) PROVE EnvWhole'
        BY <1>19 DEF Stop, End
    <1>20. ASSUME NEW p \in Installer, NEW r \in Role, KeepPassword(p, r) PROVE EnvWhole'
        BY <1>20 DEF KeepPassword, Go
    <1>21. ASSUME NEW p \in Installer, NEW r \in Role, NewPassword(p, r) PROVE EnvWhole'
        BY <1>21 DEF NewPassword, Go
    <1>22. ASSUME NEW p \in Installer, NEW r \in Role, AppendFails(p, r) PROVE EnvWhole'
        BY <1>22 DEF AppendFails, End
    <1>23. ASSUME NEW p \in Installer, NEW r \in Role, SetPassword(p, r) PROVE EnvWhole'
        BY <1>23 DEF SetPassword, Go
    <1>24. CASE UNCHANGED vars
        BY <1>24
    <1> HIDE DEF files, server, history, At, Settled, Role, InstallTypeOK,
        Apart, Busy, Converged, EnvWhole, Password, NoPassword, AfterPassword,
        Alter, AfterAlter
    <1> QED
        BY <1>1, <1>2, <1>3, <1>4, <1>5, <1>6, <1>7, <1>8, <1>9, <1>10, <1>11,
           <1>12, <1>13, <1>14, <1>15, <1>16, <1>17, <1>18, <1>19, <1>20, <1>21,
           <1>22, <1>23, <1>24 DEF Next

\* Every step keeps a machine that works, or takes the report back.
LEMMA WorksStep ==
    ASSUME InstallTypeOK, Apart, Converged, InstallWorks, [Next]_vars
    PROVE  InstallWorks'
    <1> USE DEF vars, files, server, history, At, Settled, Role, InstallTypeOK,
        Apart, Busy, Converged, InstallWorks, Password, AfterPassword, Alter,
        AfterAlter
    <1>1. ASSUME Edit PROVE InstallWorks'
        BY <1>1 DEF Edit
    <1>2. ASSUME Copy PROVE InstallWorks'
        BY <1>2 DEF Copy
    <1>3. ASSUME NEW p \in Installer, Start(p) PROVE InstallWorks'
        BY <1>3 DEF Start, Go
    <1>4. ASSUME NEW p \in Installer, ConfMissing(p) PROVE InstallWorks'
        BY <1>4 DEF ConfMissing, Go
    <1>5. ASSUME NEW p \in Installer, WriteTemplate(p) PROVE InstallWorks'
        BY <1>5 DEF WriteTemplate, End
    <1>6. ASSUME NEW p \in Installer, Incomplete(p) PROVE InstallWorks'
        BY <1>6 DEF Incomplete, End
    <1>7. ASSUME NEW p \in Installer, LoadConf(p) PROVE InstallWorks'
        BY <1>7 DEF LoadConf, Go
    <1>8. ASSUME NEW p \in Installer, Connect(p) PROVE InstallWorks'
        BY <1>8 DEF Connect, Go
    <1>9. ASSUME NEW p \in Installer, NotConnected(p) PROVE InstallWorks'
        BY <1>9 DEF NotConnected, Go
    <1>10. ASSUME NEW p \in Installer, CreateDatabase(p) PROVE InstallWorks'
        BY <1>10 DEF CreateDatabase, Go
    <1>11. ASSUME NEW p \in Installer, NoServer(p) PROVE InstallWorks'
        BY <1>11 DEF NoServer, End
    <1>12. ASSUME NEW p \in Installer, Migrate(p) PROVE InstallWorks'
        BY <1>12 DEF Migrate, Go
    <1>13. ASSUME NEW p \in Installer, CreateRoles(p) PROVE InstallWorks'
        BY <1>13 DEF CreateRoles, Go
    <1>14. ASSUME NEW p \in Installer, Grant(p) PROVE InstallWorks'
        BY <1>14 DEF Grant, Go
    <1>15. ASSUME NEW p \in Installer, TruncateEnv(p) PROVE InstallWorks'
        BY <1>15 DEF TruncateEnv, Go
    <1>16. ASSUME NEW p \in Installer, WriteEnv(p) PROVE InstallWorks'
        BY <1>16 DEF WriteEnv, Go
    <1>17. ASSUME NEW p \in Installer, Probe(p) PROVE InstallWorks'
        BY <1>17 DEF Probe, End
    <1>18. ASSUME NEW p \in Installer, ProbeRefused(p) PROVE InstallWorks'
        BY <1>18 DEF ProbeRefused, End
    <1>19. ASSUME NEW p \in Installer, Stop(p) PROVE InstallWorks'
        BY <1>19 DEF Stop, End
    <1>20. ASSUME NEW p \in Installer, NEW r \in Role, KeepPassword(p, r) PROVE InstallWorks'
        BY <1>20 DEF KeepPassword, Go
    <1>21. ASSUME NEW p \in Installer, NEW r \in Role, NewPassword(p, r) PROVE InstallWorks'
        BY <1>21 DEF NewPassword, Go
    <1>22. ASSUME NEW p \in Installer, NEW r \in Role, AppendFails(p, r) PROVE InstallWorks'
        BY <1>22 DEF AppendFails, End
    <1>23. ASSUME NEW p \in Installer, NEW r \in Role, SetPassword(p, r) PROVE InstallWorks'
        BY <1>23 DEF SetPassword, Go
    <1>24. CASE UNCHANGED vars
        BY <1>24
    <1> HIDE DEF files, server, history, At, Settled, Role, InstallTypeOK,
        Apart, Busy, Converged, InstallWorks, Password, AfterPassword, Alter,
        AfterAlter
    <1> QED
        BY <1>1, <1>2, <1>3, <1>4, <1>5, <1>6, <1>7, <1>8, <1>9, <1>10, <1>11,
           <1>12, <1>13, <1>14, <1>15, <1>16, <1>17, <1>18, <1>19, <1>20, <1>21,
           <1>22, <1>23, <1>24 DEF Next

\* Every step keeps the passwords in db.conf and in mind the same.
LEMMA ConfStep ==
    ASSUME InstallTypeOK, Loaded, Apart, ConfKnown, [Next]_vars
    PROVE  ConfKnown'
    <1>b. ASSUME NEW p \in Installer, NEW r \in Role, NewPassword(p, r) PROVE ConfKnown'
        BY <1>b, GeneratedKnown
    <1> USE DEF vars, files, server, history, At, Settled, Role, InstallTypeOK,
        Loaded, HasLoaded, Apart, Busy, ConfKnown, Password, Conf, Template,
        AfterPassword, Alter, AfterAlter
    <1>1. ASSUME Edit PROVE ConfKnown'
        BY <1>1 DEF Edit
    <1>2. ASSUME Copy PROVE ConfKnown'
        BY <1>2 DEF Copy
    <1>3. ASSUME NEW p \in Installer, Start(p) PROVE ConfKnown'
        BY <1>3 DEF Start, Go
    <1>4. ASSUME NEW p \in Installer, ConfMissing(p) PROVE ConfKnown'
        BY <1>4 DEF ConfMissing, Go
    <1>5. ASSUME NEW p \in Installer, WriteTemplate(p) PROVE ConfKnown'
        BY <1>5 DEF WriteTemplate, End
    <1>6. ASSUME NEW p \in Installer, Incomplete(p) PROVE ConfKnown'
        BY <1>6 DEF Incomplete, End
    <1>7. ASSUME NEW p \in Installer, LoadConf(p) PROVE ConfKnown'
        BY <1>7 DEF LoadConf, Go
    <1>8. ASSUME NEW p \in Installer, Connect(p) PROVE ConfKnown'
        BY <1>8 DEF Connect, Go
    <1>9. ASSUME NEW p \in Installer, NotConnected(p) PROVE ConfKnown'
        BY <1>9 DEF NotConnected, Go
    <1>10. ASSUME NEW p \in Installer, CreateDatabase(p) PROVE ConfKnown'
        BY <1>10 DEF CreateDatabase, Go
    <1>11. ASSUME NEW p \in Installer, NoServer(p) PROVE ConfKnown'
        BY <1>11 DEF NoServer, End
    <1>12. ASSUME NEW p \in Installer, Migrate(p) PROVE ConfKnown'
        BY <1>12 DEF Migrate, Go
    <1>13. ASSUME NEW p \in Installer, CreateRoles(p) PROVE ConfKnown'
        BY <1>13 DEF CreateRoles, Go
    <1>14. ASSUME NEW p \in Installer, Grant(p) PROVE ConfKnown'
        BY <1>14 DEF Grant, Go
    <1>15. ASSUME NEW p \in Installer, TruncateEnv(p) PROVE ConfKnown'
        BY <1>15 DEF TruncateEnv, Go
    <1>16. ASSUME NEW p \in Installer, WriteEnv(p) PROVE ConfKnown'
        BY <1>16 DEF WriteEnv, Go
    <1>17. ASSUME NEW p \in Installer, Probe(p) PROVE ConfKnown'
        BY <1>17 DEF Probe, End
    <1>18. ASSUME NEW p \in Installer, ProbeRefused(p) PROVE ConfKnown'
        BY <1>18 DEF ProbeRefused, End
    <1>19. ASSUME NEW p \in Installer, Stop(p) PROVE ConfKnown'
        BY <1>19 DEF Stop, End
    <1>20. ASSUME NEW p \in Installer, NEW r \in Role, KeepPassword(p, r) PROVE ConfKnown'
        BY <1>20 DEF KeepPassword, Go
    <1>21. ASSUME NEW p \in Installer, NEW r \in Role, NewPassword(p, r) PROVE ConfKnown'
        BY <1>b, <1>21
    <1>22. ASSUME NEW p \in Installer, NEW r \in Role, AppendFails(p, r) PROVE ConfKnown'
        BY <1>22 DEF AppendFails, End
    <1>23. ASSUME NEW p \in Installer, NEW r \in Role, SetPassword(p, r) PROVE ConfKnown'
        BY <1>23 DEF SetPassword, Go
    <1>24. CASE UNCHANGED vars
        BY <1>24
    <1> HIDE DEF files, server, history, At, Settled, Role, InstallTypeOK,
        Loaded, HasLoaded, Apart, Busy, ConfKnown, Password, Conf, Template,
        AfterPassword, Alter, AfterAlter
    <1> QED
        BY <1>1, <1>2, <1>3, <1>4, <1>5, <1>6, <1>7, <1>8, <1>9, <1>10, <1>11,
           <1>12, <1>13, <1>14, <1>15, <1>16, <1>17, <1>18, <1>19, <1>20, <1>21,
           <1>22, <1>23, <1>24 DEF Next

\* Every step keeps the passwords of the roles in db.conf.
LEMMA KeptStep ==
    ASSUME InstallTypeOK, Loaded, Apart, ConfKnown, PasswordsKept, [Next]_vars
    PROVE  PasswordsKept'
    <1>b. ASSUME NEW p \in Installer, NEW r \in Role, NewPassword(p, r) PROVE PasswordsKept'
        BY <1>b, GeneratedKept
    <1> USE SecretAssumption DEF vars, files, server, history, At, Settled,
        Role, InstallTypeOK, Loaded, HasLoaded, Apart, Busy, ConfKnown,
        PasswordsKept, Password, Conf, Template, NoPassword, AfterPassword,
        Alter, AfterAlter
    <1>1. ASSUME Edit PROVE PasswordsKept'
        BY <1>1 DEF Edit
    <1>2. ASSUME Copy PROVE PasswordsKept'
        BY <1>2 DEF Copy
    <1>3. ASSUME NEW p \in Installer, Start(p) PROVE PasswordsKept'
        BY <1>3 DEF Start, Go
    <1>4. ASSUME NEW p \in Installer, ConfMissing(p) PROVE PasswordsKept'
        BY <1>4 DEF ConfMissing, Go
    <1>5. ASSUME NEW p \in Installer, WriteTemplate(p) PROVE PasswordsKept'
        BY <1>5 DEF WriteTemplate, End
    <1>6. ASSUME NEW p \in Installer, Incomplete(p) PROVE PasswordsKept'
        BY <1>6 DEF Incomplete, End
    <1>7. ASSUME NEW p \in Installer, LoadConf(p) PROVE PasswordsKept'
        BY <1>7 DEF LoadConf, Go
    <1>8. ASSUME NEW p \in Installer, Connect(p) PROVE PasswordsKept'
        BY <1>8 DEF Connect, Go
    <1>9. ASSUME NEW p \in Installer, NotConnected(p) PROVE PasswordsKept'
        BY <1>9 DEF NotConnected, Go
    <1>10. ASSUME NEW p \in Installer, CreateDatabase(p) PROVE PasswordsKept'
        BY <1>10 DEF CreateDatabase, Go
    <1>11. ASSUME NEW p \in Installer, NoServer(p) PROVE PasswordsKept'
        BY <1>11 DEF NoServer, End
    <1>12. ASSUME NEW p \in Installer, Migrate(p) PROVE PasswordsKept'
        BY <1>12 DEF Migrate, Go
    <1>13. ASSUME NEW p \in Installer, CreateRoles(p) PROVE PasswordsKept'
        BY <1>13 DEF CreateRoles, Go
    <1>14. ASSUME NEW p \in Installer, Grant(p) PROVE PasswordsKept'
        BY <1>14 DEF Grant, Go
    <1>15. ASSUME NEW p \in Installer, TruncateEnv(p) PROVE PasswordsKept'
        BY <1>15 DEF TruncateEnv, Go
    <1>16. ASSUME NEW p \in Installer, WriteEnv(p) PROVE PasswordsKept'
        BY <1>16 DEF WriteEnv, Go
    <1>17. ASSUME NEW p \in Installer, Probe(p) PROVE PasswordsKept'
        BY <1>17 DEF Probe, End
    <1>18. ASSUME NEW p \in Installer, ProbeRefused(p) PROVE PasswordsKept'
        BY <1>18 DEF ProbeRefused, End
    <1>19. ASSUME NEW p \in Installer, Stop(p) PROVE PasswordsKept'
        BY <1>19 DEF Stop, End
    <1>20. ASSUME NEW p \in Installer, NEW r \in Role, KeepPassword(p, r) PROVE PasswordsKept'
        BY <1>20 DEF KeepPassword, Go
    <1>21. ASSUME NEW p \in Installer, NEW r \in Role, NewPassword(p, r) PROVE PasswordsKept'
        BY <1>b, <1>21
    <1>22. ASSUME NEW p \in Installer, NEW r \in Role, AppendFails(p, r) PROVE PasswordsKept'
        BY <1>22 DEF AppendFails, End
    <1>23. ASSUME NEW p \in Installer, NEW r \in Role, SetPassword(p, r) PROVE PasswordsKept'
        BY <1>23 DEF SetPassword, Go
    <1>24. CASE UNCHANGED vars
        BY <1>24
    <1> HIDE DEF files, server, history, At, Settled, Role, InstallTypeOK,
        Loaded, HasLoaded, Apart, Busy, ConfKnown, PasswordsKept, Password,
        Conf, Template, NoPassword, AfterPassword, Alter, AfterAlter
    <1> QED
        BY <1>1, <1>2, <1>3, <1>4, <1>5, <1>6, <1>7, <1>8, <1>9, <1>10, <1>11,
           <1>12, <1>13, <1>14, <1>15, <1>16, <1>17, <1>18, <1>19, <1>20, <1>21,
           <1>22, <1>23, <1>24 DEF Next

\* Every step keeps the DSNs of all agents working.
LEMMA AgentsStep ==
    ASSUME InstallInv, [Next]_vars
    PROVE  AgentsWork'
    <1> USE SecretAssumption DEF vars, files, server, history, At, Settled,
        Role, InstallInv, InstallTypeOK, Loaded, HasLoaded, Apart, Busy,
        Converged, EnvWhole, ConfKnown, PasswordsKept, AgentsWork, InstallWorks,
        Password, Conf, Template, NoPassword, AfterPassword, Alter, AfterAlter
    <1>1. ASSUME Edit PROVE AgentsWork'
        BY <1>1 DEF Edit
    <1>2. ASSUME Copy PROVE AgentsWork'
        BY <1>2 DEF Copy
    <1>3. ASSUME NEW p \in Installer, Start(p) PROVE AgentsWork'
        BY <1>3 DEF Start, Go
    <1>4. ASSUME NEW p \in Installer, ConfMissing(p) PROVE AgentsWork'
        BY <1>4 DEF ConfMissing, Go
    <1>5. ASSUME NEW p \in Installer, WriteTemplate(p) PROVE AgentsWork'
        BY <1>5 DEF WriteTemplate, End
    <1>6. ASSUME NEW p \in Installer, Incomplete(p) PROVE AgentsWork'
        BY <1>6 DEF Incomplete, End
    <1>7. ASSUME NEW p \in Installer, LoadConf(p) PROVE AgentsWork'
        BY <1>7 DEF LoadConf, Go
    <1>8. ASSUME NEW p \in Installer, Connect(p) PROVE AgentsWork'
        BY <1>8 DEF Connect, Go
    <1>9. ASSUME NEW p \in Installer, NotConnected(p) PROVE AgentsWork'
        BY <1>9 DEF NotConnected, Go
    <1>10. ASSUME NEW p \in Installer, CreateDatabase(p) PROVE AgentsWork'
        BY <1>10 DEF CreateDatabase, Go
    <1>11. ASSUME NEW p \in Installer, NoServer(p) PROVE AgentsWork'
        BY <1>11 DEF NoServer, End
    <1>12. ASSUME NEW p \in Installer, Migrate(p) PROVE AgentsWork'
        BY <1>12 DEF Migrate, Go
    <1>13. ASSUME NEW p \in Installer, CreateRoles(p) PROVE AgentsWork'
        BY <1>13 DEF CreateRoles, Go
    <1>14. ASSUME NEW p \in Installer, Grant(p) PROVE AgentsWork'
        BY <1>14 DEF Grant, Go
    <1>15. ASSUME NEW p \in Installer, TruncateEnv(p) PROVE AgentsWork'
        BY <1>15 DEF TruncateEnv, Go
    <1>16. ASSUME NEW p \in Installer, WriteEnv(p) PROVE AgentsWork'
        BY <1>16 DEF WriteEnv, Go
    <1>17. ASSUME NEW p \in Installer, Probe(p) PROVE AgentsWork'
        BY <1>17 DEF Probe, End
    <1>18. ASSUME NEW p \in Installer, ProbeRefused(p) PROVE AgentsWork'
        BY <1>18 DEF ProbeRefused, End
    <1>19. ASSUME NEW p \in Installer, Stop(p) PROVE AgentsWork'
        BY <1>19 DEF Stop, End
    <1>20. ASSUME NEW p \in Installer, NEW r \in Role, KeepPassword(p, r) PROVE AgentsWork'
        BY <1>20 DEF KeepPassword, Go
    <1>21. ASSUME NEW p \in Installer, NEW r \in Role, NewPassword(p, r) PROVE AgentsWork'
        BY <1>21 DEF NewPassword, Go
    <1>22. ASSUME NEW p \in Installer, NEW r \in Role, AppendFails(p, r) PROVE AgentsWork'
        BY <1>22 DEF AppendFails, End
    <1>23. ASSUME NEW p \in Installer, NEW r \in Role, SetPassword(p, r) PROVE AgentsWork'
        BY <1>23 DEF SetPassword, Go
    <1>24. CASE UNCHANGED vars
        BY <1>24
    <1> HIDE DEF files, server, history, At, Settled, Role, InstallInv,
        InstallTypeOK, Loaded, HasLoaded, Apart, Busy, Converged, EnvWhole,
        ConfKnown, PasswordsKept, AgentsWork, InstallWorks, Password, Conf,
        Template, NoPassword, AfterPassword, Alter, AfterAlter
    <1> QED
        BY <1>1, <1>2, <1>3, <1>4, <1>5, <1>6, <1>7, <1>8, <1>9, <1>10, <1>11,
           <1>12, <1>13, <1>14, <1>15, <1>16, <1>17, <1>18, <1>19, <1>20, <1>21,
           <1>22, <1>23, <1>24 DEF Next

----------------------------------------------------------------------------

\* Before the first install.
LEMMA InstallInitInv == Init => InstallInv
    <1> SUFFICES ASSUME Init PROVE InstallInv
        OBVIOUS
    <1> USE SecretAssumption DEF Init, Template, NoPassword, Role
    <1>1. InstallTypeOK
        BY DEF InstallTypeOK, Conf, Password, At, Settled
    <1>2. Loaded /\ Apart /\ Converged
        BY DEF Loaded, HasLoaded, Apart, Busy, Converged, Settled
    <1>3. EnvWhole /\ ConfKnown
        BY DEF EnvWhole, ConfKnown, HasLoaded
    <1>4. InstallWorks /\ PasswordsKept /\ AgentsWork
        BY DEF InstallWorks, PasswordsKept, AgentsWork
    <1> QED
        BY <1>1, <1>2, <1>3, <1>4 DEF InstallInv

\* Every step keeps the invariant.
LEMMA InstallStep == InstallInv /\ [Next]_vars => InstallInv'
    BY TypeStep, LoadedStep, ApartStep, ConvergedStep, EnvStep, WorksStep, ConfStep,
       KeptStep, AgentsStep DEF InstallInv

\* The invariant of any number of installs that overlap, die, fail and are
\* edited around (install.go:46-189).
THEOREM InstallCorrect == Spec => []InstallInv
    <1>1. Init => InstallInv
        BY InstallInitInv
    <1>2. InstallInv /\ [Next]_vars => InstallInv'
        BY InstallStep
    <1> QED
        BY <1>1, <1>2, PTL DEF Spec

\* An install that was alone and reports success leaves a machine that works,
\* whatever earlier ones left behind (install.go:139-181).
THEOREM MachineWorks == Spec => []InstallWorks
    <1>1. InstallInv => InstallWorks
        BY DEF InstallInv
    <1> QED
        BY <1>1, InstallCorrect, PTL

\* While db.conf is as install writes it and installs do not overlap, a role's
\* password is the one in db.conf, wherever installs die (install.go:147-163).
THEOREM PasswordsStay == Spec => []PasswordsKept
    <1>1. InstallInv => PasswordsKept
        BY DEF InstallInv
    <1> QED
        BY <1>1, InstallCorrect, PTL

\* Then no agent, here or on another machine, meets a DSN that is turned away
\* (README.md:34-38, install.go:164-171).
THEOREM AgentsLetIn == Spec => []AgentsWork
    <1>1. InstallInv => AgentsWork
        BY DEF InstallInv
    <1> QED
        BY <1>1, InstallCorrect, PTL

\* What it takes for the promise of install.go:147 to hold of every success: an
\* editor that ends its files with a newline, appends that are not cut off, and
\* one install at a time, with no passwords in its environment; installs may still
\* die anywhere.
THEOREM PersistedIfUndisturbed ==
    ASSUME Overlap = FALSE, IOFaults = FALSE, Unterminated = FALSE,
           Overrides = FALSE
    PROVE  Spec => []PasswordsPersisted
    <1> DEFINE I == InstallInv /\ ~ spoilt
    <1>1. Init => ~ spoilt
        BY DEF Init
    <1>2. InstallInv /\ ~ spoilt /\ [Next]_vars => ~ spoilt'
        <2> SUFFICES ASSUME InstallInv, ~ spoilt, [Next]_vars PROVE ~ spoilt'
            OBVIOUS
        <2>1. CASE Edit
            <3>1. ~ conf'.open
                <4>1. PICK a \in {"right", "wrong"}, o \in BOOLEAN, k \in {"note", "admin"} :
                        /\ o => Unterminated
                        /\ conf' = [conf EXCEPT !.admin = a, !.open = o,
                                                !.last = IF @ \in Role THEN @ ELSE k]
                    BY <2>1 DEF Edit
                <4> QED
                    BY <4>1
            <3> QED
                BY <2>1, <3>1 DEF Edit
        <2>2. ASSUME NEW p \in Installer, Start(p) PROVE ~ spoilt'
            BY <2>2 DEF Start
        <2>3. ASSUME NEW p \in Installer, NEW r \in Role, AppendFails(p, r) PROVE ~ spoilt'
            BY <2>3 DEF AppendFails
        <2>4. CASE UNCHANGED spoilt
            BY <2>4
        <2>5. ASSUME NEW p \in Installer, LoadConf(p) PROVE ~ spoilt'
            <3>1. PICK w \in Password :
                    (\A r \in Role : w[r] = conf.pw[r]) /\ spoilt' = (spoilt \/ w # conf.pw)
                BY <2>5 DEF LoadConf
            <3>2. conf.pw \in Password
                BY DEF InstallInv, InstallTypeOK, Conf
            <3>3. w = conf.pw
                BY <3>1, <3>2 DEF Password
            <3> QED
                BY <3>1, <3>3
        <2> QED
            BY <2>1, <2>2, <2>3, <2>4, <2>5
               DEF Next, vars, history, Copy, ConfMissing, WriteTemplate, Incomplete,
                   Connect, NotConnected, CreateDatabase, NoServer, Migrate, CreateRoles, Grant,
                   TruncateEnv, WriteEnv, Probe, ProbeRefused, Stop, KeepPassword, NewPassword,
                   SetPassword
    <1>3. InstallInv /\ ~ spoilt => PasswordsPersisted
        BY DEF InstallInv, PasswordsKept, PasswordsPersisted, InstallWorks, EnvWhole
    <1> QED
        BY <1>1, <1>2, <1>3, InstallCorrect, PTL DEF Spec

============================================================================
