------------------------------ MODULE Install ------------------------------
(***************************************************************************)
(* The command install (cmd/autospec-db/install.go): from db.conf, which an*)
(* operator edits, to a migrated database, two roles with passwords and    *)
(* db.env, which agents read and which the operator copies to the other    *)
(* machines.  install generates the passwords of the roles once, keeps     *)
(* them by appending them to db.conf, and may be run again at any time.    *)
(* Migrations are one step here; module Migrate has their detail.          *)
(***************************************************************************)
EXTENDS Naturals

CONSTANTS
    Installer,      \* processes that run install on the one machine
    Secret,         \* what may be a password of a role
    Overlap,        \* may two of them be under way at once?
    Stops,          \* may they die, or a call to the server fail?
    IOFaults,       \* may an append to db.conf fail or be cut off?
    Unterminated,   \* may an editor save db.conf without a last newline?
    Overrides       \* may an install find passwords in its environment?

ASSUME SecretAssumption == {"none", "absent"} \cap Secret = {}
ASSUME InstallAssumption == {Overlap, Stops, IOFaults, Unterminated, Overrides} \subseteq BOOLEAN

VARIABLES
    conf,       \* db.conf
    env,        \* db.env: the password of each role's DSN
    copies,     \* the db.env files of other machines
    db,         \* the database: "absent", "empty", "migrated"
    role,       \* role[r]: the password the server has for r
    granted,    \* all grants are there
    at,         \* at[p]: where p is in cmdInstall
    mem,        \* mem[p]: what p has loaded from db.conf, or generated
    together,   \* installers that were not alone since they started
    reported,   \* history: the last install ended well and was alone
    spoilt      \* history: db.conf was left unterminated, installs overlapped, or
                \* one had a password from elsewhere

server == <<db, role, granted>>
files == <<conf, env, copies>>
history == <<reported, spoilt>>
vars == <<files, server, at, mem, together, history>>

Role == {"emit", "read"}
Password == [Role -> Secret \cup {"none"}]

\* db.conf as ParseKV and LoadConf see it: the operator's settings as one, the
\* passwords ("none" for a missing or empty one), what the last line is (a
\* comment, a setting, a password), and whether that line lacks its newline.
Conf == [there : BOOLEAN, admin : {"unset", "right", "wrong"},
         pw : Password, last : {"note", "admin"} \cup Role, open : BOOLEAN]

NoPassword == [r \in Role |-> "none"]

\* The template ends with a comment and a newline; no file has nothing either.
Template(there) == [there |-> there, admin |-> "unset", pw |-> NoPassword,
                    last |-> "note", open |-> FALSE]

\* Places after both passwords are known.
Settled == {"roles", "alter_emit", "alter_read", "grant", "env", "fill", "probe"}

At == {"idle", "stat", "template", "connect", "create", "reconnect", "migrate"}
      \cup Role \cup Settled

InstallTypeOK ==
    /\ conf \in Conf
    /\ env \in Password
    /\ copies \subseteq Password
    /\ db \in {"absent", "empty", "migrated"}
    /\ role \in [Role -> Secret \cup {"absent", "none"}]
    /\ granted \in BOOLEAN
    /\ at \in [Installer -> At]
    /\ mem \in [Installer -> Conf]
    /\ \A p \in Installer :
           at[p] \in Settled => mem[p].pw \in [Role -> Secret]
    /\ together \subseteq Installer
    /\ {reported, spoilt} \subseteq BOOLEAN

Init ==
    /\ conf = Template(FALSE)
    /\ env = NoPassword
    /\ copies = {}
    /\ db \in {"absent", "empty"}
    /\ role = [r \in Role |-> "absent"]
    /\ granted = FALSE
    /\ at = [p \in Installer |-> "idle"]
    /\ mem = [p \in Installer |-> Template(FALSE)]
    /\ together = {}
    /\ reported = FALSE
    /\ spoilt = FALSE

----------------------------------------------------------------------------

Busy == {p \in Installer : at[p] # "idle"}

\* p goes on from place "from" to place "to".
Go(p, from, to) == at[p] = from /\ at' = [at EXCEPT ![p] = to]

\* p ends and forgets what it has loaded.
End(p) ==
    /\ at' = [at EXCEPT ![p] = "idle"]
    /\ mem' = [mem EXCEPT ![p] = Template(FALSE)]
    /\ together' = together \ {p}

\* Somebody runs install.
Start(p) ==
    /\ Overlap \/ Busy = {}
    /\ Go(p, "idle", "stat")
    /\ together' = IF Busy = {} THEN together ELSE together \cup Busy \cup {p}
    /\ reported' = FALSE
    /\ spoilt' = (spoilt \/ Busy # {})
    /\ UNCHANGED <<files, server, mem>>

\* No db.conf yet: write the template and ask the operator to edit it.
ConfMissing(p) ==
    /\ ~ conf.there
    /\ Go(p, "stat", "template")
    /\ UNCHANGED <<files, server, mem, together, history>>

\* os.WriteFile creates and fills the file in one step here: an empty db.conf,
\* which a death in between leaves, has no setting any more than the template has.
WriteTemplate(p) ==
    /\ at[p] = "template"
    /\ conf' = Template(TRUE)
    /\ End(p)
    /\ UNCHANGED <<env, copies, server, history>>

\* A setting is missing.
Incomplete(p) ==
    /\ at[p] = "stat"
    /\ conf.there /\ conf.admin = "unset"
    /\ End(p)
    /\ UNCHANGED <<files, server, history>>

\* The settings of db.conf, over which p's environment wins.  It may hold the
\* password of a role, which p then neither generates nor appends.
LoadConf(p) ==
    /\ conf.there /\ conf.admin # "unset"
    /\ Go(p, "stat", "connect")
    /\ \E w \in Password :
        /\ \A r \in Role : w[r] = conf.pw[r] \/ (Overrides /\ w[r] # "none")
        /\ mem' = [mem EXCEPT ![p] = [conf EXCEPT !.pw = w]]
        /\ spoilt' = (spoilt \/ w # conf.pw)
    /\ UNCHANGED <<files, server, together, reported>>

----------------------------------------------------------------------------

\* The admin reaches the database, at once or after it has been created.
Connect(p) ==
    /\ mem[p].admin = "right" /\ db # "absent"
    /\ Go(p, "connect", "migrate") \/ Go(p, "reconnect", "migrate")
    /\ UNCHANGED <<files, server, mem, together, history>>

\* The first attempt fails, for whatever reason: look on the server.
NotConnected(p) ==
    /\ Stops \/ mem[p].admin # "right" \/ db = "absent"
    /\ Go(p, "connect", "create")
    /\ UNCHANGED <<files, server, mem, together, history>>

CreateDatabase(p) ==
    /\ mem[p].admin = "right"
    /\ Go(p, "create", "reconnect")
    /\ db' = IF db = "absent" THEN "empty" ELSE db
    /\ UNCHANGED <<files, role, granted, mem, together, history>>

\* The settings are wrong: the server cannot be reached with them.
NoServer(p) ==
    /\ at[p] = "create"
    /\ mem[p].admin # "right"
    /\ End(p)
    /\ UNCHANGED <<files, server, history>>

Migrate(p) ==
    /\ Go(p, "migrate", "emit")
    /\ db' = "migrated"
    /\ UNCHANGED <<files, role, granted, mem, together, history>>

----------------------------------------------------------------------------

\* The password of emit is settled first, then that of read, then the roles.
AfterPassword == [emit |-> "read", read |-> "roles"]
Alter == [emit |-> "alter_emit", read |-> "alter_read"]
AfterAlter == [emit |-> "alter_read", read |-> "grant"]

Known == {conf.pw[r] : r \in Role} \cup {role[r] : r \in Role}
         \cup {env[r] : r \in Role} \cup {c[r] : c \in copies, r \in Role}
         \cup {mem[p].pw[r] : p \in Installer, r \in Role}

\* Text that the system has not seen before: a generated password, or what
\* two lines that have run into one make of a value.
Fresh == Secret \ Known

\* What appending "KEY=s" and a newline for role r makes of file c: a new line,
\* unless the last line has no newline, which then swallows the new one.
Appended(c, r, s) ==
    IF ~ c.open
    THEN {[c EXCEPT !.pw[r] = s, !.last = r]}
    ELSE CASE c.last = "note" -> {[c EXCEPT !.open = FALSE]}
           [] c.last = "admin" -> {[c EXCEPT !.open = FALSE, !.admin = "wrong"]}
           [] OTHER -> {[c EXCEPT !.open = FALSE, !.pw[c.last] = g] :
                            g \in Fresh \ {s}}

\* Mutation of KeepPassword: every install generates new passwords.
RotatePassword(p, r) ==
    /\ mem[p].pw[r] # "none"
    /\ Go(p, r, AfterPassword[r])
    /\ \E s \in Fresh :
        /\ mem' = [mem EXCEPT ![p].pw[r] = s]
        /\ conf' \in Appended(conf, r, s)
    /\ UNCHANGED <<env, copies, server, together, history>>

\* Mutation of KeepPassword: an empty password is as good as any.
EmptyPassword(p, r) ==
    /\ Go(p, r, AfterPassword[r])
    /\ UNCHANGED <<files, server, mem, together, history>>

KeepPassword(p, r) ==
    /\ mem[p].pw[r] # "none"
    /\ Go(p, r, AfterPassword[r])
    /\ UNCHANGED <<files, server, mem, together, history>>

\* Mutation of NewPassword: the password is not appended to db.conf.
ForgottenPassword(p, r) ==
    /\ mem[p].pw[r] = "none"
    /\ Go(p, r, AfterPassword[r])
    /\ \E s \in Fresh : mem' = [mem EXCEPT ![p].pw[r] = s]
    /\ UNCHANGED <<files, server, together, history>>

NewPassword(p, r) ==
    /\ mem[p].pw[r] = "none"
    /\ Go(p, r, AfterPassword[r])
    /\ \E s \in Fresh :
        /\ mem' = [mem EXCEPT ![p].pw[r] = s]
        /\ conf' \in Appended(conf, r, s)
    /\ UNCHANGED <<env, copies, server, together, history>>

\* The append fails: nothing of the line is in the file, or its beginning, up
\* to some place in the key or in the value, without a newline.
AppendFails(p, r) ==
    /\ IOFaults
    /\ at[p] = r /\ mem[p].pw[r] = "none"
    /\ \/ UNCHANGED conf
       \/ ~ conf.open /\ \E k \in {"note", r} :
              conf' = [conf EXCEPT !.last = k, !.open = TRUE]
       \/ \E s \in Fresh : \E c \in Appended(conf, r, s) :
              conf' = [c EXCEPT !.open = TRUE]
    /\ spoilt' = (spoilt \/ conf' # conf)
    /\ End(p)
    /\ UNCHANGED <<env, copies, server, reported>>

----------------------------------------------------------------------------

CreateRoles(p) ==
    /\ Go(p, "roles", Alter["emit"])
    /\ role' = [r \in Role |-> IF role[r] = "absent" THEN "none" ELSE role[r]]
    /\ UNCHANGED <<files, db, granted, mem, together, history>>

SetPassword(p, r) ==
    /\ Go(p, Alter[r], AfterAlter[r])
    /\ role' = [role EXCEPT ![r] = mem[p].pw[r]]
    /\ UNCHANGED <<files, db, granted, mem, together, history>>

Grant(p) ==
    /\ Go(p, "grant", "env")
    /\ granted' = TRUE
    /\ UNCHANGED <<files, db, role, mem, together, history>>

\* os.WriteFile empties db.env and then fills it.
TruncateEnv(p) ==
    /\ Go(p, "env", "fill")
    /\ env' = NoPassword
    /\ UNCHANGED <<conf, copies, server, mem, together, history>>

\* Mutation of WriteEnv: the passwords come from db.conf as it is now.
WriteEnvFromConf(p) ==
    /\ Go(p, "fill", "probe")
    /\ env' = conf.pw
    /\ UNCHANGED <<conf, copies, server, mem, together, history>>

WriteEnv(p) ==
    /\ Go(p, "fill", "probe")
    /\ env' = mem[p].pw
    /\ UNCHANGED <<conf, copies, server, mem, together, history>>

\* An event goes in through the emit role: install reports success.
Probe(p) ==
    /\ at[p] = "probe"
    /\ db = "migrated" /\ granted /\ role["emit"] = mem[p].pw["emit"]
    /\ reported' = (p \notin together)
    /\ End(p)
    /\ UNCHANGED <<files, server, spoilt>>

\* The probe is turned away: another install has set another password.
ProbeRefused(p) ==
    /\ at[p] = "probe"
    /\ role["emit"] # mem[p].pw["emit"]
    /\ End(p)
    /\ UNCHANGED <<files, server, history>>

\* p dies, or a call fails or times out, and p ends with an error.
Stop(p) ==
    /\ Stops
    /\ at[p] # "idle"
    /\ End(p)
    /\ UNCHANGED <<files, server, history>>

----------------------------------------------------------------------------

\* The operator edits the settings and leaves the passwords alone.
Edit ==
    /\ Busy = {} /\ conf.there
    /\ \E a \in {"right", "wrong"}, o \in BOOLEAN, k \in {"note", "admin"} :
        /\ o => Unterminated
        /\ conf' = [conf EXCEPT !.admin = a, !.open = o,
                                !.last = IF @ \in Role THEN @ ELSE k]
    /\ spoilt' = (spoilt \/ conf'.open)
    /\ UNCHANGED <<env, copies, server, at, mem, together, reported>>

\* After a success the operator copies db.env to another machine.
Copy ==
    /\ reported
    /\ copies' = copies \cup {env}
    /\ UNCHANGED <<conf, env, server, at, mem, together, history>>

Next ==
    \/ Edit \/ Copy
    \/ \E p \in Installer :
        \/ Start(p) \/ ConfMissing(p) \/ WriteTemplate(p) \/ Incomplete(p) \/ LoadConf(p)
        \/ Connect(p) \/ NotConnected(p) \/ CreateDatabase(p) \/ NoServer(p)
        \/ Migrate(p) \/ CreateRoles(p) \/ Grant(p)
        \/ TruncateEnv(p) \/ WriteEnv(p) \/ Probe(p) \/ ProbeRefused(p) \/ Stop(p)
        \/ \E r \in Role :
            KeepPassword(p, r) \/ NewPassword(p, r) \/ AppendFails(p, r) \/ SetPassword(p, r)

Spec == Init /\ [][Next]_vars

----------------------------------------------------------------------------

\* An install that was alone and reports success has left a machine that
\* works, whatever state of the files and the server earlier installs left
\* behind: the schema and the grants are there, and both DSNs of db.env carry
\* the passwords of their roles (install.go:139-181).
InstallWorks ==
    reported => db = "migrated" /\ granted /\ \A r \in Role : env[r] = role[r]

\* The passwords that install has given to the roles are the ones in db.conf,
\* so that the next install gives them the same ones ("passwords generated
\* once, persisted in db.conf", install.go:147; README.md:31-33).
PasswordsPersisted == reported => \A r \in Role : conf.pw[r] = role[r]

\* So it is as long as db.conf always ended with a newline, no two installs
\* overlapped and none had other passwords in its environment, wherever installs
\* die: once a role has a password, it is the one in db.conf.
PasswordsKept ==
    spoilt \/ \A r \in Role : role[r] \in Secret => conf.pw[r] = role[r]

\* Then every db.env that was copied to another machine keeps working, however
\* often install is run again; and the one of this machine, which an agent may
\* read between two steps of an install, carries no DSN or one that works,
\* never one that the server turns away (README.md:34-38, install.go:164-171).
AgentsWork ==
    spoilt \/ /\ \A c \in copies : \A r \in Role : c[r] = role[r]
              /\ env = NoPassword \/ \A r \in Role : env[r] = role[r]

----------------------------------------------------------------------------
(***************************************************************************)
(* The inductive invariant.                                                *)
(***************************************************************************)

\* db.conf is behind p: p has loaded it.
HasLoaded(p) == at[p] \notin {"idle", "stat", "template"}

\* What p knows when it comes to a place.
Loaded ==
    /\ conf.there \/ conf = Template(FALSE)
    /\ \A p \in Installer :
        /\ HasLoaded(p) => conf.there
        /\ at[p] = "read" => mem[p].pw["emit"] \in Secret

\* Installs that are under way at the same time know of each other.
Apart ==
    /\ \A p, q \in Busy : p # q => p \in together
    /\ reported => Busy = {}
    /\ spoilt \/ together = {}

\* What p has done when it comes to a place, and, when it is alone, finds so.
Converged ==
    \A p \in Installer :
        /\ at[p] \in Role \cup Settled => db = "migrated"
        /\ at[p] \in {"env", "fill", "probe"} => granted
        /\ p \notin together =>
            /\ at[p] \in {"alter_read", "grant", "env", "fill", "probe"} =>
                   role["emit"] = mem[p].pw["emit"]
            /\ at[p] \in {"grant", "env", "fill", "probe"} =>
                   role["read"] = mem[p].pw["read"]
            /\ at[p] = "probe" => env = mem[p].pw

\* A db.env has both DSNs or none, and has them only when the rest is there.
EnvWhole ==
    /\ env = NoPassword \/ (env \in [Role -> Secret] /\ db = "migrated" /\ granted)
    /\ reported => env \in [Role -> Secret]
    /\ copies \subseteq [Role -> Secret]

\* As long as db.conf is as install writes it, its passwords are those that the
\* one install under way has in mind.
ConfKnown ==
    spoilt \/ /\ ~ conf.open
              /\ \A p \in Installer :
                    /\ HasLoaded(p) => mem[p].pw = conf.pw
                    /\ at[p] = "template" => ~ conf.there

InstallInv ==
    /\ InstallTypeOK
    /\ Loaded
    /\ Apart
    /\ Converged
    /\ EnvWhole
    /\ ConfKnown
    /\ InstallWorks
    /\ PasswordsKept
    /\ AgentsWork
============================================================================
