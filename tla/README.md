# A TLA+ model of autospec-db

autospec-db puts the telemetry events of autospec runs into a PostgreSQL table.
A run calls `autospec-db emit` for every event; the command must be quick and
must never fail the run. When the server cannot be reached the event goes to a
spool file of the machine, and later commands drain that file into the server.
The schema is brought up by `install`, `migrate` or `scripts/apply.sh`.

This directory models that system in TLA+, checks it with TLC on small
instances and proves the main safety properties with TLAPS for every size.
`PROJECT.json` lists the components, the runs, the mutated definitions that
show that each property can fail, the source lines of every definition, the
hazards of the code, and the theorems.

## 1. The system

| Component | State | Operations | Talks to |
|---|---|---|---|
| spool (`internal/spool`) | data file, flock of a sidecar file | `Append`, `Drain`, `Stat` | the file system; `Drain` calls an ingest callback while it holds the flock |
| emit (`cmd/autospec-db/emit.go`) | none of its own, one process per event | build, connect, ingest, then append or drain | spool, server |
| drain (`drain.go`) | none, a process that is run by hand or by a timer | connect, drain without a limit | spool, server |
| db client and `ingest` (`internal/db`, `migrations/001`) | table `events_raw` with a unique index on `event_uuid` | `Ingest`, `IsServerError`, `Connect` | PostgreSQL |
| migrate (`internal/migrate`, `migrate.go`) | table `schema_migrations`, the objects of the schema | check, execute, record, per file | PostgreSQL |
| `scripts/apply.sh` | the same tables | the same, statement by statement through psql | PostgreSQL |
| migration files, rollbacks | the objects they define or drop | | read by the two above, or by psql |
| install | `db.conf`, `db.env`, the role passwords | write template, generate and append passwords, converge roles, migrate, write env, probe | migrate, roles, config, db |
| roles (`roles/bootstrap-roles.sql`) | roles, passwords, grants | one script | PostgreSQL |
| config, payload | none | parse files; build one event | emit, drain, install, doctor |
| the views `sessions`, `stalled_sessions`, `model_token_usage` | none, they are read from `events_raw` | order, group, sum | the command `sessions`, people |
| doctor | none | look at one part after the other, report, exit 0 or 1 | config, server, migrate's table |

How they interact: all processes of one machine share the spool through its
flock. All machines share the server. Nothing else is shared, there are no
threads: every concurrency in this system is between processes, and a process
that dies loses its memory and its flock, not its files.

Behaviours that are hard here:

* two processes that read, change and replace the same file; a callback to the
  network in the middle of that critical section; death at every step of it;
* a timeout that says nothing about whether the statement commits, so that an
  event is delivered twice, or late, or while it also waits in the spool;
* errors that are taken for another kind (a server that refuses everything
  against an event that is bad);
* check-then-act on `schema_migrations` by migrators that nothing keeps apart,
  and a file that is executed but not yet recorded; rollbacks that cross them;
* views that take the time of arrival for the time of an event;
* a file with passwords that an operator edits and install appends to, and a
  second file made from it that agents read while it is rewritten;
* quotes on the way from a file through a connection string to the driver;
* the spool's byte cap and the limit and deadline of a drain at their edges.

What makes each component correct:

* spool: the file changes only by whole appends and whole drains, in the order
  of a queue; no line is doubled or lost but for the byte cap; one holder.
* emit and drain: an emitted event is stored, or waits, or was given up for one
  of three named reasons; it is stored at most once; emit ends; the spool
  empties when the server is up.
* migrate and apply.sh: what is recorded is there; files are recorded in
  order; when all are recorded the schema is what the files say together; two
  migrators that collide do not leave the work undone.
* install: after an install that was alone and succeeded the machine works,
  whatever was there before; passwords are generated once, so that copies of `db.env`
  keep working; no agent meets a DSN that is turned away.
* doctor: what it calls healthy works, although it saw the parts at different times.
* views: the last event of a session is the last one, a session that is not
  stalled lives, tokens are summed once; but for events that came late.
* config and payload: what the user wrote, in a file, a variable or an argument,
  is what arrives.

## 2. The modules

```
 Lines <- Spool (implements LossyQueue)     Server
             \                              /
              `----------- Pipeline -------'
                          /        \
                    Sessions       Usage         Migrate  Schema    Install <- Doctor    Inputs
                          \        /                \      /
                          MCSessions                MCMigrate

 SpoolProofs <- PipelineProofs <- SessionsProofs, UsageProofs
 InstallProofs <- DoctorProofs     MigrateProofs     InputsProofs
```

`A <- B` says that B extends A, and `XProofs` extends `X`. Pipeline implements Delivery. Every module that is checked has an MC module.

**Lines** has the lines of a spool file and the rule of the byte cap. A line is
an identity with a size. `TotalBytes` counts the set of the bytes of all lines,
which is their sum without recursion. `Overflows` is the condition of the `for`
loop in `Append`; `Newest` is what that loop leaves.

**Spool** is `spool.go`. `op[p]` says where process `p` is: waiting for the flock
(`lock`), before the read, in the overflow loop of `Append` (`trim`), in the
loop of `Drain` (`loop`), before `writeAtomic` (`write`), before the deferred
unlock. `mem[p]` is the process's copy of the lines. One action is one system
call that others can see, or one turn of a loop; `ReadFail`, `WriteFail` and
`LockFail` are the early returns, `SpoolCrash` is a death at any of these places.
`writeAtomic` is one step because nobody opens the temporary file: until the
rename the old file is the data file. `LineReplayed`, `LineDropped` and `LineKept` are the
three answers of the callback. A missing file and an empty one read the same.
A drain that takes nothing still rewrites the file, as the code does.

**LossyQueue** is what the spool promises: `Enqueue` puts a line at the tail and
drops as few of the oldest as the cap asks for, `Dequeue` takes some from the
head, and nothing else ever happens to the queue. `Spool` implements it with
`queue <- file`.

**Server** is PostgreSQL as this code uses it: `db.Ingest` returns nil, or a
`PgError` (`IngestRefused`), or another error (`IngestLost`). After the last one
the statement may still commit (`LateCommit`) or be cancelled. `health` is
`up`, `refusing` (connections are accepted and every statement gets a `PgError`:
read-only, shutting down, `ingest` missing, disk full) or `down`. `Uuid[e]` is
the `event_uuid`, which a `k=v` argument may set, so that events may share one.

**Pipeline** composes Spool and Server with the two commands. `cmd[p]` is the
place in `cmdEmit` or `cmdDrain`. `EmitStored` ingests and calls
`Drain`, `EmitFailed` and `EmitUnreachable` call `Append`; `Replayed`, `Refused`
and `Kept` join one turn of the drain loop to one answer of the server, as the
callbacks of `emit.go` and `drain.go` do. A context deadline is not counted in seconds: each
may fire at any moment (`IngestLost`, `EmitUnreachable`, `DrainEnd` of a process in `Timed`).
The variables `overflowed`, `unspooled` and `poisoned` are history: they record
why a line is gone, at the step where that is decided, and no guard reads them. An
`Append` that trims its copy and dies before the rename has recorded lines that are
still in the file.

**Delivery** is what emit and drain promise of an event, without processes, locks, copies or timeouts: a row
is added only if its `event_uuid` has none (`Store`); the event starts to wait at most once and before its emit returns
(`Park`), and stops waiting only stored or lost (`NoneForgotten`); it can be lost only while it waits or its emit has not
returned (`Lose`); an emit that returns leaves its event stored, waiting or lost (`Return`). Pipeline
implements it with the rows of `raw`, the lines of `file`, the three histories as what is lost and the emits that are
`done` as those that returned.

**Migrate** is `migrate.Apply` and `apply.sh`, together with an operator's rollbacks. `at[p]`
is the place in `Apply`, `next[p]` the file, `done[p]` how many of
its statements psql has executed. The binary executes a file with one `Exec`
(simple protocol: one implicit transaction), `apply.sh` executes a statement at
a time (`psql -f` commits each). `made[o]` is the file whose definition of object
`o` is in the server. `Record` inserts the row, `RecordConflict` is the primary
key violation, and `Collide` is an error that PostgreSQL may give to two
sessions that create or replace the same object at the same moment. A statement whose client times out
has either committed or not at that moment; a statement that lingers and
commits after a later run is not modelled.

An operator's rollback (`UndoStart`, `UndoDrop`, `UndoRecord`)
is psql on a file of `migrations/rollback`, statement by statement, and may break off
(`broken`). `undone` and `crossed` are history: which files were rolled back, and which
were executed while they were rolled back. `UndoAssumption` asks that a file that has a rollback shares
no object with another file. It holds of the repository: the rollbacks of 005 and
006 drop what only 005 and 006 make.

**Schema** has the objects of the six migration files in the order their
statements make them, and what the two rollbacks drop.

**Sessions** puts the views `sessions` and `stalled_sessions` on top of the pipeline. `raw` is in the
order of arrival, which is what `received_at` orders by; `LastRow` is the first
element of `array_agg(... order by received_at desc) filter (...)`, `Stalled` and `State`
are the other view and the state column of the command. The variables are history: `emitted` is the order in which
events were built, `spooled` and `overtaken` name the events that may arrive after
later ones, `window` says what is older than the threshold.

**Usage** is the view `model_token_usage`: a sum over the rows, with the regex that lets digits through
and the cast that raises on a number that does not fit `Bits` bits.

**Install** is `cmdInstall`, one action per call that changes a file or the server.
`conf` is `db.conf` as `ParseKV` sees it: the operator's settings as one value (`unset`
as in the template, `right` or `wrong`), the two passwords, what the last line is
and whether it lacks its newline. `Appended` is `appendConf`: it adds a line, or, when
the last line is open, makes the new text part of it, which hides it in a comment or spoils a
setting or the other password. `LoadConf` overlays what an install finds in its
environment (`Overrides`). `TruncateEnv` and `WriteEnv` are the two steps of
`os.WriteFile`. `mem[p]` is the configuration that an install has loaded and keeps using.
`together`, `reported` and `spoilt` are history: which installs were not alone, whether
the last install reported success and was alone, and whether something has happened after which
`db.conf` may not have the passwords of the roles (an open last line, an overlap, a password from the environment).
Migrations are one step here. Operators edit `db.conf` only while no install is at work
and leave the passwords alone.

**Doctor** adds the checks that decide doctor's exit code, one step each, to the installs of
the machine. A failed check settles the exit code, so that the model's doctor ends there; what
doctor prints for information is left out, and so are `AUTOSPEC_DB_DSN` and `AUTOSPEC_DB_READ_DSN` in doctor's own environment, which win
over `db.env` (`LetsIn`).

**Inputs** is what emit and install make of what they are given: `payload.Build` with its chain of session
variables and the arguments merged on top, `ParseKV` with quotes, `export` and lines that are too long for
the scanner, the environment over the file, `EmitDSN`, and `escapeConninfo` against
the driver that reads the string (external: by the rules of libpq). It is the one module with
values as sequences of characters, because its properties are about quoting. The characters that quoting is about
have names (`"space"`, `"single"`, `"double"`, `"backslash"`); `Char` may have any others. Two settings stand for those of
install, the password and the name of the database; install refuses when one of them is empty (`Incomplete`) and connects otherwise. The driver reads the string `text`
from position `pos` on, one character a step, and is in one of four places: before a keyword, in it, or in a value, plain or
quoted. `Place` says where `escapeConninfo` puts a character: behind the special ones before it, each of which has a
backslash, and the single quotes, which have another. A behaviour is one
command and is over when it connects, is refused or is silent.

An operator that a comment calls a mutation is a bug the code could have had (a
shared lock, a missing poison guard, a row recorded before its file). It is in
no specification; put in the place of the definition it names, it makes TLC
report the property that `PROJECT.json` lists with it.

## 3. The runs

Run one with `tlc -config MCSpool.cfg MCSpool.tla`.

| Run | Checks | Instance |
|---|---|---|
| `spool` | `LockInv`, `SpoolBounded`, `DrainAccounts`, `DrainLimited`, `AppendFits`, `SpoolInv`, and that Spool implements LossyQueue (`QueueSpec`) | two processes, three lines of sizes 1, 2 and 6; I/O errors and deaths |
| `pipeline` | `StoredOnce`, `SpooledOnce`, `OnlyBadDataDropped`, `LastShown`, `AliveEmits`, `UsageExact` | three emits of one session, one of bad data that has its `event_uuid` in common with another; timeouts, late commits, replays, deaths |
| `pipeline_faults` | `PipelineInv`, `NoSilentLoss`, `LeavesWithReason`, that Pipeline implements Delivery (`DeliverySpec`), `EmitEnds`, `SpoolDrained` | two emits, one of bad data, and a drain command that is run again and again, cap one line; I/O errors, deaths, a server that may refuse everything |
| `migrate` | `MigrateInv`, `RecordedIsMade`, `RecordedInOrder`, `SerialSchemaCurrent`, `MigrationsComplete` | the files 002, 003, 005, 006 and the rollback of 005; two migrators, binary or script, that overlap, collide, die |
| `install` | `InstallInv`, `InstallWorks`, `PasswordsKept`, `AgentsWork` | two installs at once, four passwords, deaths, failing appends, files without a last newline |
| `doctor` | `DoctorInv`, `DoctorTruthful` | one install at a time, two passwords, deaths, passwords from the environment, files without a last newline |
| `inputs` | `InputsInv`, `EventAsAsked`, `SilentWithoutDsn`, `SettingsArrive` | every value of up to three characters among a letter, a space, both quotes and the backslash, in every spelling; the empty password and a missing database among them |
| `emit_blocks` | `EmitEnds` is violated | only the emits are known to run |
| `poison_guard` | `OnlyBadDataDropped` is violated | a server that may refuse everything |
| `migrate_race` | `SchemaCurrent` is violated | the six files, two migrators that overlap |
| `install_glued` | `PasswordsPersisted` is violated | one install at a time, an editor that saves without a last newline |
| `usage_breaks` | `UsageReadable` is violated | one token count that fits no bigint (of four bits) |

Why these bounds are enough:

* Spool: the hard cases need two processes (a holder and
  one that waits with its own copy still to read), a line over the cap by itself, and
  two lines that fit and do not fit with it. The file never has more lines than the cap
  in units plus one, so a third process only repeats the roles of two.
* Pipeline: in the run `pipeline` the spool holds two lines, and the third append overflows; one of its three events is bad data, so that
  drains meet a poison line beside lines that only time out (`OnlyBadDataDropped`); the other two can arrive in either order,
  late or not. That two events which both can be stored share an identifier is left to the proofs, which have any `Uuid`. An emit drains two lines
  at most there. In `pipeline_faults` the cap is one line, so that every second append overflows while processes
  fail and die; a spool of several lines with deaths is what the proofs add, and for `SpoolDrained` the line at the head
  is the only one that can stop a drain: once it is gone the next one is at the head. The threshold of the stalled view passes once (`Pass`): only the last
  time counts, and any state may come before it.
* Migrations: of the six files the run takes one that makes several objects (002), one that replaces
  an object of an earlier file (003), one with a rollback of several statements (005) and one behind
  it (006). Nobody replaces or drops what 001 and 004 make. `migrate_race` has all six.
* Install: two installs with two passwords each use all four, which are
  reused once nothing knows them any more. The run leaves passwords from the environment out
  (`Overrides`), which multiply its states; the run `doctor` has them, for one install at
  a time, and checks `InstallInv` as well. Passwords and installs are
  interchangeable, hence the symmetry.
* Inputs: three characters hold every pair of neighbours and both ends. The width of a bigint is four
  bits in `usage_breaks`.

The proofs of section 5 cover all sizes, and both what `install` and what `pipeline` leave
out (`Overrides`, I/O errors under the views). The models have no state constraint: an `emit`
runs once per event, `MaxBytes` bounds the file, the lists of files and statements bound
the counters. Deadlock is checked where the system can always go on (a
spool, a drain command, a migrator, an install or a doctor that can be started
again); in `pipeline`, `usage_breaks` and `inputs` there are only commands that end.

### Fairness

* `Runs(p)` is weak fairness of the steps of `p`'s code, as a scheduler gives it: a system call
  returns and a deadline fires, so a connect or an ingest ends one way or the other;
  which way is never owed. I/O errors, deaths and the early returns of `Skip`
  are steps of the environment and get no fairness. Strong fairness of
  `SpoolLock` is what the kernel gives to a waiter of a flock
  that is freed again and again: waiters are woken in turn.
* `FairSpec` gives this to every process, `EmitFairSpec` only to emits: nothing in the
  code makes a stopped drain command go on.
* `SpoolDrained` has its premises in itself (`Draining`), because the operator is no process: somebody keeps
  starting the drain command (`DrainAgain`, `Begin`), a connect or an ingest that could succeed
  again and again does so some time, and from some time on the command is no longer killed or
  refused by the disk (`Harmed`). The code has no answer for a line whose ingest
  always times out; that line stays at the head (see the hazards).
* `Migrate!FairSpec` is weak fairness of each migrator that runs; nobody has to
  start one, and `Collide` is never owed.

## 4. Where the code and its words differ

* `emit_blocks`: emit "must NEVER block a run" (`emit.go:16-17`). The flock has no timeout and `Drain` holds
  it over every call to the server, so an emit waits as long as a drain command is
  stopped or busy.
* `poison_guard`: "data errors drop the offending line on drain, connection errors
  keep it" (`README.md:77-84`). `IsServerError` is true of every `PgError`, so a server that is shutting
  down, read-only or not migrated makes a drain drop good events.
* `migrate_race`: "idempotent, re-runs only apply new ones" (`README.md:31`). A migrator that has found 002
  unrecorded may execute it after another has executed and recorded 002 and
  003. It then fails on its insert, but the sessions view has the definition of 002,
  every file is recorded and no later run repairs it.
* `install_glued`: "passwords generated once, persisted in db.conf" (`install.go:147`). The append does
  not look at the file's last byte. On a file without a last newline the password is lost in
  the template's closing comment or spoils the last setting, while install reports success.
* `usage_breaks`: "a single bad event can never break every read" (`006_model_token_usage.sql:12-14`). The regex lets a
  number of any length through to `::bigint`, which raises.

One more difference is in no run, and `SilentWithoutDsn` leaves it out by name (`BlankDsn`): "with no DSN, `emit` exits 0 doing
nothing" (`README.md:73`, and `emit.go:46`). A line `AUTOSPEC_DB_DSN=` of `db.env` with nothing behind it is a DSN for
`EmitDSN` (`config.go:138-152`), unlike a variable of the environment that is set to nothing; emit then connects with an empty string,
to wherever the driver's defaults point. The model has that connect (`DsnOfFile`).

## 5. What is proved

All theorems are for every set of processes, lines, sizes, caps and limits that the
named assumptions allow: a cap above zero (`New` and `Default` see to it), sizes
above zero (each line has its newline), `NoProc` and `NoLine` distinct from the rest, a spelling of db.conf's that
means its value (`CallAssumption`), rollbacks that keep to their own objects (`UndoAssumption`).
Finiteness of the sets is not assumed.

* **SpoolProofs** begins with facts about suffixes and the byte count: the tail of a suffix, that a suffix has no more
  bytes than the whole, that a trimmed copy which no
  longer overflows is `Newest` of what it came from. `SpoolInv` is inductive. `LockInv` makes a holder's copy and the file move
  together: while `p` holds the flock no other process can write, so what
  `DrainAccounts` and `AppendTrims` say of `mem[p]` and `file` stays true until `p` itself writes.
  `Phases` says which operation a process is in, without which the two would be confused. From it
  follow `SpoolTyped`, `MutualExclusion`, `FileBounded`, `DrainComplete`, `DrainWithinLimit`,
  `AppendKeepsNewest`, and the refinement `SpoolIsQueue`: only `Write` changes the file, and
  by `AppendFits` and `DrainAccounts` that step is an `Enqueue`, a `Dequeue` or a stutter.
* **PipelineProofs**: `PipelineInv` is inductive. Beside `SpoolInv` it needs `Custody` (a copy that is
  going to replace the file has every line of the file, or there is a reason), `Commands` (an emit that
  drains is already stored, and one that is about to return is accounted for) and
  `Unspooled` (an event that may still be appended is not in the file). From it: `PipelineTyped`,
  `DeliveredOnce`, `EventsAccounted`, `NeverSpooledTwice`, the action property
  `NothingLeavesUnexplained`, and `OnlyBadDataLost` for a server that never answers
  `refusing`. `PipelineIsSpool` shows that the composition implements `SpoolSpec`, so that the
  spool's theorems hold of it. `PipelineDelivers` is the refinement of Delivery, step by step: an insert is a `Store`
  (`InsertDelivers`), what a process names as lost waits or is its own (`HeadIsHeld`, `NamedIsLost`), replacing the file
  is a `Park` of the appended event or a `Clear` (`WriteDelivers`: `Custody` gives the reasons, `Unspooled` that the event does not wait yet),
  an end of emit is a `Return` (`EndDelivers`), all else is not seen (`QuietStutters`).
* **SessionsProofs**: `SessionsInv` is inductive, for any events, sessions and processes that die. The views are about
  the order of rows, so the invariant is about orders. `InTurn` says that an event on its way that is not
  late is the last one that its session built, and was built within the threshold;
  `Handed` that what is in the spool, in a copy or in an argument is late. A row is
  added only for an event on its way or one of the spool (`RowsEffect`), hence `RowsInOrder`
  and `RowsInWindow`: rows that are not late come in the order of building. `SessionsIsPipeline` brings `PipelineInv` in.
  From it `LastEventShown` and `ActiveIsAlive`.
* **MigrateProofs**: `MigrateInv` is inductive for migrators and rollbacks that overlap and stop anywhere, for
  every list of files. `Behind` says that a migrator at a file
  has seen a row for every earlier one that was not rolled back, `Executed` that what it counts as executed has
  had its effect, `Crossings` that a rollback beside an execution of its file is known as one. From
  these `VersionsInOrder` and `RecordsAreTrue`. For migrators that do not
  overlap `InTurn` says that the definition of an object only moves to later files, which needs `Defined` (an
  object is as a file has it that makes it); from it `SchemaIsCurrent`.
* **InstallProofs**: `InstallInv` is inductive for any number of installs, any passwords and every fault of the module.
  `Converged` says what an install that is alone finds done at each place; `Apart` that installs that
  overlap know it; `EnvWhole` that `db.env` has both DSNs or none; `ConfKnown` that, while nothing
  spoilt `db.conf`, its passwords are those the install under way has in mind. From it `MachineWorks`, `PasswordsStay`
  and `AgentsLetIn`. `PersistedIfUndisturbed` states the documented promise that `install_glued` refutes, with
  the assumptions that it takes.
* **DoctorProofs**: what doctor has seen stays so (`Seen`): no install takes back a
  schema, a grant, or a role's having a password. From it and `InstallInv` follows `HealthyIsTrue`.

* **UsageProofs**: `TokensCountedOnce` follows from `PipelineInv`. An event that was emitted, does not wait and was not given
  up can only be accounted for by a row of its `event_uuid`, and by `StoredOnce` there is one row of each. The sum is the number of the pairs
  of a row or event and one of its tokens, as `TotalBytes` is for lines; a bijection between the pairs of the rows and those of the
  events that the rows hold shows both numbers equal, with no induction and no order of the rows.
* **InputsProofs**: `InputsInv` is inductive, for values, files and argument lists of any length. The loops over arguments and
  lines have as invariant what the prefix behind them says (`GatheredOK`: the last pair of a name wins, no other name is set).
  For the driver, `ReadingOK` relates the place of the driver in `text` to a position in the value: in a quoted value it has
  read `n` characters of the user's and stands right behind the `Place` of the `n`-th. That
  `Place` puts the characters of `Escaped` apart and in order is proved with cardinalities of sets, which replaces the
  induction over the value. `CompleteOK` says that install connects only with settings that are all there. From it `EventBuilt`, `EmitFindsDsn` and `ValuesArrive`.

Every invariant and action property that a passing run checks is a theorem, and so are both refinements. `TypeOK` and `SessionsInv` are
proved (`SpoolTyped`, `SessionsCorrect`) and belong to no run: the first is part of `SpoolInv`, the second speaks of the order that the
histories keep, and what it says about the code is checked as `LastShown` and `AliveEmits`. Only model-checked: the
liveness properties `EmitEnds`, `SpoolDrained` and `MigrationsComplete`, which are out of the prover's reach, and the five
violations of section 4, which are counterexamples.

## 6. What is not modelled

* A power failure. The code renames without syncing the file or the directory; the model has
  deaths of processes, after which the kernel's view of the file is whole.
* `Stat`, the server version, TLS and the layout of what is printed: read and shown, nothing depends on them.
* The command dispatch: a switch without state.
* Temporary files that a dead process leaves: nobody reads or removes them.
* The views `features`, `resilience_events`, `resilience_session` and `mission_events`: they select fields of
  single events or order by a time, as the modelled ones do.
* `roles/bootstrap-roles.sql` run by hand, with passwords of the operator's own; install
  with settings of the admin from its environment. A statement of a migration that lingers after its client gave up.
* A DSN in the environment of doctor. Doctor would then try that DSN instead of the one of `db.env`, and its report speaks of the
  commands that have the same environment.
* The moment between creating and filling the template of `db.conf` (`WriteTemplate`): an empty file has no setting either, and the
  next install refuses it in the same way.
* The default of `sslmode`, the same check for an empty admin password in migrate and doctor, paths of files, characters that are space to the driver and not to `escapeConninfo`
  (a vertical tab).
* `install.sh`, CI, release and deployment files: not part of the running system.

## 7. The plan

Done, in the order of what matters most: Lines and Spool with LossyQueue; Server and
Pipeline; Migrate with Schema and the rollbacks; Install and Doctor; Sessions and Usage; Inputs; Delivery; the proofs of
all of these.

Next:

1. **Roles by hand**: an operator who runs `bootstrap-roles.sql` between installs; a second
   machine that runs install with a `db.conf` of its own.
2. The remaining views, as far as they order or group.
3. Proofs: what an install promises, as an abstract specification that Install implements.
