------------------------------ MODULE Migrate ------------------------------
(***************************************************************************)
(* Applying the migrations: migrate.Apply (internal/migrate/migrate.go, run*)
(* by the commands migrate and install), its shell twin scripts/apply.sh,  *)
(* and the rollbacks in migrations/rollback, which an operator runs.  For  *)
(* every file in order: is it recorded?  If not, execute it, then record   *)
(* it.  The check, the execution and the recording are transactions of     *)
(* their own, and nothing keeps two migrators apart.                       *)
(*                                                                         *)
(* The binary sends a file as one query, which PostgreSQL executes as one  *)
(* transaction; psql commits after each statement of the file.             *)
(***************************************************************************)
EXTENDS Naturals, Sequences, FiniteSets, SequencesExt

CONSTANTS
    Migrator,   \* processes that migrate
    Script,     \* Script[f]: the objects that file f makes, in its order
    Undo,       \* Undo[f]: the objects that the rollback of f drops
    Tools,      \* what migrators run: "binary", "script" (apply.sh)
    Overlap,    \* may two migrators or rollbacks be under way at once?
    Stops       \* may migrators and rollbacks die or fail half-way?

File == DOMAIN Script
Object == UNION {ToSet(Script[f]) : f \in File}

\* The number of a file stands for its name; 0 is no file.
ASSUME ScriptAssumption == Script \in Seq(Seq(Object))
\* A file that has a rollback shares no object with another file, and its
\* rollback drops only its objects.
ASSUME UndoAssumption ==
    /\ DOMAIN Undo \subseteq File
    /\ \A f \in DOMAIN Undo :
        /\ Undo[f] \in Seq(Object) /\ ToSet(Undo[f]) \subseteq ToSet(Script[f])
        /\ \A g \in File \ {f} : ToSet(Script[f]) \cap ToSet(Script[g]) = {}
ASSUME ToolAssumption ==
    Tools \subseteq {"binary", "script"} /\ Overlap \in BOOLEAN /\ Stops \in BOOLEAN

VARIABLES
    recorded,   \* the files that have a row in schema_migrations
    made,       \* made[o]: the file whose definition of o is there, 0 for none
    at,         \* at[p]: where p is in Apply
    tool,       \* tool[p]: what p runs
    next,       \* next[p]: the file p is at
    done,       \* done[p]: how many statements of this file p has executed
    undo,       \* the file whose rollback is under way, 0 for none
    dropped,    \* how many statements of that rollback are executed
    broken,     \* recorded files whose rollback broke off and was not run again
    undone,     \* history: files that were rolled back and not recorded again
    crossed,    \* history: files that were executed while they were rolled back
    mishaps     \* history: "overlap" of two migrators, "stop" of one

migrators == <<at, tool, next, done>>
rollback == <<undo, dropped, broken>>
history == <<undone, crossed, mishaps>>
vars == <<recorded, made, migrators, rollback, history>>

At == {"idle", "boot", "check", "exec", "record"}

MigrateTypeOK ==
    /\ recorded \subseteq File
    /\ made \in [Object -> File \cup {0}]
    /\ at \in [Migrator -> At]
    /\ tool \in [Migrator -> Tools \cup {"none"}]
    /\ next \in [Migrator -> Nat]
    /\ done \in [Migrator -> Nat]
    /\ \A p \in Migrator :
           next[p] \in File => done[p] <= Len(Script[next[p]])
    /\ undo \in DOMAIN Undo \cup {0}
    /\ dropped \in Nat
    /\ broken \subseteq DOMAIN Undo
    /\ undone \subseteq DOMAIN Undo
    /\ crossed \subseteq DOMAIN Undo
    /\ mishaps \subseteq {"overlap", "stop"}

Init ==
    /\ recorded = {}
    /\ made = [o \in Object |-> 0]
    /\ at = [p \in Migrator |-> "idle"]
    /\ tool = [p \in Migrator |-> "none"]
    /\ next = [p \in Migrator |-> 0]
    /\ done = [p \in Migrator |-> 0]
    /\ undo = 0
    /\ dropped = 0
    /\ broken = {}
    /\ undone = {}
    /\ crossed = {}
    /\ mishaps = {}

----------------------------------------------------------------------------
(***************************************************************************)
(* A migrator.  An operator commented as a mutation is a bug that the code *)
(* could have had and serves only to confirm that TLC would report it.     *)
(***************************************************************************)

Busy == {p \in Migrator : at[p] # "idle"}
Quiet == undo = 0 /\ Busy = {}

\* The migrators that execute f or are about to record it.
AtFile(f) == {p \in Migrator : at[p] \in {"exec", "record"} /\ next[p] = f}

\* p goes on from place "from" to place "to".
Go(p, from, to) == at[p] = from /\ at' = [at EXCEPT ![p] = to]

\* p is done with its file and goes on to the next one.
NextFile(p) ==
    /\ next' = [next EXCEPT ![p] = @ + 1]
    /\ done' = [done EXCEPT ![p] = 0]

\* What an ended process leaves behind: nothing of its own.
End(p) ==
    /\ at' = [at EXCEPT ![p] = "idle"]
    /\ tool' = [tool EXCEPT ![p] = "none"]
    /\ next' = [next EXCEPT ![p] = 0]
    /\ done' = [done EXCEPT ![p] = 0]

\* Somebody runs install, migrate or apply.sh, and it connects.
Start(p, t) ==
    /\ Overlap \/ Quiet
    /\ Go(p, "idle", "boot")
    /\ tool' = [tool EXCEPT ![p] = t]
    /\ mishaps' = mishaps \cup (IF Busy = {} THEN {} ELSE {"overlap"})
    /\ UNCHANGED <<recorded, made, next, done, rollback, undone, crossed>>

\* Schema and tracking table are made if they are not there; the files are
\* sorted by name.
Bootstrap(p) ==
    /\ Go(p, "boot", "check")
    /\ next' = [next EXCEPT ![p] = 1]
    /\ UNCHANGED <<recorded, made, tool, done, rollback, history>>

\* Mutation of AlreadyApplied: a query that fails counts as "applied".
AppliedOnError(p) ==
    /\ at[p] = "check"
    /\ next[p] \in File
    /\ NextFile(p)
    /\ UNCHANGED <<recorded, made, at, tool, rollback, history>>

AlreadyApplied(p) ==
    /\ at[p] = "check"
    /\ next[p] \in recorded
    /\ NextFile(p)
    /\ UNCHANGED <<recorded, made, at, tool, rollback, history>>

\* Mutation of NotRecorded: the row is written before the file is executed.
RecordedFirst(p) ==
    /\ Go(p, "check", "exec")
    /\ next[p] \in File \ recorded
    /\ recorded' = recorded \cup {next[p]}
    /\ UNCHANGED <<made, tool, next, done, rollback, history>>

\* Mutation of NotRecorded: the answer of the check is not looked at.
NotLookedAt(p) ==
    /\ Go(p, "check", "exec")
    /\ next[p] \in File
    /\ UNCHANGED <<recorded, made, tool, next, done, rollback, history>>

NotRecorded(p) ==
    /\ Go(p, "check", "exec")
    /\ next[p] \in File \ recorded
    /\ UNCHANGED <<recorded, made, tool, next, done, rollback, history>>

\* The binary executes the whole file in one transaction.
Exec(p) ==
    /\ tool[p] = "binary"
    /\ Go(p, "exec", "record")
    /\ made' = [o \in Object |->
                   IF o \in ToSet(Script[next[p]]) THEN next[p] ELSE made[o]]
    /\ UNCHANGED <<recorded, tool, next, done, rollback, history>>

\* psql executes the next statement of the file and commits it ...
ExecStatement(p) ==
    /\ tool[p] = "script"
    /\ at[p] = "exec"
    /\ done[p] < Len(Script[next[p]])
    /\ made' = [made EXCEPT ![Script[next[p]][done[p] + 1]] = next[p]]
    /\ done' = [done EXCEPT ![p] = @ + 1]
    /\ UNCHANGED <<recorded, at, tool, next, rollback, history>>

\* ... until the file ends.
ExecEnd(p) ==
    /\ tool[p] = "script"
    /\ Go(p, "exec", "record")
    /\ done[p] = Len(Script[next[p]])
    /\ UNCHANGED <<recorded, made, tool, next, done, rollback, history>>

Record(p) ==
    /\ Go(p, "record", "check")
    /\ next[p] \notin recorded
    /\ recorded' = recorded \cup {next[p]}
    /\ NextFile(p)
    /\ undone' = undone \ {next[p]}
    /\ UNCHANGED <<made, tool, rollback, crossed, mishaps>>

\* Somebody else has recorded the file in the meantime: the insert violates
\* the primary key, and p ends with an error.
RecordConflict(p) ==
    /\ at[p] = "record"
    /\ next[p] \in recorded
    /\ End(p)
    /\ UNCHANGED <<recorded, made, rollback, history>>

\* Another migrator has just committed what p is about to make.
Outrun(p) ==
    \E q \in Migrator \ {p} :
        \/ at[p] = "boot" /\ at[q] = "check" /\ next[q] = 1
        \/ /\ at[p] = "exec" /\ next[q] = next[p]
           /\ at[q] = "record" \/ (at[q] = "exec" /\ done[q] > done[p])

\* If both did so at the same time, PostgreSQL may refuse the later one (a
\* catalogue row that both change): p ends with an error.
Collide(p) ==
    /\ Outrun(p)
    /\ End(p)
    /\ UNCHANGED <<recorded, made, rollback, history>>

\* Mutation of Finish: the last file is left out.
FinishEarly(p) ==
    /\ at[p] = "check"
    /\ next[p] + 1 \notin File
    /\ End(p)
    /\ UNCHANGED <<recorded, made, rollback, history>>

\* No file is left.
Finish(p) ==
    /\ at[p] = "check"
    /\ next[p] \notin File
    /\ End(p)
    /\ UNCHANGED <<recorded, made, rollback, history>>

\* p dies, loses its connection or runs into its timeout, before or after the
\* transaction it is waiting for.
Stop(p) ==
    /\ Stops
    /\ at[p] # "idle"
    /\ End(p)
    /\ mishaps' = mishaps \cup {"stop"}
    /\ UNCHANGED <<recorded, made, rollback, undone, crossed>>

----------------------------------------------------------------------------

\* An operator runs the rollback of f, which is recorded or being applied, with
\* psql, statement by statement.
UndoStart(f) ==
    /\ undo = 0
    /\ f \in recorded \/ AtFile(f) # {}
    /\ Overlap \/ Quiet
    /\ undo' = f
    /\ crossed' = IF AtFile(f) = {} THEN crossed \ {f} ELSE crossed \cup {f}
    /\ UNCHANGED <<recorded, made, migrators, dropped, broken, undone, mishaps>>

UndoDrop ==
    /\ undo # 0
    /\ dropped < Len(Undo[undo])
    /\ made' = [made EXCEPT ![Undo[undo][dropped + 1]] = 0]
    /\ dropped' = dropped + 1
    /\ UNCHANGED <<recorded, migrators, undo, broken, history>>

\* Mutation of UndoRecord: the row stays.
UndoForgotten ==
    /\ undo # 0
    /\ dropped = Len(Undo[undo])
    /\ undo' = 0 /\ dropped' = 0
    /\ UNCHANGED <<recorded, made, migrators, broken, history>>

\* The last statement deletes the row, so that f is applied again some time.
UndoRecord ==
    /\ undo # 0
    /\ dropped = Len(Undo[undo])
    /\ recorded' = recorded \ {undo}
    /\ undone' = undone \cup {undo}
    /\ broken' = broken \ {undo}
    /\ undo' = 0 /\ dropped' = 0
    /\ UNCHANGED <<made, migrators, crossed, mishaps>>

\* The rollback breaks off; the operator has to run it again.
UndoStop ==
    /\ Stops
    /\ undo # 0
    /\ broken' = broken \cup ({undo} \cap recorded)
    /\ undo' = 0 /\ dropped' = 0
    /\ UNCHANGED <<recorded, made, migrators, history>>

----------------------------------------------------------------------------

Step(p) ==
    \/ Bootstrap(p) \/ AlreadyApplied(p) \/ NotRecorded(p)
    \/ Exec(p) \/ ExecStatement(p) \/ ExecEnd(p)
    \/ Record(p) \/ RecordConflict(p) \/ Finish(p)

Operator ==
    \/ \E f \in DOMAIN Undo : UndoStart(f)
    \/ UndoDrop \/ UndoRecord \/ UndoStop

Next ==
    \/ \E p \in Migrator :
        \/ Step(p) \/ Collide(p) \/ Stop(p)
        \/ \E t \in Tools : Start(p, t)
    \/ Operator

Spec == Init /\ [][Next]_vars

\* A migrator that runs goes on: each of its queries is answered some time.
FairSpec == Spec /\ \A p \in Migrator : WF_vars(Step(p))

----------------------------------------------------------------------------

\* What is recorded is in the server: every object of a recorded file exists,
\* wherever migrators overlap and stop, except while a rollback of that very
\* file is under way, after it broke off, and after it crossed an execution of
\* the file (exec before record, migrate.go:63-70 and apply.sh:34-36).
RecordedIsMade ==
    \A f \in recorded \ (broken \cup crossed \cup {undo}) :
        \A i \in DOMAIN Script[f] : made[Script[f][i]] # 0

\* The last file that defines o.
Latest(o) ==
    CHOOSE f \in File :
        /\ o \in ToSet(Script[f])
        /\ \A g \in File : o \in ToSet(Script[g]) => g <= f

\* When every file is recorded and nobody is at work, every object is as the
\* last file that defines it wants it: files take effect in their order
\* (migrate.go:26-27).
SchemaCurrent ==
    recorded = File /\ Quiet /\ broken = {} /\ crossed = {} =>
        \A o \in Object : made[o] = Latest(o)

\* So it is as long as no two migrators overlapped, wherever they and the
\* rollbacks stop (migrate.go:44-72, apply.sh:24-38).
SerialSchemaCurrent == "overlap" \in mishaps \/ SchemaCurrent

\* Files are recorded in their order, even by migrators that overlap, stop and
\* cross rollbacks: of the files before a recorded one only those are missing
\* that were rolled back themselves (migrate.go:44-72).
RecordedInOrder ==
    \A f \in recorded : \A g \in File : g < f => g \in recorded \cup undone

\* Migrators that collide never all give up: once one has started, every file
\* gets recorded, unless a migrator is stopped or the file is rolled back
\* (README.md:30-38).
MigrationsComplete ==
    Busy # {} ~> (recorded \cup undone = File \/ "stop" \in mishaps)

----------------------------------------------------------------------------
(***************************************************************************)
(* The inductive invariant, for migrators and rollbacks that overlap.      *)
(***************************************************************************)

\* A migrator at file f has seen or made a row for every file before f.
Behind ==
    \A p \in Migrator :
        at[p] \in {"check", "exec", "record"} =>
            /\ next[p] > 0
            /\ at[p] # "check" => next[p] \in File
            /\ \A g \in File : g < next[p] => g \in recorded \cup undone

\* The statements that a migrator counts as executed have had their effect.
Executed ==
    \A p \in Migrator :
        /\ at[p] \in {"idle", "boot", "check"} => done[p] = 0
        /\ at[p] \in {"exec", "record"} /\ next[p] \notin crossed =>
               \A i \in DOMAIN Script[next[p]] :
                   i <= done[p] \/ at[p] = "record" =>
                       made[Script[next[p]][i]] # 0

\* A file that is executed while it is rolled back counts as crossed.
Crossings == undo # 0 => undo \in crossed \/ (undo \in recorded /\ AtFile(undo) = {})

\* An object is as a file has it that makes it.
Defined == \A o \in Object : made[o] # 0 => o \in ToSet(Script[made[o]])

\* As long as no two migrators overlap, a file is executed only while it is not
\* recorded, and puts back no object that a later recorded file has replaced.
InTurn ==
    \/ "overlap" \in mishaps
    \/ /\ \A p, q \in Busy : p = q
       /\ \A p \in Migrator : at[p] \in {"exec", "record"} => next[p] \notin recorded
       /\ \A f \in recorded \ DOMAIN Undo : \A i \in DOMAIN Script[f] :
              made[Script[f][i]] >= f
       /\ \A p \in Migrator :
              at[p] \in {"exec", "record"} /\ next[p] \notin DOMAIN Undo =>
                  \A i \in DOMAIN Script[next[p]] :
                      i <= done[p] \/ at[p] = "record" => made[Script[next[p]][i]] >= next[p]

MigrateInv ==
    /\ MigrateTypeOK
    /\ Behind
    /\ Executed
    /\ Crossings
    /\ Defined
    /\ InTurn
    /\ RecordedIsMade
    /\ RecordedInOrder
============================================================================
