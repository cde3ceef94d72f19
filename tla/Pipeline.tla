------------------------------ MODULE Pipeline ------------------------------
(***************************************************************************)
(* The way of an event from a run into the database: processes of the      *)
(* commands emit (cmd/autospec-db/emit.go) and drain                       *)
(* (cmd/autospec-db/drain.go) on one machine, the spool they share and the *)
(* server they talk to.  The module composes Spool and Server: a step of a *)
(* command is a step of the spool, of the server or of both.               *)
(*                                                                         *)
(* An emit process is named by the line it builds; a drain process is a    *)
(* command that an operator or a timer runs again and again.               *)
(***************************************************************************)
EXTENDS Spool, Server

CONSTANTS
    Drainer,    \* the drain commands
    Crashes     \* may processes die in this instance?

ASSUME CommandAssumption == Drainer \cap Line = {} /\ Proc = Line \cup Drainer
ASSUME CrashAssumption == Crashes \in BOOLEAN

VARIABLES
    cmd,        \* cmd[p]: where p is in cmdEmit or cmdDrain
    overflowed, \* history: lines that an append dropped for the size cap
    unspooled,  \* history: lines whose append failed with an I/O error
    poisoned    \* history: lines whose replay the server refused

history == <<overflowed, unspooled, poisoned>>
vars == <<spoolVars, serverVars, cmd, history>>

\* "skipped": emit had nothing to do (disabled, bad usage, no DSN).
Ended == {"skipped", "done", "crashed"}
Cmd == {"start", "connect", "ingest", "spool"} \cup Ended

PipelineTypeOK ==
    /\ TypeOK
    /\ ServerTypeOK
    /\ cmd \in [Proc -> Cmd]
    /\ overflowed \subseteq Line
    /\ unspooled \subseteq Line
    /\ poisoned \subseteq Line

Init ==
    /\ SpoolInit
    /\ ServerInit
    /\ cmd = [p \in Proc |-> "start"]
    /\ overflowed = {}
    /\ unspooled = {}
    /\ poisoned = {}

----------------------------------------------------------------------------

\* The command p goes on from place "from" to place "to".
Go(p, from, to) == cmd[p] = from /\ cmd' = [cmd EXCEPT ![p] = to]

\* Disabled, bad usage or no DSN: emit and drain return without a trace.
Skip(p) ==
    /\ Go(p, "start", "skipped")
    /\ UNCHANGED <<spoolVars, serverVars, history>>

\* The event is built and a DSN is known: connect.
Begin(p) ==
    /\ Go(p, "start", "connect")
    /\ UNCHANGED <<spoolVars, serverVars, history>>

EmitConnected(e) ==
    /\ Reachable
    /\ Go(e, "connect", "ingest")
    /\ UNCHANGED <<spoolVars, serverVars, history>>

\* The connection fails or times out, which it may do at any server.
EmitUnreachable(e) ==
    /\ Go(e, "connect", "spool")
    /\ AppendCall(e, e)
    /\ UNCHANGED <<serverVars, history>>

\* The event is stored; drain the spool over the same connection.
EmitStored(e) ==
    /\ Go(e, "ingest", "spool")
    /\ IngestOk(e)
    /\ DrainCall(e)
    /\ UNCHANGED history

\* Mutation of EmitFailed: an event that the server refused is given up.
EmitGivesUp(e) ==
    /\ \/ IngestRefused(e) /\ Go(e, "ingest", "done") /\ UNCHANGED spoolVars
       \/ IngestLost(e) /\ Go(e, "ingest", "spool") /\ AppendCall(e, e)
    /\ UNCHANGED history

\* Whatever the error of the direct ingest, the event goes to the spool.
EmitFailed(e) ==
    /\ Go(e, "ingest", "spool")
    /\ IngestRefused(e) \/ IngestLost(e)
    /\ AppendCall(e, e)
    /\ UNCHANGED history

DrainConnected(d) ==
    /\ Reachable
    /\ Go(d, "connect", "spool")
    /\ DrainCall(d)
    /\ UNCHANGED <<serverVars, history>>

\* The drain command reports what Stat sees and ends.
DrainUnreachable(d) ==
    /\ Go(d, "connect", "done")
    /\ UNCHANGED <<spoolVars, serverVars, history>>

\* The operator runs the drain command again.
DrainAgain(d) ==
    /\ cmd[d] \in Ended
    /\ cmd' = [cmd EXCEPT ![d] = "start"]
    /\ UNCHANGED <<spoolVars, serverVars, history>>

----------------------------------------------------------------------------
(***************************************************************************)
(* The ingest callback that emit and drain pass to Drain: a stored line is *)
(* replayed, a PgError is wrapped as poison, any other error is passed on. *)
(***************************************************************************)

Replayed(p) ==
    /\ LineReplayed(p)
    /\ IngestOk(Head(mem[p]))
    /\ UNCHANGED <<cmd, history>>

Refused(p) ==
    /\ LineDropped(p)
    /\ IngestRefused(Head(mem[p]))
    /\ poisoned' = poisoned \cup {Head(mem[p])}
    /\ UNCHANGED <<cmd, overflowed, unspooled>>

\* Mutation of Kept: the callback reports a timeout as a poison line.
KeptAsPoison(p) ==
    /\ LineDropped(p)
    /\ IngestLost(Head(mem[p]))
    /\ UNCHANGED <<cmd, history>>

Kept(p) ==
    /\ LineKept(p)
    /\ IngestLost(Head(mem[p]))
    /\ UNCHANGED <<cmd, history>>

----------------------------------------------------------------------------

\* p gets the flock.
SpoolLock(p) ==
    /\ Lock(p)
    /\ UNCHANGED <<serverVars, cmd, history>>

\* An append drops the oldest line of its copy for the size cap.
SpoolTrim(p) ==
    /\ DropOldest(p)
    /\ overflowed' = overflowed \cup {Head(mem[p])}
    /\ UNCHANGED <<serverVars, cmd, unspooled, poisoned>>

\* Steps inside Append and Drain that neither lose nor return anything.
SpoolInternal(p) ==
    /\ AppendRead(p) \/ Trimmed(p) \/ DrainRead(p) \/ DrainEnd(p) \/ Write(p)
    /\ UNCHANGED <<serverVars, cmd, history>>

\* An I/O error before the file is replaced: emit ignores it, and an append
\* that failed has lost its line.
SpoolFail(p) ==
    /\ \/ ReadFail(p) /\ UNCHANGED cmd
       \/ WriteFail(p) /\ UNCHANGED cmd
       \/ LockFail(p) /\ Go(p, "spool", "done")
    /\ unspooled' = IF arg[p] = NoLine THEN unspooled
                    ELSE unspooled \cup {arg[p]}
    /\ UNCHANGED <<serverVars, overflowed, poisoned>>

\* Append or Drain returns, and with it the command.
SpoolReturn(p) ==
    /\ Unlock(p)
    /\ Go(p, "spool", "done")
    /\ UNCHANGED <<serverVars, history>>

\* The process dies, in the spool or outside of it.
Crash(p) ==
    /\ Crashes
    /\ cmd[p] \notin Ended
    /\ cmd' = [cmd EXCEPT ![p] = "crashed"]
    /\ SpoolCrash(p) \/ (op[p] = "idle" /\ UNCHANGED spoolVars)
    /\ UNCHANGED <<serverVars, history>>

----------------------------------------------------------------------------

EmitStep(e) ==
    Begin(e) \/ EmitConnected(e) \/ EmitUnreachable(e) \/ EmitStored(e) \/ EmitFailed(e)

DrainStep(d) == Begin(d) \/ DrainConnected(d) \/ DrainUnreachable(d)

\* What the code of p does when it runs, in whichever command p is.  No step
\* may be owed to an I/O error, so those are steps of the environment.
Step(p) ==
    \/ p \in Line /\ EmitStep(p)
    \/ p \in Drainer /\ DrainStep(p)
    \/ Replayed(p) \/ Refused(p) \/ Kept(p)
    \/ SpoolLock(p) \/ SpoolTrim(p) \/ SpoolInternal(p) \/ SpoolReturn(p)

Environment ==
    \/ ServerStep /\ UNCHANGED <<spoolVars, cmd, history>>
    \/ \E p \in Proc : Skip(p) \/ SpoolFail(p) \/ Crash(p)
    \/ \E d \in Drainer : DrainAgain(d)

Next == Environment \/ \E p \in Proc : Step(p)

Spec == Init /\ [][Next]_vars

----------------------------------------------------------------------------
(***************************************************************************)
(* Fairness.  A process that can run does run: its system calls return and *)
(* its timeouts fire, so that an ingest or a connect always ends one way   *)
(* or another.  A waiter of a lock that is freed again and again gets it   *)
(* some time, because the kernel wakes the waiters of a flock.             *)
(***************************************************************************)

Runs(p) == WF_vars(Step(p)) /\ SF_vars(SpoolLock(p))

\* Every process runs.
FairSpec == Spec /\ \A p \in Proc : Runs(p)

\* Only the emit processes are known to run: a drain command may be stopped,
\* or be busy with a long spool, for any time.
EmitFairSpec == Spec /\ \A e \in Line : Runs(e)

\* The process d dies or is refused by the disk.  A write that fails when the
\* file would not change is left out: it cannot be told from one that succeeds.
Harmed(d) ==
    Crash(d) \/ (SpoolFail(d) /\ ~ (op[d] = "write" /\ mem[d] = file))

\* What it takes to empty a spool: the operator keeps running the drain
\* command, with the telemetry enabled, what can succeed again and again does
\* succeed some time, and the command is not killed or refused by the disk
\* for ever.
Draining ==
    \A d \in Drainer :
        /\ WF_vars(DrainAgain(d))
        /\ SF_vars(Begin(d))
        /\ SF_vars(DrainConnected(d))
        /\ SF_vars(Replayed(d) \/ Refused(d))
        /\ <>[][~ Harmed(d)]_vars

----------------------------------------------------------------------------

\* What emit and drain promise of an event, whichever processes handle it:
\* it is stored at most once, starts to wait at most once and before its emit
\* returns, stops waiting only stored or lost, and is never lost once it is
\* stored and off the machine (emit.go:57-83, drain.go:47-58, spool.go:157-226).
Promise ==
    INSTANCE Delivery WITH
        Event <- Line,
        Id <- Uuid,
        rows <- raw,
        waiting <- ToSet(file),
        lost <- overflowed \cup unspooled \cup poisoned,
        returned <- {e \in Line : cmd[e] = "done"}
DeliverySpec == Promise!Spec

\* Where an event may be: in the database, in the spool file, or gone for one
\* of the three reasons that the history keeps.
Accounted(e) ==
    \/ Stored(e)
    \/ e \in ToSet(file)
    \/ e \in overflowed \cup unspooled \cup poisoned

\* No event is lost without one of the three named reasons: once its emit
\* process has returned, the event is stored, or waits in the spool, or was
\* dropped for the size cap, or could not be written to the spool, or was
\* refused by the server when it was replayed (emit.go:57-83, spool.go:1-3).
NoSilentLoss == \A e \in Line : cmd[e] = "done" => Accounted(e)

\* A line leaves the spool file only when it is stored, refused or dropped
\* for the size cap, whichever processes replay, append, fail and die at the
\* same time (spool.go:180-226 with the callbacks of emit.go and drain.go).
LeavesWithReason ==
    [][\A e \in ToSet(file) \ ToSet(file') :
            Stored(e)' \/ e \in overflowed' \cup poisoned']_vars

\* An event is in the spool at most once: emit spools it once, and a drain
\* never writes back a line twice or next to its own copy (spool.go:157-226).
SpooledOnce == \A i, j \in DOMAIN file : file[i] = file[j] => i = j

\* An event the server could store is never given up as poison: only bad data
\* is dropped on drain (README.md:77 and 84, spool.go:19-21).
OnlyBadDataDropped ==
    \A e \in Line \ BadData : cmd[e] = "done" =>
        \/ Stored(e)
        \/ e \in ToSet(file)
        \/ e \in overflowed \cup unspooled

\* Every emit ends: it never blocks a run (emit.go:16-18).
EmitEnds == \A e \in Line : <>(cmd[e] \in Ended)

\* When the server is up for good and the drain command is run again and
\* again, the spool is emptied for good in the end, poison lines included,
\* whatever died or failed before (spool.go:175-179, drain.go:15-16).
SpoolDrained == Draining => (<>[](health = "up") => <>[](file = <<>>))

----------------------------------------------------------------------------
(***************************************************************************)
(* The inductive invariant of the composition.                             *)
(***************************************************************************)

\* A command is inside the spool exactly in its last phase.  An emit process
\* appends its own event or, when that is stored, drains; and when Append or
\* Drain is about to return to it, the event is accounted for.
Commands ==
    /\ \A d \in Drainer : arg[d] = NoLine
    /\ \A e \in Line :
        /\ cmd[e] = "spool" <=> op[e] # "idle"
        /\ arg[e] \in {e, NoLine}
        /\ cmd[e] = "spool" /\ arg[e] = NoLine => Stored(e)
        /\ op[e] = "unlock" => Accounted(e)

\* A process that is going to replace the file has every line of the file, and
\* the line it appends, in its copy, or knows why not.
Custody ==
    \A p \in Proc : op[p] \in {"trim", "loop", "write"} =>
        \A l \in Line : l \in ToSet(file) \/ l = arg[p] =>
            \/ l \in ToSet(mem[p])
            \/ Stored(l)
            \/ l \in overflowed \cup poisoned

\* An event that its emit process may still append is not in the file.
Unspooled ==
    \A e \in Line :
        \/ cmd[e] \in {"start", "connect", "ingest"}
        \/ arg[e] = e /\ op[e] \in {"lock", "read", "trim", "write"}
        => e \notin ToSet(file)

PipelineInv ==
    /\ SpoolInv
    /\ PipelineTypeOK
    /\ StoredOnce
    /\ Commands
    /\ Custody
    /\ NoSilentLoss
    /\ Unspooled
    /\ SpooledOnce
============================================================================
