------------------------------- MODULE Spool -------------------------------
(***************************************************************************)
(* The local overflow buffer, internal/spool/spool.go: a file of event     *)
(* lines that emit and drain processes of one machine share.  Every        *)
(* operation takes the exclusive flock of a sidecar file, reads the whole  *)
(* data file into memory, changes that copy and renames a new file over    *)
(* the old one.  Drain calls back into the database for every line while   *)
(* it holds the lock.  Any process may die at any point; the kernel then   *)
(* releases its lock and its copy is gone.                                 *)
(***************************************************************************)
EXTENDS Lines

CONSTANTS
    Proc,       \* the processes that use the spool
    MaxLines,   \* MaxLines[p]: the limit p passes to Drain, 0 for none
    Timed,      \* the processes that pass a deadline to Drain
    NoProc,     \* the lock's holder when nobody holds it
    NoLine,     \* the argument of a call that carries no line (Drain)
    IOFaults    \* may file operations fail (disk full, permissions)?

ASSUME ProcAssumption == NoProc \notin Proc
ASSUME LineAssumption == NoLine \notin Line
ASSUME LimitAssumption == MaxLines \in [Proc -> Nat] /\ Timed \subseteq Proc
ASSUME FaultAssumption == IOFaults \in BOOLEAN

VARIABLES
    file,       \* the lines in the data file; <<>> also stands for no file
    lock,       \* the holder of the sidecar's flock
    op,         \* op[p]: where p is in Append or Drain
    arg,        \* arg[p]: the line p appends, NoLine when p drains
    mem,        \* mem[p]: p's copy of the lines; a drain consumes its head
    replayed,   \* replayed[p]: Result.Replayed of p's drain
    dropped     \* dropped[p]: Result.Dropped of p's drain

spoolVars == <<file, lock, op, arg, mem, replayed, dropped>>

\* "lock" waits for the flock; "read" to "unlock" run while it is held.
Locked == {"read", "trim", "loop", "write", "unlock"}
Op == {"idle", "lock"} \cup Locked

TypeOK ==
    /\ file \in Seq(Line)
    /\ lock \in Proc \cup {NoProc}
    /\ op \in [Proc -> Op]
    /\ arg \in [Proc -> Line \cup {NoLine}]
    /\ mem \in [Proc -> Seq(Line)]
    /\ replayed \in [Proc -> Nat]
    /\ dropped \in [Proc -> Nat]

SpoolInit ==
    /\ file = <<>>
    /\ lock = NoProc
    /\ op = [p \in Proc |-> "idle"]
    /\ arg = [p \in Proc |-> NoLine]
    /\ mem = [p \in Proc |-> <<>>]
    /\ replayed = [p \in Proc |-> 0]
    /\ dropped = [p \in Proc |-> 0]

----------------------------------------------------------------------------
(***************************************************************************)
(* The operations.  An operator commented as a mutation is a bug that this *)
(* code could have had; it is part of no specification and serves only to  *)
(* confirm that TLC would report it.                                       *)
(***************************************************************************)

\* lines[1:]
Rest(lines) == Tail(lines)

\* p is at place "from" of an operation and moves on to place "to".
Move(p, from, to) == op[p] = from /\ op' = [op EXCEPT ![p] = to]

AppendCall(p, l) ==
    /\ Move(p, "idle", "lock")
    /\ arg' = [arg EXCEPT ![p] = l]
    /\ UNCHANGED <<file, lock, mem, replayed, dropped>>

DrainCall(p) ==
    /\ Move(p, "idle", "lock")
    /\ UNCHANGED <<file, lock, arg, mem, replayed, dropped>>

\* Mutation of Lock: a shared lock, LOCK_SH for LOCK_EX.
SharedLock(p) ==
    /\ Move(p, "lock", "read")
    /\ lock' = p
    /\ UNCHANGED <<file, arg, mem, replayed, dropped>>

\* lock() returns: flock(LOCK_EX) has no timeout, so p waits until it is free.
Lock(p) ==
    /\ Move(p, "lock", "read")
    /\ lock = NoProc
    /\ lock' = p
    /\ UNCHANGED <<file, arg, mem, replayed, dropped>>

\* What a returning or dying process leaves behind: nothing of its own.
Forget(p) ==
    /\ op' = [op EXCEPT ![p] = "idle"]
    /\ arg' = [arg EXCEPT ![p] = NoLine]
    /\ mem' = [mem EXCEPT ![p] = <<>>]
    /\ replayed' = [replayed EXCEPT ![p] = 0]
    /\ dropped' = [dropped EXCEPT ![p] = 0]

\* The directory or the sidecar file cannot be made or opened.
LockFail(p) ==
    /\ IOFaults
    /\ op[p] = "lock"
    /\ Forget(p)
    /\ UNCHANGED <<file, lock>>

ReadFail(p) ==
    /\ IOFaults
    /\ Move(p, "read", "unlock")
    /\ UNCHANGED <<file, lock, arg, mem, replayed, dropped>>

\* Append reads the file and adds its line.
AppendRead(p) ==
    /\ arg[p] # NoLine
    /\ Move(p, "read", "trim")
    /\ mem' = [mem EXCEPT ![p] = Append(file, arg[p])]
    /\ UNCHANGED <<file, lock, arg, replayed, dropped>>

\* Mutation of DropOldest: lines[:len-1], the newest line makes room.
DropNewest(p) ==
    /\ op[p] = "trim"
    /\ Overflows(mem[p])
    /\ mem' = [mem EXCEPT ![p] = Front(mem[p])]
    /\ UNCHANGED <<file, lock, op, arg, replayed, dropped>>

\* One turn of the overflow loop.
DropOldest(p) ==
    /\ op[p] = "trim"
    /\ Overflows(mem[p])
    /\ mem' = [mem EXCEPT ![p] = Rest(mem[p])]
    /\ UNCHANGED <<file, lock, op, arg, replayed, dropped>>

\* Mutation of Trimmed: an "if" in place of the "for" of the loop.
TrimmedOnce(p) ==
    /\ Move(p, "trim", "write")
    /\ ~ Overflows(mem[p]) \/ Len(mem[p]) <= Len(file)
    /\ UNCHANGED <<file, lock, arg, mem, replayed, dropped>>

Trimmed(p) ==
    /\ Move(p, "trim", "write")
    /\ ~ Overflows(mem[p])
    /\ UNCHANGED <<file, lock, arg, mem, replayed, dropped>>

DrainRead(p) ==
    /\ arg[p] = NoLine
    /\ Move(p, "read", "loop")
    /\ mem' = [mem EXCEPT ![p] = file]
    /\ UNCHANGED <<file, lock, arg, replayed, dropped>>

\* Mutation of AtLimit: the poison lines are not counted.
AtReplayLimit(p) == MaxLines[p] > 0 /\ replayed[p] >= MaxLines[p]

AtLimit(p) == MaxLines[p] > 0 /\ replayed[p] + dropped[p] >= MaxLines[p]

\* The loop ends: no line left, the limit reached, or the deadline passed.
\* What is left of mem[p] is the kept set, every unprocessed line of it.
DrainEnd(p) ==
    /\ Move(p, "loop", "write")
    /\ mem[p] = <<>> \/ AtLimit(p) \/ p \in Timed
    /\ UNCHANGED <<file, lock, arg, mem, replayed, dropped>>

\* Drain calls ingest with the head of mem[p].
Ingesting(p) == op[p] = "loop" /\ mem[p] # <<>> /\ ~ AtLimit(p)

\* The callback returned nil: the line is stored and leaves.
LineReplayed(p) ==
    /\ Ingesting(p)
    /\ mem' = [mem EXCEPT ![p] = Rest(mem[p])]
    /\ replayed' = [replayed EXCEPT ![p] = @ + 1]
    /\ UNCHANGED <<file, lock, op, arg, dropped>>

\* Mutation of LineDropped: no poison guard, a refused line stops the drain.
PoisonKept(p) ==
    /\ Ingesting(p)
    /\ Move(p, "loop", "write")
    /\ UNCHANGED <<file, lock, arg, mem, replayed, dropped>>

\* The callback returned a PoisonError: the line leaves without being stored.
LineDropped(p) ==
    /\ Ingesting(p)
    /\ mem' = [mem EXCEPT ![p] = Rest(mem[p])]
    /\ dropped' = [dropped EXCEPT ![p] = @ + 1]
    /\ UNCHANGED <<file, lock, op, arg, replayed>>

\* Mutation of LineKept: the line whose ingest failed is not kept.
LineForgotten(p) ==
    /\ Ingesting(p)
    /\ Move(p, "loop", "write")
    /\ mem' = [mem EXCEPT ![p] = Rest(mem[p])]
    /\ UNCHANGED <<file, lock, arg, replayed, dropped>>

\* Mutation of LineKept: the line is tried again on the spot.
LineRetried(p) ==
    /\ Ingesting(p)
    /\ UNCHANGED spoolVars

\* Any other error: this line and all after it are kept, and the loop stops.
LineKept(p) ==
    /\ Ingesting(p)
    /\ Move(p, "loop", "write")
    /\ UNCHANGED <<file, lock, arg, mem, replayed, dropped>>

\* Mutation of Write: the lines are added to the file that is already there.
WriteAdds(p) ==
    /\ Move(p, "write", "unlock")
    /\ file' = file \o mem[p]
    /\ UNCHANGED <<lock, arg, mem, replayed, dropped>>

\* Mutation of Write: os.WriteFile in place, which empties the file first.
WriteInPlace(p) ==
    \/ op[p] = "write" /\ file' = <<>>
       /\ UNCHANGED <<lock, op, arg, mem, replayed, dropped>>
    \/ /\ Move(p, "write", "unlock")
       /\ file' = mem[p]
       /\ UNCHANGED <<lock, arg, mem, replayed, dropped>>

\* writeAtomic: the temporary file is complete and is renamed over the old
\* one; until the rename nobody can see any of it.
Write(p) ==
    /\ Move(p, "write", "unlock")
    /\ file' = mem[p]
    /\ UNCHANGED <<lock, arg, mem, replayed, dropped>>

\* Some step of writeAtomic failed; the old file is still the data file.
WriteFail(p) ==
    /\ IOFaults
    /\ Move(p, "write", "unlock")
    /\ UNCHANGED <<file, lock, arg, mem, replayed, dropped>>

\* The deferred unlock, and the return to the caller.
Unlock(p) ==
    /\ op[p] = "unlock"
    /\ lock' = NoProc
    /\ Forget(p)
    /\ UNCHANGED file

\* The process dies inside the operation; the kernel drops its flock.
SpoolCrash(p) ==
    /\ op[p] # "idle"
    /\ lock' = IF lock = p THEN NoProc ELSE lock
    /\ Forget(p)
    /\ UNCHANGED file

----------------------------------------------------------------------------

\* The steps of an operation in progress that need no answer from a callback.
SpoolStep(p) ==
    \/ Lock(p)
    \/ ReadFail(p) \/ AppendRead(p) \/ DropOldest(p) \/ Trimmed(p)
    \/ DrainRead(p) \/ DrainEnd(p)
    \/ Write(p) \/ WriteFail(p)

SpoolNext ==
    \E p \in Proc :
        \/ \E l \in Line : AppendCall(p, l)
        \/ DrainCall(p)
        \/ SpoolStep(p)
        \/ LineReplayed(p) \/ LineDropped(p) \/ LineKept(p)
        \/ LockFail(p) \/ Unlock(p) \/ SpoolCrash(p)

\* The spool by itself: processes that call Append and Drain at any time,
\* and an ingest callback that may answer anything.
SpoolSpec == SpoolInit /\ [][SpoolNext]_spoolVars

----------------------------------------------------------------------------

\* Exactly the process inside the locked region holds the flock, so that no
\* two of them are ever between reading the file and replacing it
\* (lock, spool.go:79, held by Append and Drain until they return).
LockInv == \A p \in Proc : op[p] \in Locked <=> lock = p

\* The file on disk is never over its cap, except for a single line that is
\* longer than the cap by itself (the overflow loop, spool.go:169, never
\* drops the line just appended).
SpoolBounded == ~ Overflows(file)

\* A drain accounts for every line that was in the file it read: as long as
\* it has not replaced the file, the lines it took and the lines it keeps are
\* the file's lines, each once and in the file's order; afterwards the file
\* is what it kept (Result and kept in Drain, spool.go:192-225).
DrainAccounts ==
    \A p \in Proc :
        (lock = p /\ arg[p] = NoLine /\ op[p] \in {"loop", "write"}) =>
            LET taken == replayed[p] + dropped[p]
            IN  taken <= Len(file) /\ mem[p] = From(file, taken + 1)

\* A limited drain never takes more lines than its limit, counting the
\* poison lines it dropped (spool.go:200).
DrainLimited ==
    \A p \in Proc : MaxLines[p] > 0 => replayed[p] + dropped[p] <= MaxLines[p]

\* An append that has trimmed its copy is about to write what the cap leaves
\* of the current file and its own line, no line less (spool.go:168-170).
AppendFits ==
    \A p \in Proc :
        (lock = p /\ arg[p] # NoLine /\ op[p] = "write") =>
            mem[p] = Newest(Append(file, arg[p]))

(***************************************************************************)
(* The inductive invariant: the properties above and what they rest on.    *)
(***************************************************************************)

\* Only an append trims and only a drain loops, and a drain counts from zero.
Phases ==
    \A p \in Proc :
        /\ op[p] = "trim" => arg[p] # NoLine
        /\ op[p] = "loop" => arg[p] = NoLine
        /\ op[p] \in {"idle", "lock", "read", "trim"} \/ arg[p] # NoLine =>
               replayed[p] = 0 /\ dropped[p] = 0

\* An append's copy is the end of the file and its own line; the lines that
\* it has dropped had to go, and once it writes none has to go any more.
AppendTrims ==
    \A p \in Proc :
        (arg[p] # NoLine /\ op[p] \in {"trim", "write"}) =>
            /\ PartlyTrimmed(Append(file, arg[p]), mem[p])
            /\ op[p] = "write" => ~ Overflows(mem[p])

SpoolInv ==
    /\ TypeOK
    /\ LockInv
    /\ Phases
    /\ AppendTrims
    /\ DrainAccounts
    /\ DrainLimited
    /\ SpoolBounded

\* The promise of the spool.
Queue == INSTANCE LossyQueue WITH queue <- file
QueueSpec == Queue!Spec
============================================================================
