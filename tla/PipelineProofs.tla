--------------------------- MODULE PipelineProofs ---------------------------
(***************************************************************************)
(* Proofs about the pipeline for any number of events, drain commands and  *)
(* their interleavings, any sizes and limits, with or without I/O faults   *)
(* and crashes.  A step of the pipeline is a step of the spool or leaves   *)
(* the spool alone, so that SpoolInv carries over; a row is never removed; *)
(* and only Write changes the file.  From these facts PipelineInv is shown *)
(* inductive, and the properties follow.                                   *)
(***************************************************************************)
EXTENDS Pipeline, SpoolProofs

\* A step of the pipeline is a step of the spool or leaves the spool alone.
LEMMA NextIsSpoolStep == [Next]_vars => [SpoolNext]_spoolVars
    <1> SUFFICES ASSUME [Next]_vars PROVE [SpoolNext]_spoolVars
        OBVIOUS
    <1> USE CommandAssumption DEF SpoolNext, SpoolStep
    <1>1. ASSUME NEW e \in Line, LateCommit(e), UNCHANGED <<spoolVars, cmd, history>>
         PROVE  [SpoolNext]_spoolVars
        BY <1>1
    <1>2. ASSUME NEW e \in Line, LateCancel(e), UNCHANGED <<spoolVars, cmd, history>>
         PROVE  [SpoolNext]_spoolVars
        BY <1>2
    <1>3. ASSUME NEW h \in Healths, HealthChange(h), UNCHANGED <<spoolVars, cmd, history>>
         PROVE  [SpoolNext]_spoolVars
        BY <1>3
    <1>4. ASSUME NEW p \in Proc, Skip(p)
         PROVE  [SpoolNext]_spoolVars
        BY <1>4 DEF Skip
    <1>5. ASSUME NEW p \in Proc, SpoolFail(p)
         PROVE  [SpoolNext]_spoolVars
        BY <1>5 DEF SpoolFail
    <1>6. ASSUME NEW p \in Proc, Crash(p)
         PROVE  [SpoolNext]_spoolVars
        BY <1>6 DEF Crash
    <1>7. ASSUME NEW d \in Drainer, DrainAgain(d)
         PROVE  [SpoolNext]_spoolVars
        BY <1>7 DEF DrainAgain
    <1>8. ASSUME NEW p \in Proc, Begin(p)
         PROVE  [SpoolNext]_spoolVars
        BY <1>8 DEF Begin
    <1>9. ASSUME NEW e \in Line, EmitConnected(e)
         PROVE  [SpoolNext]_spoolVars
        BY <1>9 DEF EmitConnected
    <1>10. ASSUME NEW e \in Line, EmitUnreachable(e)
         PROVE  [SpoolNext]_spoolVars
        BY <1>10 DEF EmitUnreachable
    <1>11. ASSUME NEW e \in Line, EmitStored(e)
         PROVE  [SpoolNext]_spoolVars
        BY <1>11 DEF EmitStored
    <1>12. ASSUME NEW e \in Line, EmitFailed(e)
         PROVE  [SpoolNext]_spoolVars
        BY <1>12 DEF EmitFailed
    <1>13. ASSUME NEW d \in Drainer, DrainConnected(d)
         PROVE  [SpoolNext]_spoolVars
        BY <1>13 DEF DrainConnected
    <1>14. ASSUME NEW d \in Drainer, DrainUnreachable(d)
         PROVE  [SpoolNext]_spoolVars
        BY <1>14 DEF DrainUnreachable
    <1>15. ASSUME NEW p \in Proc, Replayed(p)
         PROVE  [SpoolNext]_spoolVars
        BY <1>15 DEF Replayed
    <1>16. ASSUME NEW p \in Proc, Refused(p)
         PROVE  [SpoolNext]_spoolVars
        BY <1>16 DEF Refused
    <1>17. ASSUME NEW p \in Proc, Kept(p)
         PROVE  [SpoolNext]_spoolVars
        BY <1>17 DEF Kept
    <1>18. ASSUME NEW p \in Proc, SpoolLock(p)
         PROVE  [SpoolNext]_spoolVars
        BY <1>18 DEF SpoolLock
    <1>19. ASSUME NEW p \in Proc, SpoolTrim(p)
         PROVE  [SpoolNext]_spoolVars
        BY <1>19 DEF SpoolTrim
    <1>20. ASSUME NEW p \in Proc, SpoolInternal(p)
         PROVE  [SpoolNext]_spoolVars
        BY <1>20 DEF SpoolInternal
    <1>21. ASSUME NEW p \in Proc, SpoolReturn(p)
         PROVE  [SpoolNext]_spoolVars
        BY <1>21 DEF SpoolReturn
    <1>22. CASE UNCHANGED vars
        BY <1>22 DEF vars
    <1> QED
        BY <1>1, <1>2, <1>3, <1>4, <1>5, <1>6, <1>7, <1>8, <1>9, <1>10, <1>11,
        <1>12, <1>13, <1>14, <1>15, <1>16, <1>17, <1>18, <1>19, <1>20, <1>21,
        <1>22
           DEF Next, Environment, ServerStep, Step, EmitStep, DrainStep

----------------------------------------------------------------------------

\* What a step may do to the table: nothing, or add a row.
RowsGrow == UNCHANGED raw \/ \E l \in Line : Insert(l)

\* What a step may do to the history: nothing is ever taken out of it.
HistoryKept ==
    /\ overflowed \subseteq overflowed'
    /\ unspooled \subseteq unspooled'
    /\ poisoned \subseteq poisoned'

\* What a step may do to the file: nothing, or it is Write and nothing else.
FileReplaced ==
    \/ UNCHANGED file
    \/ \E q \in Proc : Write(q) /\ UNCHANGED <<serverVars, cmd, history>>

\* A step adds at most one row to the table and removes none.
LEMMA RawEffect ==
    TypeOK /\ [Next]_vars => RowsGrow
    <1> SUFFICES ASSUME TypeOK, [Next]_vars PROVE RowsGrow
        OBVIOUS
    <1> USE DEF vars, spoolVars, serverVars, history, RowsGrow
    <1>1. ASSUME NEW e \in Line, LateCommit(e), UNCHANGED <<spoolVars, cmd, history>>
         PROVE  RowsGrow
        BY <1>1 DEF LateCommit
    <1>2. ASSUME NEW e \in Line, LateCancel(e), UNCHANGED <<spoolVars, cmd, history>>
         PROVE  RowsGrow
        BY <1>2 DEF LateCancel
    <1>3. ASSUME NEW h \in Healths, HealthChange(h), UNCHANGED <<spoolVars, cmd, history>>
         PROVE  RowsGrow
        BY <1>3 DEF HealthChange
    <1>4. ASSUME NEW p \in Proc, Skip(p)
         PROVE  RowsGrow
        BY <1>4 DEF Skip, Go
    <1>5. ASSUME NEW p \in Proc, SpoolFail(p)
         PROVE  RowsGrow
        BY <1>5 DEF SpoolFail, ReadFail, WriteFail, LockFail, Go, Move, Forget
    <1>6. ASSUME NEW p \in Proc, Crash(p)
         PROVE  RowsGrow
        BY <1>6 DEF Crash, SpoolCrash, Forget
    <1>7. ASSUME NEW d \in Drainer, DrainAgain(d)
         PROVE  RowsGrow
        BY <1>7 DEF DrainAgain
    <1>8. ASSUME NEW p \in Proc, Begin(p)
         PROVE  RowsGrow
        BY <1>8 DEF Begin, Go
    <1>9. ASSUME NEW e \in Line, EmitConnected(e)
         PROVE  RowsGrow
        BY <1>9 DEF EmitConnected, Go
    <1>10. ASSUME NEW e \in Line, EmitUnreachable(e)
         PROVE  RowsGrow
        BY <1>10 DEF EmitUnreachable, AppendCall, Go, Move
    <1>11. ASSUME NEW e \in Line, EmitStored(e)
         PROVE  RowsGrow
        BY <1>11 DEF EmitStored, IngestOk, DrainCall, Go, Move
    <1>12. ASSUME NEW e \in Line, EmitFailed(e)
         PROVE  RowsGrow
        BY <1>12 DEF EmitFailed, IngestRefused, IngestLost, AppendCall, Go,
        Move
    <1>13. ASSUME NEW d \in Drainer, DrainConnected(d)
         PROVE  RowsGrow
        BY <1>13 DEF DrainConnected, DrainCall, Go, Move
    <1>14. ASSUME NEW d \in Drainer, DrainUnreachable(d)
         PROVE  RowsGrow
        BY <1>14 DEF DrainUnreachable, Go
    <1>15. ASSUME NEW p \in Proc, Replayed(p)
         PROVE  RowsGrow
        <2>1. Head(mem[p]) \in Line
            BY <1>15, HeadTailProperties DEF TypeOK, Replayed, LineReplayed, Ingesting
        <2> QED
            BY <1>15, <2>1 DEF Replayed, IngestOk
    <1>16. ASSUME NEW p \in Proc, Refused(p)
         PROVE  RowsGrow
        BY <1>16 DEF Refused, LineDropped, IngestRefused, Ingesting, Rest
    <1>17. ASSUME NEW p \in Proc, Kept(p)
         PROVE  RowsGrow
        BY <1>17 DEF Kept, LineKept, IngestLost, Ingesting, Move
    <1>18. ASSUME NEW p \in Proc, SpoolLock(p)
         PROVE  RowsGrow
        BY <1>18 DEF SpoolLock, Lock, Move
    <1>19. ASSUME NEW p \in Proc, SpoolTrim(p)
         PROVE  RowsGrow
        BY <1>19 DEF SpoolTrim, DropOldest, Rest
    <1>20. ASSUME NEW p \in Proc, SpoolInternal(p)
         PROVE  RowsGrow
        BY <1>20 DEF SpoolInternal, AppendRead, Trimmed, DrainRead, DrainEnd,
        Write, Move
    <1>21. ASSUME NEW p \in Proc, SpoolReturn(p)
         PROVE  RowsGrow
        BY <1>21 DEF SpoolReturn, Unlock, Go, Forget
    <1>22. CASE UNCHANGED vars
        BY <1>22 DEF vars
    <1> QED
        BY <1>1, <1>2, <1>3, <1>4, <1>5, <1>6, <1>7, <1>8, <1>9, <1>10, <1>11,
        <1>12, <1>13, <1>14, <1>15, <1>16, <1>17, <1>18, <1>19, <1>20, <1>21,
        <1>22
           DEF Next, Environment, ServerStep, Step, EmitStep, DrainStep

\* An event_uuid that has a row keeps it.
LEMMA StoredStable ==
    ASSUME TypeOK, ServerTypeOK, [Next]_vars, NEW e, Stored(e)
    PROVE  Stored(e)'
    <1>1. PICK i \in DOMAIN raw : Uuid[raw[i]] = Uuid[e]
        BY DEF Stored
    <1>2. raw \in Seq(Line)
        BY DEF ServerTypeOK
    <1>3. CASE UNCHANGED raw
        BY <1>1, <1>3 DEF Stored
    <1>4. ASSUME NEW l \in Line, raw' = Append(raw, l) PROVE Stored(e)'
        <2>1. i \in DOMAIN raw' /\ raw'[i] = raw[i]
            BY <1>1, <1>2, <1>4, AppendProperties, LenProperties
        <2> QED
            BY <1>1, <2>1 DEF Stored
    <1> QED
        BY <1>3, <1>4, RawEffect DEF RowsGrow, Insert

\* No event_uuid gets a second row.
LEMMA StoredOnceStep ==
    TypeOK /\ ServerTypeOK /\ StoredOnce /\ [Next]_vars => StoredOnce'
    <1> SUFFICES ASSUME TypeOK, ServerTypeOK, StoredOnce, [Next]_vars
                 PROVE  StoredOnce'
        OBVIOUS
    <1>1. CASE UNCHANGED raw
        BY <1>1 DEF StoredOnce
    <1>2. ASSUME NEW l \in Line, ~ Stored(l), raw' = Append(raw, l)
          PROVE  StoredOnce'
        <2>1. /\ raw \in Seq(Line) /\ Len(raw) \in Nat
              /\ DOMAIN raw = 1 .. Len(raw) /\ DOMAIN raw' = 1 .. (Len(raw) + 1)
              /\ raw'[Len(raw) + 1] = l
              /\ \A i \in 1 .. Len(raw) : raw'[i] = raw[i]
            <3>1. raw \in Seq(Line)
                BY DEF ServerTypeOK
            <3>2. raw' \in Seq(Line) /\ Len(raw') = Len(raw) + 1
                BY <1>2, <3>1, AppendProperties
            <3> QED
                BY <1>2, <3>1, <3>2, AppendProperties, LenProperties
        <2>2. \A i \in 1 .. Len(raw) : Uuid[raw[i]] # Uuid[l]
            BY <1>2, <2>1 DEF Stored
        <2> SUFFICES ASSUME NEW i \in 1 .. (Len(raw) + 1),
                            NEW j \in 1 .. (Len(raw) + 1),
                            Uuid[raw'[i]] = Uuid[raw'[j]]
                     PROVE  i = j
            BY <2>1 DEF StoredOnce
        <2>3. CASE i \in 1 .. Len(raw) /\ j \in 1 .. Len(raw)
            BY <2>1, <2>3 DEF StoredOnce
        <2>4. CASE i = Len(raw) + 1 /\ j \in 1 .. Len(raw)
            BY <2>1, <2>2, <2>4
        <2>5. CASE j = Len(raw) + 1 /\ i \in 1 .. Len(raw)
            BY <2>1, <2>2, <2>5
        <2> QED
            BY <2>1, <2>3, <2>4, <2>5
    <1> QED
        BY <1>1, <1>2, RawEffect DEF RowsGrow, Insert

\* The history only grows.
LEMMA HistoryGrows ==
    [Next]_vars => HistoryKept
    <1> SUFFICES ASSUME [Next]_vars PROVE HistoryKept
        OBVIOUS
    <1> USE DEF vars, spoolVars, serverVars, history, HistoryKept
    <1>1. ASSUME NEW e \in Line, LateCommit(e), UNCHANGED <<spoolVars, cmd, history>>
         PROVE  HistoryKept
        BY <1>1 DEF LateCommit
    <1>2. ASSUME NEW e \in Line, LateCancel(e), UNCHANGED <<spoolVars, cmd, history>>
         PROVE  HistoryKept
        BY <1>2 DEF LateCancel
    <1>3. ASSUME NEW h \in Healths, HealthChange(h), UNCHANGED <<spoolVars, cmd, history>>
         PROVE  HistoryKept
        BY <1>3 DEF HealthChange
    <1>4. ASSUME NEW p \in Proc, Skip(p)
         PROVE  HistoryKept
        BY <1>4 DEF Skip, Go
    <1>5. ASSUME NEW p \in Proc, SpoolFail(p)
         PROVE  HistoryKept
        BY <1>5 DEF SpoolFail, ReadFail, WriteFail, LockFail, Go, Move, Forget
    <1>6. ASSUME NEW p \in Proc, Crash(p)
         PROVE  HistoryKept
        BY <1>6 DEF Crash, SpoolCrash, Forget
    <1>7. ASSUME NEW d \in Drainer, DrainAgain(d)
         PROVE  HistoryKept
        BY <1>7 DEF DrainAgain
    <1>8. ASSUME NEW p \in Proc, Begin(p)
         PROVE  HistoryKept
        BY <1>8 DEF Begin, Go
    <1>9. ASSUME NEW e \in Line, EmitConnected(e)
         PROVE  HistoryKept
        BY <1>9 DEF EmitConnected, Go
    <1>10. ASSUME NEW e \in Line, EmitUnreachable(e)
         PROVE  HistoryKept
        BY <1>10 DEF EmitUnreachable, AppendCall, Go, Move
    <1>11. ASSUME NEW e \in Line, EmitStored(e)
         PROVE  HistoryKept
        BY <1>11 DEF EmitStored, IngestOk, DrainCall, Go, Move
    <1>12. ASSUME NEW e \in Line, EmitFailed(e)
         PROVE  HistoryKept
        BY <1>12 DEF EmitFailed, IngestRefused, IngestLost, AppendCall, Go,
        Move
    <1>13. ASSUME NEW d \in Drainer, DrainConnected(d)
         PROVE  HistoryKept
        BY <1>13 DEF DrainConnected, DrainCall, Go, Move
    <1>14. ASSUME NEW d \in Drainer, DrainUnreachable(d)
         PROVE  HistoryKept
        BY <1>14 DEF DrainUnreachable, Go
    <1>15. ASSUME NEW p \in Proc, Replayed(p)
         PROVE  HistoryKept
        BY <1>15 DEF Replayed, LineReplayed, IngestOk, Ingesting, Rest
    <1>16. ASSUME NEW p \in Proc, Refused(p)
         PROVE  HistoryKept
        BY <1>16 DEF Refused, LineDropped, IngestRefused, Ingesting, Rest
    <1>17. ASSUME NEW p \in Proc, Kept(p)
         PROVE  HistoryKept
        BY <1>17 DEF Kept, LineKept, IngestLost, Ingesting, Move
    <1>18. ASSUME NEW p \in Proc, SpoolLock(p)
         PROVE  HistoryKept
        BY <1>18 DEF SpoolLock, Lock, Move
    <1>19. ASSUME NEW p \in Proc, SpoolTrim(p)
         PROVE  HistoryKept
        BY <1>19 DEF SpoolTrim, DropOldest, Rest
    <1>20. ASSUME NEW p \in Proc, SpoolInternal(p)
         PROVE  HistoryKept
        BY <1>20 DEF SpoolInternal, AppendRead, Trimmed, DrainRead, DrainEnd,
        Write, Move
    <1>21. ASSUME NEW p \in Proc, SpoolReturn(p)
         PROVE  HistoryKept
        BY <1>21 DEF SpoolReturn, Unlock, Go, Forget
    <1>22. CASE UNCHANGED vars
        BY <1>22 DEF vars
    <1> QED
        BY <1>1, <1>2, <1>3, <1>4, <1>5, <1>6, <1>7, <1>8, <1>9, <1>10, <1>11,
        <1>12, <1>13, <1>14, <1>15, <1>16, <1>17, <1>18, <1>19, <1>20, <1>21,
        <1>22
           DEF Next, Environment, ServerStep, Step, EmitStep, DrainStep

\* Only a process that replaces the file changes it, and that step does nothing
\* else outside of the spool.
LEMMA FileEffect ==
    [Next]_vars => FileReplaced
    <1> SUFFICES ASSUME [Next]_vars PROVE FileReplaced
        OBVIOUS
    <1> USE DEF vars, spoolVars, serverVars, history, FileReplaced
    <1>1. ASSUME NEW e \in Line, LateCommit(e), UNCHANGED <<spoolVars, cmd, history>>
         PROVE  FileReplaced
        BY <1>1 DEF LateCommit
    <1>2. ASSUME NEW e \in Line, LateCancel(e), UNCHANGED <<spoolVars, cmd, history>>
         PROVE  FileReplaced
        BY <1>2 DEF LateCancel
    <1>3. ASSUME NEW h \in Healths, HealthChange(h), UNCHANGED <<spoolVars, cmd, history>>
         PROVE  FileReplaced
        BY <1>3 DEF HealthChange
    <1>4. ASSUME NEW p \in Proc, Skip(p)
         PROVE  FileReplaced
        BY <1>4 DEF Skip, Go
    <1>5. ASSUME NEW p \in Proc, SpoolFail(p)
         PROVE  FileReplaced
        BY <1>5 DEF SpoolFail, ReadFail, WriteFail, LockFail, Go, Move, Forget
    <1>6. ASSUME NEW p \in Proc, Crash(p)
         PROVE  FileReplaced
        BY <1>6 DEF Crash, SpoolCrash, Forget
    <1>7. ASSUME NEW d \in Drainer, DrainAgain(d)
         PROVE  FileReplaced
        BY <1>7 DEF DrainAgain
    <1>8. ASSUME NEW p \in Proc, Begin(p)
         PROVE  FileReplaced
        BY <1>8 DEF Begin, Go
    <1>9. ASSUME NEW e \in Line, EmitConnected(e)
         PROVE  FileReplaced
        BY <1>9 DEF EmitConnected, Go
    <1>10. ASSUME NEW e \in Line, EmitUnreachable(e)
         PROVE  FileReplaced
        BY <1>10 DEF EmitUnreachable, AppendCall, Go, Move
    <1>11. ASSUME NEW e \in Line, EmitStored(e)
         PROVE  FileReplaced
        BY <1>11 DEF EmitStored, IngestOk, DrainCall, Go, Move
    <1>12. ASSUME NEW e \in Line, EmitFailed(e)
         PROVE  FileReplaced
        BY <1>12 DEF EmitFailed, IngestRefused, IngestLost, AppendCall, Go,
        Move
    <1>13. ASSUME NEW d \in Drainer, DrainConnected(d)
         PROVE  FileReplaced
        BY <1>13 DEF DrainConnected, DrainCall, Go, Move
    <1>14. ASSUME NEW d \in Drainer, DrainUnreachable(d)
         PROVE  FileReplaced
        BY <1>14 DEF DrainUnreachable, Go
    <1>15. ASSUME NEW p \in Proc, Replayed(p)
         PROVE  FileReplaced
        BY <1>15 DEF Replayed, LineReplayed, IngestOk, Ingesting, Rest
    <1>16. ASSUME NEW p \in Proc, Refused(p)
         PROVE  FileReplaced
        BY <1>16 DEF Refused, LineDropped, IngestRefused, Ingesting, Rest
    <1>17. ASSUME NEW p \in Proc, Kept(p)
         PROVE  FileReplaced
        BY <1>17 DEF Kept, LineKept, IngestLost, Ingesting, Move
    <1>18. ASSUME NEW p \in Proc, SpoolLock(p)
         PROVE  FileReplaced
        BY <1>18 DEF SpoolLock, Lock, Move
    <1>19. ASSUME NEW p \in Proc, SpoolTrim(p)
         PROVE  FileReplaced
        BY <1>19 DEF SpoolTrim, DropOldest, Rest
    <1>20. ASSUME NEW p \in Proc, SpoolInternal(p)
         PROVE  FileReplaced
        BY <1>20 DEF SpoolInternal, AppendRead, Trimmed, DrainRead, DrainEnd,
        Write, Move
    <1>21. ASSUME NEW p \in Proc, SpoolReturn(p)
         PROVE  FileReplaced
        BY <1>21 DEF SpoolReturn, Unlock, Go, Forget
    <1>22. CASE UNCHANGED vars
        BY <1>22 DEF vars
    <1> QED
        BY <1>1, <1>2, <1>3, <1>4, <1>5, <1>6, <1>7, <1>8, <1>9, <1>10, <1>11,
        <1>12, <1>13, <1>14, <1>15, <1>16, <1>17, <1>18, <1>19, <1>20, <1>21,
        <1>22
           DEF Next, Environment, ServerStep, Step, EmitStep, DrainStep

\* The parts of the type invariant that are not the spool's.
Typed ==
    /\ ServerTypeOK
    /\ cmd \in [Proc -> Cmd]
    /\ overflowed \subseteq Line
    /\ unspooled \subseteq Line
    /\ poisoned \subseteq Line

\* The server, the commands and the history keep their types.
LEMMA TypedStep ==
    TypeOK /\ Typed /\ [Next]_vars => Typed'
    <1> SUFFICES ASSUME TypeOK, Typed, [Next]_vars PROVE Typed'
        OBVIOUS
    <1> USE
            CommandAssumption, HealthAssumption DEF vars, spoolVars, serverVars, history, Typed, ServerTypeOK, Cmd, Ended
    <1>1. ASSUME NEW e \in Line, LateCommit(e), UNCHANGED <<spoolVars, cmd, history>>
         PROVE  Typed'
        BY <1>1 DEF LateCommit, Insert
    <1>2. ASSUME NEW e \in Line, LateCancel(e), UNCHANGED <<spoolVars, cmd, history>>
         PROVE  Typed'
        BY <1>2 DEF LateCancel
    <1>3. ASSUME NEW h \in Healths, HealthChange(h), UNCHANGED <<spoolVars, cmd, history>>
         PROVE  Typed'
        BY <1>3 DEF HealthChange
    <1>4. ASSUME NEW p \in Proc, Skip(p)
         PROVE  Typed'
        BY <1>4 DEF Skip, Go
    <1>5. ASSUME NEW p \in Proc, SpoolFail(p)
         PROVE  Typed'
        <2>1. cmd' \in [Proc -> Cmd]
            BY <1>5 DEF SpoolFail, Go
        <2>2. arg[p] \in Line \cup {NoLine}
            BY DEF TypeOK
        <2>3. unspooled' \subseteq Line
            BY <1>5, <2>2 DEF SpoolFail
        <2> QED
            BY <1>5, <2>1, <2>3 DEF SpoolFail
    <1>6. ASSUME NEW p \in Proc, Crash(p)
         PROVE  Typed'
        BY <1>6 DEF Crash, SpoolCrash, Forget
    <1>7. ASSUME NEW d \in Drainer, DrainAgain(d)
         PROVE  Typed'
        BY <1>7 DEF DrainAgain
    <1>8. ASSUME NEW p \in Proc, Begin(p)
         PROVE  Typed'
        BY <1>8 DEF Begin, Go
    <1>9. ASSUME NEW e \in Line, EmitConnected(e)
         PROVE  Typed'
        BY <1>9 DEF EmitConnected, Go
    <1>10. ASSUME NEW e \in Line, EmitUnreachable(e)
         PROVE  Typed'
        BY <1>10 DEF EmitUnreachable, AppendCall, Go, Move
    <1>11. ASSUME NEW e \in Line, EmitStored(e)
         PROVE  Typed'
        BY <1>11 DEF EmitStored, IngestOk, Insert, Go
    <1>12. ASSUME NEW e \in Line, EmitFailed(e)
         PROVE  Typed'
        BY <1>12 DEF EmitFailed, IngestRefused, IngestLost, AppendCall, Go,
        Move
    <1>13. ASSUME NEW d \in Drainer, DrainConnected(d)
         PROVE  Typed'
        BY <1>13 DEF DrainConnected, DrainCall, Go, Move
    <1>14. ASSUME NEW d \in Drainer, DrainUnreachable(d)
         PROVE  Typed'
        BY <1>14 DEF DrainUnreachable, Go
    <1>15. ASSUME NEW p \in Proc, Replayed(p)
         PROVE  Typed'
        <2>1. Head(mem[p]) \in Line
            BY <1>15, HeadTailProperties DEF TypeOK, Replayed, LineReplayed, Ingesting
        <2> QED
            BY <1>15, <2>1 DEF Replayed, IngestOk, Insert
    <1>16. ASSUME NEW p \in Proc, Refused(p)
         PROVE  Typed'
        <2>1. Head(mem[p]) \in Line
            BY <1>16, HeadTailProperties DEF TypeOK, Refused, LineDropped, Ingesting
        <2> QED
            BY <1>16, <2>1 DEF Refused, IngestRefused
    <1>17. ASSUME NEW p \in Proc, Kept(p)
         PROVE  Typed'
        <2>1. Head(mem[p]) \in Line
            BY <1>17, HeadTailProperties DEF TypeOK, Kept, LineKept, Ingesting
        <2> QED
            BY <1>17, <2>1 DEF Kept, IngestLost
    <1>18. ASSUME NEW p \in Proc, SpoolLock(p)
         PROVE  Typed'
        BY <1>18 DEF SpoolLock, Lock, Move
    <1>19. ASSUME NEW p \in Proc, SpoolTrim(p)
         PROVE  Typed'
        <2>1. mem[p] \in Seq(Line) /\ mem[p] # <<>>
            BY <1>19 DEF TypeOK, SpoolTrim, DropOldest, Overflows
        <2>2. Head(mem[p]) \in Line
            BY <2>1, HeadTailProperties
        <2> QED
            BY <1>19, <2>2 DEF SpoolTrim
    <1>20. ASSUME NEW p \in Proc, SpoolInternal(p)
         PROVE  Typed'
        BY <1>20 DEF SpoolInternal, AppendRead, Trimmed, DrainRead, DrainEnd,
        Write, Move
    <1>21. ASSUME NEW p \in Proc, SpoolReturn(p)
         PROVE  Typed'
        BY <1>21 DEF SpoolReturn, Unlock, Go, Forget
    <1>22. CASE UNCHANGED vars
        BY <1>22 DEF vars
    <1> QED
        BY <1>1, <1>2, <1>3, <1>4, <1>5, <1>6, <1>7, <1>8, <1>9, <1>10, <1>11,
        <1>12, <1>13, <1>14, <1>15, <1>16, <1>17, <1>18, <1>19, <1>20, <1>21,
        <1>22
           DEF Next, Environment, ServerStep, Step, EmitStep, DrainStep

----------------------------------------------------------------------------

\* No line stands twice in s.
Distinct(s) == \A i, j \in DOMAIN s : s[i] = s[j] => i = j

\* A suffix holds lines of the whole, each at most as often.
LEMMA SuffixWithin ==
    ASSUME NEW s \in Seq(Line), NEW k \in 1 .. (Len(s) + 1)
    PROVE  /\ ToSet(From(s, k)) \subseteq ToSet(s)
           /\ Distinct(s) => Distinct(From(s, k))
    <1> DEFINE t == From(s, k)
    <1>1. /\ t \in Seq(Line) /\ Len(t) = Len(s) + 1 - k
          /\ \A i \in 1 .. (Len(s) + 1 - k) : t[i] = s[k + i - 1]
        BY FromProperties
    <1> HIDE DEF t
    <1>2. Len(s) \in Nat /\ DOMAIN s = 1 .. Len(s) /\ DOMAIN t = 1 .. Len(t)
        BY <1>1, LenProperties
    <1>3. \A i \in DOMAIN t : k + i - 1 \in DOMAIN s /\ t[i] = s[k + i - 1]
        BY <1>1, <1>2
    <1>4. ToSet(t) \subseteq ToSet(s)
        BY <1>3 DEF ToSet
    <1>5. ASSUME Distinct(s), NEW i \in DOMAIN t, NEW j \in DOMAIN t, t[i] = t[j]
          PROVE  i = j
        <2>1. k + i - 1 = k + j - 1
            BY <1>3, <1>5 DEF Distinct
        <2>2. i \in Nat /\ j \in Nat /\ k \in Nat
            BY <1>1, <1>2
        <2> QED
            BY <2>1, <2>2
    <1> QED
        BY <1>4, <1>5 DEF Distinct, t

\* Appending adds the line itself, and a new line no duplicate.
LEMMA AppendWithin ==
    ASSUME NEW s \in Seq(Line), NEW l \in Line
    PROVE  /\ ToSet(Append(s, l)) = ToSet(s) \cup {l}
           /\ Distinct(s) /\ l \notin ToSet(s) => Distinct(Append(s, l))
    <1> DEFINE t == Append(s, l)
    <1>1. /\ t \in Seq(Line) /\ Len(t) = Len(s) + 1 /\ t[Len(s) + 1] = l
          /\ \A i \in 1 .. Len(s) : t[i] = s[i]
        BY AppendProperties
    <1> HIDE DEF t
    <1>2. /\ Len(s) \in Nat /\ DOMAIN s = 1 .. Len(s)
          /\ DOMAIN t = 1 .. (Len(s) + 1)
        BY <1>1, LenProperties
    <1>3. DOMAIN t = DOMAIN s \cup {Len(s) + 1} /\ Len(s) + 1 \notin DOMAIN s
        BY <1>2
    <1>4. ToSet(t) = ToSet(s) \cup {l}
        BY <1>1, <1>2, <1>3 DEF ToSet
    <1>5. ASSUME Distinct(s), l \notin ToSet(s) PROVE Distinct(t)
        <2>1. \A i \in DOMAIN s : t[i] = s[i] /\ t[i] # l
            BY <1>1, <1>2, <1>5 DEF ToSet
        <2> QED
            BY <1>1, <1>3, <1>5, <2>1 DEF Distinct
    <1> QED
        BY <1>4, <1>5 DEF t

\* A drain writes lines of the file, an append also its own line; and neither
\* makes a line of the file stand in it twice.
LEMMA WriteTakes ==
    ASSUME SpoolInv, NEW q \in Proc, Write(q)
    PROVE  /\ ToSet(file') \subseteq ToSet(file) \cup {arg[q]}
           /\ arg[q] = NoLine => ToSet(file') \subseteq ToSet(file)
           /\ SpooledOnce /\ arg[q] \notin ToSet(file) => SpooledOnce'
    <1> USE DEF Distinct
    <1>1. /\ file' = mem[q] /\ op[q] = "write" /\ lock = q
          /\ file \in Seq(Line) /\ Len(file) \in Nat
          /\ arg[q] \in Line \cup {NoLine}
          /\ replayed[q] + dropped[q] \in Nat
        BY DEF Write, Move, SpoolInv, TypeOK, LockInv, Locked
    <1>2. CASE arg[q] = NoLine
        <2> DEFINE k == replayed[q] + dropped[q] + 1
        <2>1. k \in 1 .. (Len(file) + 1) /\ mem[q] = From(file, k)
            BY <1>1, <1>2 DEF SpoolInv, DrainAccounts
        <2> HIDE DEF k
        <2> QED
            BY <1>1, <2>1, SuffixWithin DEF SpooledOnce
    <1>3. CASE arg[q] \in Line
        <2> DEFINE s == Append(file, arg[q])
        <2>1. arg[q] # NoLine
            BY <1>3, LineAssumption
        <2>2. PICK k \in 1 .. Len(s) : mem[q] = From(s, k)
            BY <1>1, <2>1 DEF SpoolInv, AppendTrims, PartlyTrimmed
        <2>3. /\ s \in Seq(Line) /\ k \in 1 .. (Len(s) + 1)
              /\ ToSet(s) = ToSet(file) \cup {arg[q]}
              /\ SpooledOnce /\ arg[q] \notin ToSet(file) => Distinct(s)
            BY <1>1, <1>3, <2>2, AppendWithin, AppendProperties DEF SpooledOnce
        <2> HIDE DEF s
        <2>4. /\ ToSet(mem[q]) \subseteq ToSet(s)
              /\ Distinct(s) => Distinct(mem[q])
            BY <2>2, <2>3, SuffixWithin
        <2> QED
            BY <1>1, <2>1, <2>3, <2>4 DEF SpooledOnce
    <1> QED
        BY <1>1, <1>2, <1>3

\* A line that leaves the file leaves for a reason.
LEMMA LeavesStep ==
    ASSUME TypeOK, ServerTypeOK, Custody, [Next]_vars,
           NEW l \in Line, l \in ToSet(file), l \notin ToSet(file')
    PROVE  Stored(l)' \/ l \in overflowed' \cup poisoned'
    <1>1. PICK q \in Proc : Write(q) /\ UNCHANGED <<serverVars, cmd, history>>
        BY FileEffect DEF FileReplaced
    <1>2. op[q] = "write" /\ file' = mem[q]
        BY <1>1 DEF Write, Move
    <1>3. Stored(l) \/ l \in overflowed \cup poisoned
        BY <1>2 DEF Custody
    <1> QED
        BY <1>1, <1>3, StoredStable DEF history

\* An event that is accounted for stays accounted for.
LEMMA AccountedStable ==
    ASSUME TypeOK, ServerTypeOK, Custody, [Next]_vars,
           NEW e \in Line, Accounted(e)
    PROVE  Accounted(e)'
    <1>1. CASE Stored(e)
        BY <1>1, StoredStable DEF Accounted
    <1>2. CASE e \in overflowed \cup unspooled \cup poisoned
        BY <1>2, HistoryGrows DEF Accounted, HistoryKept
    <1>3. CASE e \in ToSet(file)
        BY <1>3, LeavesStep DEF Accounted
    <1> QED
        BY <1>1, <1>2, <1>3 DEF Accounted

\* An ingest that returned nil leaves a row with the event's event_uuid.
LEMMA IngestStores ==
    ASSUME ServerTypeOK, NEW e \in Line, IngestOk(e)
    PROVE  Stored(e)'
    <1>1. raw \in Seq(Line)
        BY DEF ServerTypeOK
    <1>2. CASE Stored(e)
        BY <1>2 DEF IngestOk, Insert, Stored
    <1>3. CASE ~ Stored(e)
        <2>1. raw' = Append(raw, e)
            BY <1>3 DEF IngestOk, Insert
        <2>2. Len(raw) + 1 \in DOMAIN raw' /\ raw'[Len(raw) + 1] = e
            BY <1>1, <2>1, AppendProperties, LenProperties
        <2> QED
            BY <2>2 DEF Stored
    <1> QED
        BY <1>2, <1>3

----------------------------------------------------------------------------

\* A command stays in step with its operation on the spool, and an event is
\* accounted for when that operation is about to return.
LEMMA CommandsStep ==
    ASSUME PipelineInv, [Next]_vars
    PROVE  Commands'
    <1> DEFINE Stays ==
            \A e \in Line :
                (Stored(e) => Stored(e)') /\ (Accounted(e) => Accounted(e)')
    <1>a. Stays
        BY StoredStable, AccountedStable DEF PipelineInv, PipelineTypeOK
    <1>b. TypeOK /\ Commands /\ Custody /\ LockInv /\ cmd \in [Proc -> Cmd]
        BY DEF PipelineInv, PipelineTypeOK, SpoolInv
    <1> USE CommandAssumption, LineAssumption DEF vars, spoolVars, serverVars,
        history, TypeOK, Commands, Op, Locked
    <1>1. ASSUME NEW e \in Line, LateCommit(e), UNCHANGED <<spoolVars, cmd, history>>
         PROVE  Commands'
        BY <1>1, <1>a, <1>b DEF LateCommit
    <1>2. ASSUME NEW e \in Line, LateCancel(e), UNCHANGED <<spoolVars, cmd, history>>
         PROVE  Commands'
        BY <1>2, <1>a, <1>b DEF LateCancel
    <1>3. ASSUME NEW h \in Healths, HealthChange(h), UNCHANGED <<spoolVars, cmd, history>>
         PROVE  Commands'
        BY <1>3, <1>a, <1>b DEF HealthChange
    <1>4. ASSUME NEW p \in Proc, Skip(p)
         PROVE  Commands'
        BY <1>4, <1>a, <1>b DEF Skip, Go
    <1>5. ASSUME NEW p \in Proc, SpoolFail(p)
         PROVE  Commands'
        <2>1. ASSUME p \in Line, op[p] # "idle" PROVE Accounted(p)'
            BY <1>5, <1>a, <1>b, <2>1 DEF SpoolFail, Accounted
        <2>2. CASE ReadFail(p) /\ UNCHANGED cmd
            BY <1>a, <1>b, <2>1, <2>2 DEF ReadFail, Move
        <2>3. CASE WriteFail(p) /\ UNCHANGED cmd
            BY <1>a, <1>b, <2>1, <2>3 DEF WriteFail, Move
        <2>4. CASE LockFail(p) /\ Go(p, "spool", "done")
            BY <1>a, <1>b, <2>4 DEF LockFail, Go, Forget
        <2> QED
            BY <1>5, <2>2, <2>3, <2>4 DEF SpoolFail
    <1>6. ASSUME NEW p \in Proc, Crash(p)
         PROVE  Commands'
        BY <1>6, <1>a, <1>b DEF Crash, SpoolCrash, Forget
    <1>7. ASSUME NEW d \in Drainer, DrainAgain(d)
         PROVE  Commands'
        BY <1>7, <1>a, <1>b DEF DrainAgain
    <1>8. ASSUME NEW p \in Proc, Begin(p)
         PROVE  Commands'
        BY <1>8, <1>a, <1>b DEF Begin, Go
    <1>9. ASSUME NEW e \in Line, EmitConnected(e)
         PROVE  Commands'
        BY <1>9, <1>a, <1>b DEF EmitConnected, Go
    <1>10. ASSUME NEW e \in Line, EmitUnreachable(e)
         PROVE  Commands'
        BY <1>10, <1>a, <1>b DEF EmitUnreachable, AppendCall, Go, Move
    <1>11. ASSUME NEW e \in Line, EmitStored(e)
         PROVE  Commands'
        <2>1. Stored(e)'
            BY <1>11, IngestStores DEF EmitStored, PipelineInv, PipelineTypeOK
        <2> QED
            BY <1>11, <1>a, <1>b, <2>1 DEF EmitStored, DrainCall, Go, Move
    <1>12. ASSUME NEW e \in Line, EmitFailed(e)
         PROVE  Commands'
        BY <1>12, <1>a, <1>b DEF EmitFailed, IngestRefused, IngestLost,
        AppendCall, Go, Move
    <1>13. ASSUME NEW d \in Drainer, DrainConnected(d)
         PROVE  Commands'
        BY <1>13, <1>a, <1>b DEF DrainConnected, DrainCall, Go, Move
    <1>14. ASSUME NEW d \in Drainer, DrainUnreachable(d)
         PROVE  Commands'
        BY <1>14, <1>a, <1>b DEF DrainUnreachable, Go
    <1>15. ASSUME NEW p \in Proc, Replayed(p)
         PROVE  Commands'
        BY <1>15, <1>a, <1>b DEF Replayed, LineReplayed, IngestOk, Ingesting,
        Rest
    <1>16. ASSUME NEW p \in Proc, Refused(p)
         PROVE  Commands'
        BY <1>16, <1>a, <1>b DEF Refused, LineDropped, IngestRefused,
        Ingesting, Rest
    <1>17. ASSUME NEW p \in Proc, Kept(p)
         PROVE  Commands'
        BY <1>17, <1>a, <1>b DEF Kept, LineKept, IngestLost, Ingesting, Move
    <1>18. ASSUME NEW p \in Proc, SpoolLock(p)
         PROVE  Commands'
        BY <1>18, <1>a, <1>b DEF SpoolLock, Lock, Move
    <1>19. ASSUME NEW p \in Proc, SpoolTrim(p)
         PROVE  Commands'
        BY <1>19, <1>a, <1>b DEF SpoolTrim, DropOldest, Rest
    <1>20. ASSUME NEW p \in Proc, SpoolInternal(p)
         PROVE  Commands'
        <2>1. CASE Write(p)
            <3>1. op[p] = "write" /\ file' = mem[p]
                BY <2>1 DEF Write, Move
            <3>2. ASSUME p \in Line PROVE Accounted(p)'
                <4>1. p \in ToSet(file') \/ Accounted(p)
                    BY <1>b, <3>1, <3>2 DEF Custody, Accounted
                <4> QED
                    BY <1>a, <3>2, <4>1 DEF Accounted
            <3> QED
                BY <1>20, <1>a, <1>b, <2>1, <3>2 DEF SpoolInternal, Write, Move
        <2>2. CASE AppendRead(p) \/ Trimmed(p) \/ DrainRead(p) \/ DrainEnd(p)
            BY <1>20, <1>a, <1>b, <2>2
               DEF SpoolInternal, AppendRead, Trimmed, DrainRead, DrainEnd, Move
        <2> QED
            BY <1>20, <2>1, <2>2 DEF SpoolInternal
    <1>21. ASSUME NEW p \in Proc, SpoolReturn(p)
         PROVE  Commands'
        BY <1>21, <1>a, <1>b DEF SpoolReturn, Unlock, Go, Forget
    <1>22. CASE UNCHANGED vars
        BY <1>22, <1>a, <1>b DEF vars
    <1> QED
        BY <1>1, <1>2, <1>3, <1>4, <1>5, <1>6, <1>7, <1>8, <1>9, <1>10, <1>11,
        <1>12, <1>13, <1>14, <1>15, <1>16, <1>17, <1>18, <1>19, <1>20, <1>21,
        <1>22
           DEF Next, Environment, ServerStep, Step, EmitStep, DrainStep

\* What a sequence holds is its head and what its tail holds.
LEMMA HeadAndTail ==
    ASSUME NEW s \in Seq(Line), s # <<>>
    PROVE  Head(s) \in Line /\ ToSet(s) = {Head(s)} \cup ToSet(Tail(s))
    <1> DEFINE t == Tail(s)
    <1>1. /\ t \in Seq(Line) /\ Len(t) = Len(s) - 1 /\ Head(s) = s[1]
          /\ Len(s) \in Nat \ {0} /\ \A i \in 1 .. Len(t) : t[i] = s[i + 1]
        BY HeadTailProperties
    <1> HIDE DEF t
    <1>2. DOMAIN s = 1 .. Len(s) /\ DOMAIN t = 1 .. (Len(s) - 1)
        BY <1>1, LenProperties
    <1>3. Head(s) \in Line /\ Head(s) \in ToSet(s)
        BY <1>1, <1>2 DEF ToSet
    <1>4. ToSet(t) \subseteq ToSet(s)
        <2>1. \A i \in DOMAIN t : i + 1 \in DOMAIN s /\ t[i] = s[i + 1]
            BY <1>1, <1>2
        <2> QED
            BY <2>1 DEF ToSet
    <1>5. ASSUME NEW i \in DOMAIN s, s[i] # Head(s) PROVE s[i] \in ToSet(t)
        <2>1. i - 1 \in DOMAIN t /\ t[i - 1] = s[i]
            BY <1>1, <1>2, <1>5
        <2> QED
            BY <2>1 DEF ToSet
    <1> QED
        BY <1>3, <1>4, <1>5 DEF ToSet, t

\* Whoever is going to replace the file keeps every line it may not lose.
LEMMA CustodyStep ==
    ASSUME PipelineInv, [Next]_vars
    PROVE  Custody'
    <1> DEFINE Known(l) == Stored(l) \/ l \in overflowed \cup poisoned
    <1>a. \A l \in Line : Known(l) => Known(l)'
        BY StoredStable, HistoryGrows DEF PipelineInv, PipelineTypeOK, HistoryKept
    <1>b. /\ TypeOK /\ ServerTypeOK /\ LockInv /\ Phases
          /\ \A p \in Proc : op[p] \in {"trim", "loop", "write"} =>
                 \A l \in Line : l \in ToSet(file) \/ l = arg[p] =>
                     l \in ToSet(mem[p]) \/ Known(l)
        BY DEF PipelineInv, PipelineTypeOK, SpoolInv, Custody
    <1> DEFINE Held ==
            \A p \in Proc : op'[p] \in {"trim", "loop", "write"} =>
                \A l \in Line : l \in ToSet(file') \/ l = arg'[p] =>
                    l \in ToSet(mem'[p]) \/ Known(l)'
    <1> SUFFICES Held
        BY DEF Custody
    <1> HIDE DEF Known
    <1> USE DEF vars, spoolVars, serverVars, history, TypeOK, Op
    <1>1. ASSUME NEW e \in Line, LateCommit(e), UNCHANGED <<spoolVars, cmd, history>>
         PROVE  Held
        BY <1>1, <1>a, <1>b DEF LateCommit
    <1>2. ASSUME NEW e \in Line, LateCancel(e), UNCHANGED <<spoolVars, cmd, history>>
         PROVE  Held
        BY <1>2, <1>a, <1>b DEF LateCancel
    <1>3. ASSUME NEW h \in Healths, HealthChange(h), UNCHANGED <<spoolVars, cmd, history>>
         PROVE  Held
        BY <1>3, <1>a, <1>b DEF HealthChange
    <1>4. ASSUME NEW p \in Proc, Skip(p)
         PROVE  Held
        BY <1>4, <1>a, <1>b DEF Skip, Go
    <1>5. ASSUME NEW p \in Proc, SpoolFail(p)
         PROVE  Held
        <2>1. CASE ReadFail(p) \/ WriteFail(p)
            BY <1>5, <1>a, <1>b, <2>1 DEF SpoolFail, ReadFail, WriteFail, Move
        <2>2. CASE LockFail(p)
            BY <1>5, <1>a, <1>b, <2>2 DEF SpoolFail, LockFail, Forget
        <2> QED
            BY <1>5, <2>1, <2>2 DEF SpoolFail
    <1>6. ASSUME NEW p \in Proc, Crash(p)
         PROVE  Held
        BY <1>6, <1>a, <1>b DEF Crash, SpoolCrash, Forget
    <1>7. ASSUME NEW d \in Drainer, DrainAgain(d)
         PROVE  Held
        BY <1>7, <1>a, <1>b DEF DrainAgain
    <1>8. ASSUME NEW p \in Proc, Begin(p)
         PROVE  Held
        BY <1>8, <1>a, <1>b DEF Begin, Go
    <1>9. ASSUME NEW e \in Line, EmitConnected(e)
         PROVE  Held
        BY <1>9, <1>a, <1>b DEF EmitConnected, Go
    <1>10. ASSUME NEW e \in Line, EmitUnreachable(e)
         PROVE  Held
        BY <1>10, <1>a, <1>b DEF EmitUnreachable, AppendCall, Go, Move
    <1>11. ASSUME NEW e \in Line, EmitStored(e)
         PROVE  Held
        BY <1>11, <1>a, <1>b DEF EmitStored, IngestOk, DrainCall, Go, Move
    <1>12. ASSUME NEW e \in Line, EmitFailed(e)
         PROVE  Held
        BY <1>12, <1>a, <1>b DEF EmitFailed, IngestRefused, IngestLost,
        AppendCall, Go, Move
    <1>13. ASSUME NEW d \in Drainer, DrainConnected(d)
         PROVE  Held
        BY <1>13, <1>a, <1>b DEF DrainConnected, DrainCall, Go, Move
    <1>14. ASSUME NEW d \in Drainer, DrainUnreachable(d)
         PROVE  Held
        BY <1>14, <1>a, <1>b DEF DrainUnreachable, Go
    <1>15. ASSUME NEW p \in Proc, Replayed(p)
         PROVE  Held
        <2>1. mem[p] # <<>> /\ mem[p] \in Seq(Line) /\ op[p] = "loop"
            BY <1>15, <1>b DEF Replayed, LineReplayed, Ingesting
        <2>2. PICK h \in Line : h = Head(mem[p])
            BY <2>1, HeadAndTail
        <2>3. ToSet(mem[p]) = {h} \cup ToSet(Tail(mem[p]))
            BY <2>1, <2>2, HeadAndTail
        <2>4. Known(h)'
            BY <1>15, <1>b, <2>2, IngestStores DEF Replayed, Known
        <2>5. /\ mem' = [mem EXCEPT ![p] = Tail(mem[p])]
              /\ UNCHANGED <<file, op, arg>>
            BY <1>15 DEF Replayed, LineReplayed, Rest
        <2> QED
            BY <1>a, <1>b, <2>1, <2>3, <2>4, <2>5
    <1>16. ASSUME NEW p \in Proc, Refused(p)
         PROVE  Held
        <2>1. mem[p] # <<>> /\ mem[p] \in Seq(Line) /\ op[p] = "loop"
            BY <1>16, <1>b DEF Refused, LineDropped, Ingesting
        <2>2. PICK h \in Line : h = Head(mem[p])
            BY <2>1, HeadAndTail
        <2>3. ToSet(mem[p]) = {h} \cup ToSet(Tail(mem[p]))
            BY <2>1, <2>2, HeadAndTail
        <2>4. Known(h)'
            BY <1>16, <2>2 DEF Refused, Known
        <2>5. /\ mem' = [mem EXCEPT ![p] = Tail(mem[p])]
              /\ UNCHANGED <<file, op, arg>>
            BY <1>16 DEF Refused, LineDropped, Rest
        <2> QED
            BY <1>a, <1>b, <2>1, <2>3, <2>4, <2>5
    <1>17. ASSUME NEW p \in Proc, Kept(p)
         PROVE  Held
        BY <1>17, <1>a, <1>b DEF Kept, LineKept, IngestLost, Ingesting, Move
    <1>18. ASSUME NEW p \in Proc, SpoolLock(p)
         PROVE  Held
        BY <1>18, <1>a, <1>b DEF SpoolLock, Lock, Move
    <1>19. ASSUME NEW p \in Proc, SpoolTrim(p)
         PROVE  Held
        <2>1. mem[p] # <<>> /\ mem[p] \in Seq(Line) /\ op[p] = "trim"
            BY <1>19, <1>b DEF SpoolTrim, DropOldest, Overflows
        <2>2. PICK h \in Line : h = Head(mem[p])
            BY <2>1, HeadAndTail
        <2>3. ToSet(mem[p]) = {h} \cup ToSet(Tail(mem[p]))
            BY <2>1, <2>2, HeadAndTail
        <2>4. Known(h)'
            BY <1>19, <2>2 DEF SpoolTrim, Known
        <2>5. /\ mem' = [mem EXCEPT ![p] = Tail(mem[p])]
              /\ UNCHANGED <<file, op, arg>>
            BY <1>19 DEF SpoolTrim, DropOldest, Rest
        <2> QED
            BY <1>a, <1>b, <2>1, <2>3, <2>4, <2>5
    <1>20. ASSUME NEW p \in Proc, SpoolInternal(p)
         PROVE  Held
        <2>1. CASE AppendRead(p)
            <3>1. file \in Seq(Line) /\ arg[p] \in Line
                BY <1>b, <2>1 DEF AppendRead
            <3>2. mem'[p] = Append(file, arg[p]) /\ UNCHANGED <<file, arg>>
                BY <1>b, <2>1 DEF AppendRead
            <3>3. ToSet(mem'[p]) = ToSet(file) \cup {arg[p]}
                BY <3>1, <3>2, AppendWithin
            <3> QED
                BY <1>20, <1>a, <1>b, <2>1, <3>2, <3>3 DEF SpoolInternal, AppendRead, Move
        <2>2. CASE Write(p)
            <3>1. \A q \in Proc : op[q] \in {"trim", "loop", "write"} => q = p
                BY <1>b, <2>2 DEF Write, Move, LockInv, Locked
            <3> QED
                BY <1>b, <2>2, <3>1 DEF Write, Move
        <2>3. CASE Trimmed(p) \/ DrainRead(p) \/ DrainEnd(p)
            BY <1>20, <1>a, <1>b, <2>3, LineAssumption
               DEF SpoolInternal, Trimmed, DrainRead, DrainEnd, Move
        <2> QED
            BY <1>20, <2>1, <2>2, <2>3 DEF SpoolInternal
    <1>21. ASSUME NEW p \in Proc, SpoolReturn(p)
         PROVE  Held
        BY <1>21, <1>a, <1>b DEF SpoolReturn, Unlock, Go, Forget
    <1>22. CASE UNCHANGED vars
        BY <1>22, <1>a, <1>b DEF vars
    <1> QED
        BY <1>1, <1>2, <1>3, <1>4, <1>5, <1>6, <1>7, <1>8, <1>9, <1>10, <1>11,
        <1>12, <1>13, <1>14, <1>15, <1>16, <1>17, <1>18, <1>19, <1>20, <1>21,
        <1>22
           DEF Next, Environment, ServerStep, Step, EmitStep, DrainStep

\* An emit process returns only when its event is accounted for, and the event
\* stays so.
LEMMA NoSilentLossStep ==
    ASSUME PipelineInv, [Next]_vars
    PROVE  NoSilentLoss'
    <1> DEFINE Stays ==
            \A e \in Line :
                (Stored(e) => Stored(e)') /\ (Accounted(e) => Accounted(e)')
    <1>a. Stays
        BY StoredStable, AccountedStable DEF PipelineInv, PipelineTypeOK
    <1>b. TypeOK /\ Commands /\ Custody /\ NoSilentLoss /\ cmd \in [Proc -> Cmd]
        BY DEF PipelineInv, PipelineTypeOK, SpoolInv
    <1> USE CommandAssumption DEF vars, spoolVars, serverVars, history,
        NoSilentLoss, Op, Locked, TypeOK
    <1>1. ASSUME NEW e \in Line, LateCommit(e), UNCHANGED <<spoolVars, cmd, history>>
         PROVE  NoSilentLoss'
        BY <1>1, <1>a, <1>b DEF LateCommit
    <1>2. ASSUME NEW e \in Line, LateCancel(e), UNCHANGED <<spoolVars, cmd, history>>
         PROVE  NoSilentLoss'
        BY <1>2, <1>a, <1>b DEF LateCancel
    <1>3. ASSUME NEW h \in Healths, HealthChange(h), UNCHANGED <<spoolVars, cmd, history>>
         PROVE  NoSilentLoss'
        BY <1>3, <1>a, <1>b DEF HealthChange
    <1>4. ASSUME NEW p \in Proc, Skip(p)
         PROVE  NoSilentLoss'
        BY <1>4, <1>a, <1>b DEF Skip, Go
    <1>5. ASSUME NEW p \in Proc, SpoolFail(p)
         PROVE  NoSilentLoss'
        <2>1. CASE UNCHANGED cmd
            BY <1>a, <1>b, <2>1
        <2>2. CASE LockFail(p) /\ Go(p, "spool", "done")
            <3>1. p \in Line => Accounted(p)'
                BY <1>5, <1>a, <1>b, <2>2 DEF SpoolFail, LockFail, Go, Commands, Accounted
            <3> QED
                BY <1>a, <1>b, <2>2, <3>1 DEF Go
        <2> QED
            BY <1>5, <2>1, <2>2 DEF SpoolFail
    <1>6. ASSUME NEW p \in Proc, Crash(p)
         PROVE  NoSilentLoss'
        BY <1>6, <1>a, <1>b DEF Crash, SpoolCrash, Forget
    <1>7. ASSUME NEW d \in Drainer, DrainAgain(d)
         PROVE  NoSilentLoss'
        BY <1>7, <1>a, <1>b DEF DrainAgain
    <1>8. ASSUME NEW p \in Proc, Begin(p)
         PROVE  NoSilentLoss'
        BY <1>8, <1>a, <1>b DEF Begin, Go
    <1>9. ASSUME NEW e \in Line, EmitConnected(e)
         PROVE  NoSilentLoss'
        BY <1>9, <1>a, <1>b DEF EmitConnected, Go
    <1>10. ASSUME NEW e \in Line, EmitUnreachable(e)
         PROVE  NoSilentLoss'
        BY <1>10, <1>a, <1>b DEF EmitUnreachable, AppendCall, Go, Move
    <1>11. ASSUME NEW e \in Line, EmitStored(e)
         PROVE  NoSilentLoss'
        BY <1>11, <1>a, <1>b DEF EmitStored, IngestOk, DrainCall, Go, Move
    <1>12. ASSUME NEW e \in Line, EmitFailed(e)
         PROVE  NoSilentLoss'
        BY <1>12, <1>a, <1>b DEF EmitFailed, IngestRefused, IngestLost,
        AppendCall, Go, Move
    <1>13. ASSUME NEW d \in Drainer, DrainConnected(d)
         PROVE  NoSilentLoss'
        BY <1>13, <1>a, <1>b DEF DrainConnected, DrainCall, Go, Move
    <1>14. ASSUME NEW d \in Drainer, DrainUnreachable(d)
         PROVE  NoSilentLoss'
        BY <1>14, <1>a, <1>b DEF DrainUnreachable, Go
    <1>15. ASSUME NEW p \in Proc, Replayed(p)
         PROVE  NoSilentLoss'
        BY <1>15, <1>a, <1>b DEF Replayed, LineReplayed, IngestOk, Ingesting,
        Rest
    <1>16. ASSUME NEW p \in Proc, Refused(p)
         PROVE  NoSilentLoss'
        BY <1>16, <1>a, <1>b DEF Refused, LineDropped, IngestRefused,
        Ingesting, Rest
    <1>17. ASSUME NEW p \in Proc, Kept(p)
         PROVE  NoSilentLoss'
        BY <1>17, <1>a, <1>b DEF Kept, LineKept, IngestLost, Ingesting, Move
    <1>18. ASSUME NEW p \in Proc, SpoolLock(p)
         PROVE  NoSilentLoss'
        BY <1>18, <1>a, <1>b DEF SpoolLock, Lock, Move
    <1>19. ASSUME NEW p \in Proc, SpoolTrim(p)
         PROVE  NoSilentLoss'
        BY <1>19, <1>a, <1>b DEF SpoolTrim, DropOldest, Rest
    <1>20. ASSUME NEW p \in Proc, SpoolInternal(p)
         PROVE  NoSilentLoss'
        BY <1>20, <1>a, <1>b DEF SpoolInternal, AppendRead, Trimmed, DrainRead,
        DrainEnd, Write, Move
    <1>21. ASSUME NEW p \in Proc, SpoolReturn(p)
         PROVE  NoSilentLoss'
        <2>1. p \in Line => Accounted(p)'
            BY <1>21, <1>a, <1>b DEF SpoolReturn, Unlock, Commands
        <2> QED
            BY <1>21, <1>a, <1>b, <2>1 DEF SpoolReturn, Go
    <1>22. CASE UNCHANGED vars
        BY <1>22, <1>a, <1>b DEF vars
    <1> QED
        BY <1>1, <1>2, <1>3, <1>4, <1>5, <1>6, <1>7, <1>8, <1>9, <1>10, <1>11,
        <1>12, <1>13, <1>14, <1>15, <1>16, <1>17, <1>18, <1>19, <1>20, <1>21,
        <1>22
           DEF Next, Environment, ServerStep, Step, EmitStep, DrainStep

\* Nobody spools an event before its own emit process does.
LEMMA UnspooledStep ==
    ASSUME PipelineInv, [Next]_vars
    PROVE  Unspooled'
    <1>a. TypeOK /\ Phases /\ Commands /\ Unspooled /\ cmd \in [Proc -> Cmd]
        BY DEF PipelineInv, PipelineTypeOK, SpoolInv
    <1> USE CommandAssumption, LineAssumption DEF vars, spoolVars, serverVars,
        history, Unspooled, Op, TypeOK, Ended, Commands
    <1>1. ASSUME NEW e \in Line, LateCommit(e), UNCHANGED <<spoolVars, cmd, history>>
         PROVE  Unspooled'
        BY <1>1, <1>a DEF LateCommit
    <1>2. ASSUME NEW e \in Line, LateCancel(e), UNCHANGED <<spoolVars, cmd, history>>
         PROVE  Unspooled'
        BY <1>2, <1>a DEF LateCancel
    <1>3. ASSUME NEW h \in Healths, HealthChange(h), UNCHANGED <<spoolVars, cmd, history>>
         PROVE  Unspooled'
        BY <1>3, <1>a DEF HealthChange
    <1>4. ASSUME NEW p \in Proc, Skip(p)
         PROVE  Unspooled'
        BY <1>4, <1>a DEF Skip, Go
    <1>5. ASSUME NEW p \in Proc, SpoolFail(p)
         PROVE  Unspooled'
        <2>1. CASE ReadFail(p) \/ WriteFail(p)
            BY <1>5, <1>a, <2>1 DEF SpoolFail, ReadFail, WriteFail, Move, Go
        <2>2. CASE LockFail(p) /\ Go(p, "spool", "done")
            BY <1>5, <1>a, <2>2 DEF SpoolFail, LockFail, Forget, Go
        <2> QED
            BY <1>5, <2>1, <2>2 DEF SpoolFail
    <1>6. ASSUME NEW p \in Proc, Crash(p)
         PROVE  Unspooled'
        BY <1>6, <1>a DEF Crash, SpoolCrash, Forget
    <1>7. ASSUME NEW d \in Drainer, DrainAgain(d)
         PROVE  Unspooled'
        BY <1>7, <1>a DEF DrainAgain
    <1>8. ASSUME NEW p \in Proc, Begin(p)
         PROVE  Unspooled'
        BY <1>8, <1>a DEF Begin, Go
    <1>9. ASSUME NEW e \in Line, EmitConnected(e)
         PROVE  Unspooled'
        BY <1>9, <1>a DEF EmitConnected, Go
    <1>10. ASSUME NEW e \in Line, EmitUnreachable(e)
         PROVE  Unspooled'
        BY <1>10, <1>a DEF EmitUnreachable, AppendCall, Go, Move
    <1>11. ASSUME NEW e \in Line, EmitStored(e)
         PROVE  Unspooled'
        BY <1>11, <1>a DEF EmitStored, IngestOk, DrainCall, Go, Move
    <1>12. ASSUME NEW e \in Line, EmitFailed(e)
         PROVE  Unspooled'
        BY <1>12, <1>a DEF EmitFailed, IngestRefused, IngestLost, AppendCall,
        Go, Move
    <1>13. ASSUME NEW d \in Drainer, DrainConnected(d)
         PROVE  Unspooled'
        BY <1>13, <1>a DEF DrainConnected, DrainCall, Go, Move
    <1>14. ASSUME NEW d \in Drainer, DrainUnreachable(d)
         PROVE  Unspooled'
        BY <1>14, <1>a DEF DrainUnreachable, Go
    <1>15. ASSUME NEW p \in Proc, Replayed(p)
         PROVE  Unspooled'
        BY <1>15, <1>a DEF Replayed, LineReplayed, IngestOk, Ingesting, Rest
    <1>16. ASSUME NEW p \in Proc, Refused(p)
         PROVE  Unspooled'
        BY <1>16, <1>a DEF Refused, LineDropped, IngestRefused, Ingesting, Rest
    <1>17. ASSUME NEW p \in Proc, Kept(p)
         PROVE  Unspooled'
        BY <1>17, <1>a DEF Kept, LineKept, Ingesting, Move, Phases
    <1>18. ASSUME NEW p \in Proc, SpoolLock(p)
         PROVE  Unspooled'
        BY <1>18, <1>a DEF SpoolLock, Lock, Move
    <1>19. ASSUME NEW p \in Proc, SpoolTrim(p)
         PROVE  Unspooled'
        BY <1>19, <1>a DEF SpoolTrim, DropOldest, Rest
    <1>20. ASSUME NEW p \in Proc, SpoolInternal(p)
         PROVE  Unspooled'
        <2>1. CASE Write(p)
            <3>1. /\ ToSet(file') \subseteq ToSet(file) \cup {arg[p]}
                  /\ arg[p] = NoLine => ToSet(file') \subseteq ToSet(file)
                BY <2>1, WriteTakes DEF PipelineInv
            <3>2. arg[p] \in {p, NoLine} /\ (p \in Line => cmd[p] = "spool")
                BY <1>a, <2>1 DEF Write, Move, Commands
            <3>3. UNCHANGED <<cmd, arg>> /\ op' = [op EXCEPT ![p] = "unlock"]
                BY <1>20, <2>1 DEF SpoolInternal, Write, Move
            <3> SUFFICES ASSUME NEW e \in Line,
                                \/ cmd'[e] \in {"start", "connect", "ingest"}
                                \/ /\ arg'[e] = e
                                   /\ op'[e] \in {"lock", "read", "trim", "write"}
                         PROVE  e \notin ToSet(file')
                BY DEF Unspooled
            <3>4. e # p
                BY <1>a, <3>2, <3>3
            <3>5. e \notin ToSet(file)
                BY <1>a, <3>3, <3>4
            <3> QED
                BY <3>1, <3>2, <3>4, <3>5
        <2>2. CASE AppendRead(p) \/ Trimmed(p) \/ DrainRead(p) \/ DrainEnd(p)
            BY <1>20, <1>a, <2>2
               DEF SpoolInternal, AppendRead, Trimmed, DrainRead, DrainEnd, Move,
                   Phases
        <2> QED
            BY <1>20, <2>1, <2>2 DEF SpoolInternal
    <1>21. ASSUME NEW p \in Proc, SpoolReturn(p)
         PROVE  Unspooled'
        BY <1>21, <1>a DEF SpoolReturn, Unlock, Go, Forget
    <1>22. CASE UNCHANGED vars
        BY <1>22, <1>a DEF vars
    <1> QED
        BY <1>1, <1>2, <1>3, <1>4, <1>5, <1>6, <1>7, <1>8, <1>9, <1>10, <1>11,
        <1>12, <1>13, <1>14, <1>15, <1>16, <1>17, <1>18, <1>19, <1>20, <1>21,
        <1>22
           DEF Next, Environment, ServerStep, Step, EmitStep, DrainStep

\* No event is spooled twice: the line an append adds is not in the file yet.
LEMMA SpooledOnceStep ==
    ASSUME PipelineInv, [Next]_vars
    PROVE  SpooledOnce'
    <1>1. CASE UNCHANGED file
        BY <1>1 DEF PipelineInv, SpooledOnce
    <1>2. ASSUME NEW q \in Proc, Write(q) PROVE SpooledOnce'
        <2>1. arg[q] \notin ToSet(file)
            <3>1. op[q] = "write" /\ file \in Seq(Line)
                BY <1>2 DEF Write, Move, PipelineInv, SpoolInv, TypeOK
            <3>2. arg[q] = NoLine \/ (q \in Line /\ arg[q] = q)
                BY CommandAssumption DEF PipelineInv, Commands
            <3>3. NoLine \notin ToSet(file)
                <4>1. \A i \in DOMAIN file : file[i] \in Line
                    BY <3>1
                <4> QED
                    BY <4>1, LineAssumption DEF ToSet
            <3> QED
                BY <3>1, <3>2, <3>3 DEF PipelineInv, Unspooled
        <2> QED
            BY <1>2, <2>1, WriteTakes DEF PipelineInv
    <1> QED
        BY <1>1, <1>2, FileEffect DEF FileReplaced

----------------------------------------------------------------------------

\* The invariant holds at the start.
LEMMA PipelineInit == Init => PipelineInv
    <1> SUFFICES ASSUME Init PROVE PipelineInv
        OBVIOUS
    <1>1. SpoolInv
        BY InitInv DEF Init
    <1> USE DEF Init, SpoolInit, ServerInit
    <1>2. PipelineTypeOK
        BY <1>1, HealthAssumption DEF PipelineTypeOK, SpoolInv, ServerTypeOK, Cmd
    <1>3. StoredOnce /\ SpooledOnce
        BY DEF StoredOnce, SpooledOnce
    <1>4. Commands
        BY CommandAssumption DEF Commands
    <1>5. Custody /\ NoSilentLoss
        BY CommandAssumption DEF Custody, NoSilentLoss
    <1>6. Unspooled
        BY DEF Unspooled, ToSet
    <1> QED
        BY <1>1, <1>2, <1>3, <1>4, <1>5, <1>6 DEF PipelineInv

\* Every step preserves it.
LEMMA PipelineStep == PipelineInv /\ [Next]_vars => PipelineInv'
    <1> SUFFICES ASSUME PipelineInv, [Next]_vars PROVE PipelineInv'
        OBVIOUS
    <1>1. SpoolInv'
        BY NextIsSpoolStep, StepInv DEF PipelineInv
    <1>2. PipelineTypeOK'
        <2>1. TypeOK' /\ Typed'
            BY <1>1, TypedStep DEF PipelineInv, PipelineTypeOK, SpoolInv, Typed
        <2> QED
            BY <2>1 DEF PipelineTypeOK, Typed
    <1>3. StoredOnce'
        BY StoredOnceStep DEF PipelineInv, PipelineTypeOK
    <1> QED
        BY <1>1, <1>2, <1>3, CommandsStep, CustodyStep, NoSilentLossStep,
           UnspooledStep, SpooledOnceStep DEF PipelineInv

\* The inductive invariant of the pipeline: whatever emits and drains run,
\* fail and die together, every part of PipelineInv holds in every state.
THEOREM PipelineCorrect == Spec => []PipelineInv
    <1>1. Init => PipelineInv
        BY PipelineInit
    <1>2. PipelineInv /\ [Next]_vars => PipelineInv'
        BY PipelineStep
    <1> QED
        BY <1>1, <1>2, PTL DEF Spec

\* Commands, spool, server and history keep their types (Pipeline.tla).
THEOREM PipelineTyped == Spec => []PipelineTypeOK
    <1>1. PipelineInv => PipelineTypeOK
        BY DEF PipelineInv
    <1> QED
        BY <1>1, PipelineCorrect, PTL

\* An event_uuid is stored at most once, however many processes send it, time
\* out and send it again (ingest and the unique index of 001_events_raw.sql).
THEOREM DeliveredOnce == Spec => []StoredOnce
    <1>1. PipelineInv => StoredOnce
        BY DEF PipelineInv
    <1> QED
        BY <1>1, PipelineCorrect, PTL

\* No event of an emit that returned is lost without one of the three named
\* reasons (cmdEmit in emit.go, Append and Drain in spool.go).
THEOREM EventsAccounted == Spec => []NoSilentLoss
    <1>1. PipelineInv => NoSilentLoss
        BY DEF PipelineInv
    <1> QED
        BY <1>1, PipelineCorrect, PTL

\* The spool holds an event at most once, with any number of emit and drain
\* processes rewriting the file (Append and Drain in spool.go).
THEOREM NeverSpooledTwice == Spec => []SpooledOnce
    <1>1. PipelineInv => SpooledOnce
        BY DEF PipelineInv
    <1> QED
        BY <1>1, PipelineCorrect, PTL

\* A line leaves the spool file only stored, refused or dropped for the cap
\* (Drain in spool.go with the callbacks of emit.go and drain.go).
THEOREM NothingLeavesUnexplained == Spec => LeavesWithReason
    <1>1. PipelineInv /\ [Next]_vars =>
              [\A e \in ToSet(file) \ ToSet(file') :
                    Stored(e)' \/ e \in overflowed' \cup poisoned']_vars
        <2> SUFFICES ASSUME PipelineInv, [Next]_vars,
                            NEW e \in ToSet(file) \ ToSet(file')
                     PROVE  Stored(e)' \/ e \in overflowed' \cup poisoned'
            OBVIOUS
        <2>1. e \in Line
            <3>1. file \in Seq(Line)
                BY DEF PipelineInv, SpoolInv, TypeOK
            <3>2. \A i \in DOMAIN file : file[i] \in Line
                BY <3>1
            <3> QED
                BY <3>2 DEF ToSet
        <2> QED
            BY <2>1, LeavesStep DEF PipelineInv, PipelineTypeOK
    <1> QED
        BY <1>1, PipelineCorrect, PTL DEF Spec, LeavesWithReason

\* A pipeline step is a step of the spool, so that the spool inside the
\* pipeline keeps the promise of LossyQueue as well.
THEOREM PipelineIsSpool == Spec => SpoolSpec
    <1>1. Init => SpoolInit
        BY DEF Init
    <1>2. [Next]_vars => [SpoolNext]_spoolVars
        BY NextIsSpoolStep
    <1> QED
        BY <1>1, <1>2, PTL DEF Spec, SpoolSpec

\* A server that is never in a state that refuses everything refuses only bad
\* data.
LEMMA PoisonedStep ==
    ASSUME "refusing" \notin Healths, ServerTypeOK, poisoned \subseteq BadData, [Next]_vars
    PROVE  poisoned' \subseteq BadData
    <1>a. poisoned \subseteq BadData /\ health \in Healths
        BY DEF ServerTypeOK
    <1> USE DEF vars, spoolVars, serverVars, history
    <1>1. ASSUME NEW e \in Line, LateCommit(e), UNCHANGED <<spoolVars, cmd, history>>
         PROVE  poisoned' \subseteq BadData
        BY <1>1, <1>a DEF LateCommit
    <1>2. ASSUME NEW e \in Line, LateCancel(e), UNCHANGED <<spoolVars, cmd, history>>
         PROVE  poisoned' \subseteq BadData
        BY <1>2, <1>a DEF LateCancel
    <1>3. ASSUME NEW h \in Healths, HealthChange(h), UNCHANGED <<spoolVars, cmd, history>>
         PROVE  poisoned' \subseteq BadData
        BY <1>3, <1>a DEF HealthChange
    <1>4. ASSUME NEW p \in Proc, Skip(p)
         PROVE  poisoned' \subseteq BadData
        BY <1>4, <1>a DEF Skip, Go
    <1>5. ASSUME NEW p \in Proc, SpoolFail(p)
         PROVE  poisoned' \subseteq BadData
        BY <1>5, <1>a DEF SpoolFail, ReadFail, WriteFail, LockFail, Go, Move,
        Forget
    <1>6. ASSUME NEW p \in Proc, Crash(p)
         PROVE  poisoned' \subseteq BadData
        BY <1>6, <1>a DEF Crash, SpoolCrash, Forget
    <1>7. ASSUME NEW d \in Drainer, DrainAgain(d)
         PROVE  poisoned' \subseteq BadData
        BY <1>7, <1>a DEF DrainAgain
    <1>8. ASSUME NEW p \in Proc, Begin(p)
         PROVE  poisoned' \subseteq BadData
        BY <1>8, <1>a DEF Begin, Go
    <1>9. ASSUME NEW e \in Line, EmitConnected(e)
         PROVE  poisoned' \subseteq BadData
        BY <1>9, <1>a DEF EmitConnected, Go
    <1>10. ASSUME NEW e \in Line, EmitUnreachable(e)
         PROVE  poisoned' \subseteq BadData
        BY <1>10, <1>a DEF EmitUnreachable, AppendCall, Go, Move
    <1>11. ASSUME NEW e \in Line, EmitStored(e)
         PROVE  poisoned' \subseteq BadData
        BY <1>11, <1>a DEF EmitStored, IngestOk, DrainCall, Go, Move
    <1>12. ASSUME NEW e \in Line, EmitFailed(e)
         PROVE  poisoned' \subseteq BadData
        BY <1>12, <1>a DEF EmitFailed, IngestRefused, IngestLost, AppendCall,
        Go, Move
    <1>13. ASSUME NEW d \in Drainer, DrainConnected(d)
         PROVE  poisoned' \subseteq BadData
        BY <1>13, <1>a DEF DrainConnected, DrainCall, Go, Move
    <1>14. ASSUME NEW d \in Drainer, DrainUnreachable(d)
         PROVE  poisoned' \subseteq BadData
        BY <1>14, <1>a DEF DrainUnreachable, Go
    <1>15. ASSUME NEW p \in Proc, Replayed(p)
         PROVE  poisoned' \subseteq BadData
        BY <1>15, <1>a DEF Replayed, LineReplayed, IngestOk, Ingesting, Rest
    <1>16. ASSUME NEW p \in Proc, Refused(p)
         PROVE  poisoned' \subseteq BadData
        BY <1>16, <1>a DEF Refused, IngestRefused
    <1>17. ASSUME NEW p \in Proc, Kept(p)
         PROVE  poisoned' \subseteq BadData
        BY <1>17, <1>a DEF Kept, LineKept, IngestLost, Ingesting, Move
    <1>18. ASSUME NEW p \in Proc, SpoolLock(p)
         PROVE  poisoned' \subseteq BadData
        BY <1>18, <1>a DEF SpoolLock, Lock, Move
    <1>19. ASSUME NEW p \in Proc, SpoolTrim(p)
         PROVE  poisoned' \subseteq BadData
        BY <1>19, <1>a DEF SpoolTrim, DropOldest, Rest
    <1>20. ASSUME NEW p \in Proc, SpoolInternal(p)
         PROVE  poisoned' \subseteq BadData
        BY <1>20, <1>a DEF SpoolInternal, AppendRead, Trimmed, DrainRead,
        DrainEnd, Write, Move
    <1>21. ASSUME NEW p \in Proc, SpoolReturn(p)
         PROVE  poisoned' \subseteq BadData
        BY <1>21, <1>a DEF SpoolReturn, Unlock, Go, Forget
    <1>22. CASE UNCHANGED vars
        BY <1>22, <1>a DEF vars
    <1> QED
        BY <1>1, <1>2, <1>3, <1>4, <1>5, <1>6, <1>7, <1>8, <1>9, <1>10, <1>11,
        <1>12, <1>13, <1>14, <1>15, <1>16, <1>17, <1>18, <1>19, <1>20, <1>21,
        <1>22
           DEF Next, Environment, ServerStep, Step, EmitStep, DrainStep

\* If the server never refuses a good event, no good event is given up as
\* poison: it is stored, spooled, or lost to the cap or an I/O error (the poison
\* guard of emit.go:79-81 and drain.go:54-56).  The assumption is needed: the
\* run poison_guard shows a server in a bad state for which this is false.
THEOREM OnlyBadDataLost ==
    ASSUME "refusing" \notin Healths
    PROVE  Spec => []OnlyBadDataDropped
    <1> DEFINE I == PipelineInv /\ poisoned \subseteq BadData
    <1>1. Init => poisoned \subseteq BadData
        BY DEF Init
    <1>2. I /\ [Next]_vars => (poisoned \subseteq BadData)'
        BY PoisonedStep DEF PipelineInv, PipelineTypeOK
    <1>3. I => OnlyBadDataDropped
        BY DEF PipelineInv, NoSilentLoss, Accounted, OnlyBadDataDropped
    <1> QED
        BY <1>1, <1>2, <1>3, PipelineCorrect, PTL DEF Spec

----------------------------------------------------------------------------
(***************************************************************************)
(* The refinement of Delivery.  A step stores a row, replaces the file,    *)
(* names a loss, lets an emit return, or does none of these.               *)
(***************************************************************************)

\* A step that Delivery does not see.
Quiet ==
    /\ UNCHANGED <<raw, file, history>>
    /\ \A e \in Line : cmd[e] = "done" <=> cmd'[e] = "done"

LEMMA QuietStutters == Quiet => UNCHANGED Promise!vars
    BY DEF Quiet, history, Promise!vars

\* Only an operation on the spool holds a line.
LEMMA HolderSpools ==
    ASSUME PipelineInv, NEW p \in Proc, arg[p] # NoLine, op[p] # "idle"
    PROVE  p \in Line /\ arg[p] = p /\ cmd[p] = "spool"
    BY CommandAssumption DEF PipelineInv, Commands

\* A new row of the table is what Delivery stores.
LEMMA InsertDelivers ==
    ASSUME NEW e \in Line, Insert(e), UNCHANGED <<file, history>>,
           \A l \in Line : cmd[l] = "done" <=> cmd'[l] = "done"
    PROVE  [Promise!Next]_(Promise!vars)
    <1>1. CASE Stored(e)
        <2>1. Quiet
            BY <1>1 DEF Insert, Quiet
        <2> QED
            BY <2>1, QuietStutters
    <1>2. CASE ~ Stored(e)
        <2>1. Promise!Store(e)
            BY <1>2 DEF Insert, Stored, Promise!Store, Promise!Stored, history
        <2> QED
            BY <2>1 DEF Promise!Next
    <1> QED
        BY <1>1, <1>2

\* The line at the head of a copy is in the file or in the hands of its emit.
LEMMA HeadIsHeld ==
    ASSUME PipelineInv, NEW p \in Proc, op[p] \in {"trim", "loop"}, mem[p] # <<>>
    PROVE  /\ Head(mem[p]) \in Line
           /\ Head(mem[p]) \in ToSet(file) \/ cmd[Head(mem[p])] = "spool"
    <1>1. /\ file \in Seq(Line) /\ mem[p] \in Seq(Line) /\ lock = p
          /\ replayed[p] + dropped[p] \in Nat /\ arg[p] \in Line \cup {NoLine}
        BY DEF PipelineInv, SpoolInv, TypeOK, LockInv, Locked
    <1>2. Head(mem[p]) \in Line /\ Head(mem[p]) \in ToSet(mem[p])
        BY <1>1, HeadAndTail
    <1>3. CASE op[p] = "loop"
        <2> DEFINE k == replayed[p] + dropped[p] + 1
        <2>1. k \in 1 .. (Len(file) + 1) /\ mem[p] = From(file, k)
            BY <1>1, <1>3 DEF PipelineInv, SpoolInv, DrainAccounts, Phases
        <2> HIDE DEF k
        <2> QED
            BY <1>1, <1>2, <2>1, SuffixWithin
    <1>4. CASE op[p] = "trim"
        <2> DEFINE s == Append(file, arg[p])
        <2>1. arg[p] \in Line /\ arg[p] # NoLine
            BY <1>1, <1>4 DEF PipelineInv, SpoolInv, Phases
        <2>2. PICK k \in 1 .. Len(s) : mem[p] = From(s, k)
            BY <1>4, <2>1 DEF PipelineInv, SpoolInv, AppendTrims, PartlyTrimmed
        <2>3. /\ s \in Seq(Line) /\ k \in 1 .. (Len(s) + 1)
              /\ ToSet(s) = ToSet(file) \cup {arg[p]}
            BY <1>1, <2>1, <2>2, AppendWithin, AppendProperties
        <2> HIDE DEF s
        <2>4. Head(mem[p]) \in ToSet(file) \cup {arg[p]}
            BY <1>2, <2>2, <2>3, SuffixWithin
        <2>5. cmd[arg[p]] = "spool"
            BY <1>4, <2>1, HolderSpools
        <2> QED
            BY <1>2, <2>4, <2>5
    <1> QED
        BY <1>3, <1>4

\* Whom a process names as lost was there to lose.
LEMMA NamedIsLost ==
    ASSUME NEW e \in Line, e \in ToSet(file) \/ cmd[e] = "spool",
           (overflowed \cup unspooled \cup poisoned)'
                = (overflowed \cup unspooled \cup poisoned) \cup {e},
           UNCHANGED <<raw, file>>,
           \A l \in Line : cmd[l] = "done" <=> cmd'[l] = "done"
    PROVE  [Promise!Next]_(Promise!vars)
    <1>1. Promise!Lose(e)
        BY DEF Promise!Lose
    <1> QED
        BY <1>1 DEF Promise!Next

\* An append leaves its own line in the file.
LEMMA AppendStays ==
    ASSUME PipelineInv, NEW q \in Proc, Write(q), arg[q] # NoLine
    PROVE  arg[q] \in ToSet(file')
    <1> DEFINE s == Append(file, arg[q])
    <1>1. /\ file' = mem[q] /\ op[q] = "write"
          /\ file \in Seq(Line) /\ arg[q] \in Line
        BY DEF Write, Move, PipelineInv, SpoolInv, TypeOK
    <1>2. PICK k \in 1 .. Len(s) : mem[q] = From(s, k)
        BY <1>1 DEF PipelineInv, SpoolInv, AppendTrims, PartlyTrimmed
    <1>3. s \in Seq(Line) /\ Len(s) \in Nat /\ s[Len(s)] = arg[q]
        BY <1>1, AppendProperties, LenProperties
    <1> HIDE DEF s
    <1> DEFINE t == From(s, k)
    <1>4. /\ t \in Seq(Line) /\ Len(t) = Len(s) + 1 - k
          /\ \A i \in 1 .. (Len(s) + 1 - k) : t[i] = s[k + i - 1]
        BY <1>2, <1>3, FromProperties
    <1> HIDE DEF t
    <1>5. Len(t) \in DOMAIN t /\ t[Len(t)] = s[Len(s)]
        BY <1>2, <1>3, <1>4, LenProperties
    <1> QED
        BY <1>1, <1>2, <1>3, <1>5 DEF ToSet, t

\* Replacing the file parks the line of an append or clears what was replayed.
LEMMA WriteDelivers ==
    ASSUME PipelineInv, PipelineInv', [Next]_vars,
           NEW q \in Proc, Write(q), UNCHANGED <<serverVars, cmd, history>>
    PROVE  [Promise!Next]_(Promise!vars)
    <1>1. op[q] = "write" /\ arg[q] \in Line \cup {NoLine} /\ file \in Seq(Line)
        BY DEF Write, Move, PipelineInv, SpoolInv, TypeOK
    <1>2. /\ ToSet(file') \subseteq ToSet(file) \cup {arg[q]}
          /\ arg[q] = NoLine => ToSet(file') \subseteq ToSet(file)
        BY WriteTakes DEF PipelineInv
    <1>3. \A l \in ToSet(file) : l \in Line
        BY <1>1 DEF ToSet
    <1>4. \A l \in ToSet(file) \ ToSet(file') : Stored(l) \/ l \in overflowed \cup poisoned
        BY <1>1, <1>3 DEF Write, PipelineInv, Custody
    <1>5. Promise!NoneForgotten
        BY <1>4 DEF Promise!NoneForgotten, Promise!Stored, Stored
    <1>6. CASE arg[q] = NoLine
        <2>1. Promise!Clear
            BY <1>2, <1>5, <1>6 DEF Promise!Clear, serverVars, history
        <2> QED
            BY <2>1 DEF Promise!Next
    <1>7. CASE arg[q] # NoLine
        <2>1. q \in Line /\ arg[q] = q /\ cmd[q] = "spool"
            BY <1>1, <1>7, HolderSpools
        <2>2. q \notin ToSet(file)
            BY <1>1, <2>1 DEF PipelineInv, Unspooled
        <2>3. q \in ToSet(file')
            BY <1>7, <2>1, AppendStays
        <2>4. Promise!Park(q)
            BY <1>2, <1>5, <2>1, <2>2, <2>3 DEF Promise!Park, serverVars, history
        <2> QED
            BY <2>1, <2>4 DEF Promise!Next
    <1> QED
        BY <1>6, <1>7

\* A command that ends after it was in the spool leaves its event somewhere.
LEMMA EndDelivers ==
    ASSUME PipelineInv, NEW p \in Proc, Go(p, "spool", "done"), UNCHANGED <<raw, file>>,
           (overflowed \cup unspooled \cup poisoned)'
                \in {overflowed \cup unspooled \cup poisoned,
                     (overflowed \cup unspooled \cup poisoned) \cup {p}},
           p \in Line => Accounted(p)',
           p \notin Line => UNCHANGED history
    PROVE  [Promise!Next]_(Promise!vars)
    <1>1. cmd \in [Proc -> Cmd] /\ Line \subseteq Proc
        BY CommandAssumption DEF PipelineInv, PipelineTypeOK
    <1>2. CASE p \in Line
        <2>1. {e \in Line : cmd'[e] = "done"} = {e \in Line : cmd[e] = "done"} \cup {p}
            BY <1>1, <1>2 DEF Go
        <2>2. p \notin {e \in Line : cmd[e] = "done"}
            BY DEF Go
        <2>3. Promise!Return(p)
            BY <1>2, <2>1, <2>2 DEF Promise!Return, Promise!Stored, Accounted, Stored
        <2> QED
            BY <1>2, <2>3 DEF Promise!Next
    <1>3. CASE p \notin Line
        <2>1. Quiet
            BY <1>1, <1>3 DEF Go, Quiet
        <2> QED
            BY <2>1, QuietStutters
    <1> QED
        BY <1>2, <1>3

\* Every step of the pipeline is one of Delivery or one that it does not see.
LEMMA StepDelivers ==
    ASSUME PipelineInv, PipelineInv', [Next]_vars
    PROVE  [Promise!Next]_(Promise!vars)
    <1> DEFINE Delivers == [Promise!Next]_(Promise!vars)
    <1>a. Quiet => Delivers
        BY QuietStutters
    <1> HIDE DEF Delivers
    <1>b. /\ TypeOK /\ cmd \in [Proc -> Cmd] /\ Line \subseteq Proc
          /\ Line \cap Drainer = {}
        BY CommandAssumption DEF PipelineInv, PipelineTypeOK, SpoolInv
    <1> USE DEF vars, spoolVars, serverVars, history, Ended
    <1>1. ASSUME NEW e \in Line, LateCommit(e), UNCHANGED <<spoolVars, cmd, history>>
         PROVE  Delivers
        BY <1>1, InsertDelivers DEF LateCommit, Delivers
    <1>2. ASSUME NEW e \in Line, LateCancel(e), UNCHANGED <<spoolVars, cmd, history>>
         PROVE  Delivers
        BY <1>2, <1>a DEF LateCancel, Quiet
    <1>3. ASSUME NEW h \in Healths, HealthChange(h), UNCHANGED <<spoolVars, cmd, history>>
         PROVE  Delivers
        BY <1>3, <1>a DEF HealthChange, Quiet
    <1>4. ASSUME NEW p \in Proc, Skip(p)
         PROVE  Delivers
        BY <1>4, <1>a, <1>b DEF Skip, Go, Quiet
    <1>5. ASSUME NEW p \in Proc, SpoolFail(p)
         PROVE  Delivers
        <2>1. CASE UNCHANGED cmd
            <3>1. CASE arg[p] = NoLine
                BY <1>5, <1>a, <2>1, <3>1 DEF SpoolFail, ReadFail, WriteFail, LockFail, Quiet
            <3>2. CASE arg[p] # NoLine
                <4>1. op[p] # "idle" /\ UNCHANGED file
                    BY <1>5 DEF SpoolFail, ReadFail, WriteFail, LockFail, Move
                <4>2. p \in Line /\ arg[p] = p /\ cmd[p] = "spool"
                    BY <3>2, <4>1, HolderSpools
                <4> QED
                    BY <1>5, <2>1, <3>2, <4>1, <4>2, NamedIsLost DEF SpoolFail, Delivers
            <3> QED
                BY <3>1, <3>2
        <2>2. CASE LockFail(p) /\ Go(p, "spool", "done")
            <3>1. UNCHANGED <<raw, file, overflowed, poisoned>>
                BY <1>5, <2>2 DEF SpoolFail, LockFail
            <3>2. p \notin Line => arg[p] = NoLine
                BY CommandAssumption DEF PipelineInv, Commands
            <3>3. unspooled' = unspooled \/ unspooled' = unspooled \cup {p}
                <4>1. CASE arg[p] = NoLine
                    BY <1>5, <4>1 DEF SpoolFail
                <4>2. CASE arg[p] # NoLine
                    <5>1. arg[p] = p
                        BY <2>2, <4>2, HolderSpools DEF LockFail
                    <5> QED
                        BY <1>5, <4>2, <5>1 DEF SpoolFail
                <4> QED
                    BY <4>1, <4>2
            <3>4. p \in Line => Accounted(p)'
                BY <1>b, <2>2 DEF PipelineInv, NoSilentLoss, Go
            <3>5. p \notin Line => UNCHANGED history
                BY <1>5, <3>1, <3>2 DEF SpoolFail
            <3> QED
                BY <2>2, <3>1, <3>3, <3>4, <3>5, EndDelivers DEF Delivers
        <2> QED
            BY <1>5, <2>1, <2>2 DEF SpoolFail
    <1>6. ASSUME NEW p \in Proc, Crash(p)
         PROVE  Delivers
        BY <1>6, <1>a, <1>b DEF Crash, SpoolCrash, Forget, Quiet
    <1>7. ASSUME NEW d \in Drainer, DrainAgain(d)
         PROVE  Delivers
        BY <1>7, <1>a, <1>b DEF DrainAgain, Quiet
    <1>8. ASSUME NEW p \in Proc, Begin(p)
         PROVE  Delivers
        BY <1>8, <1>a, <1>b DEF Begin, Go, Quiet
    <1>9. ASSUME NEW e \in Line, EmitConnected(e)
         PROVE  Delivers
        BY <1>9, <1>a, <1>b DEF EmitConnected, Go, Quiet
    <1>10. ASSUME NEW e \in Line, EmitUnreachable(e)
         PROVE  Delivers
        BY <1>10, <1>a, <1>b DEF EmitUnreachable, AppendCall, Go, Quiet
    <1>11. ASSUME NEW e \in Line, EmitStored(e)
         PROVE  Delivers
        <2>1. Insert(e) /\ UNCHANGED <<file, history>>
            BY <1>11 DEF EmitStored, IngestOk, DrainCall
        <2>2. \A l \in Line : cmd[l] = "done" <=> cmd'[l] = "done"
            BY <1>11, <1>b DEF EmitStored, Go
        <2> QED
            BY <2>1, <2>2, InsertDelivers DEF Delivers
    <1>12. ASSUME NEW e \in Line, EmitFailed(e)
         PROVE  Delivers
        <2>1. UNCHANGED <<raw, file, history>>
            BY <1>12 DEF EmitFailed, IngestRefused, IngestLost, AppendCall
        <2>2. \A l \in Line : cmd[l] = "done" <=> cmd'[l] = "done"
            BY <1>12, <1>b DEF EmitFailed, Go
        <2> QED
            BY <1>a, <2>1, <2>2 DEF Quiet
    <1>13. ASSUME NEW d \in Drainer, DrainConnected(d)
         PROVE  Delivers
        BY <1>13, <1>a, <1>b DEF DrainConnected, DrainCall, Go, Quiet
    <1>14. ASSUME NEW d \in Drainer, DrainUnreachable(d)
         PROVE  Delivers
        BY <1>14, <1>a, <1>b DEF DrainUnreachable, Go, Quiet
    <1>15. ASSUME NEW p \in Proc, Replayed(p)
         PROVE  Delivers
        <2>1. op[p] = "loop" /\ mem[p] # <<>>
            BY <1>15 DEF Replayed, LineReplayed, Ingesting
        <2>2. Head(mem[p]) \in Line
            BY <2>1, HeadIsHeld
        <2>3. Insert(Head(mem[p])) /\ UNCHANGED <<file, cmd, history>>
            BY <1>15 DEF Replayed, LineReplayed, IngestOk
        <2> QED
            BY <2>2, <2>3, InsertDelivers DEF Delivers
    <1>16. ASSUME NEW p \in Proc, Refused(p)
         PROVE  Delivers
        <2>1. op[p] = "loop" /\ mem[p] # <<>> /\ UNCHANGED <<raw, file, cmd, overflowed, unspooled>>
            BY <1>16 DEF Refused, LineDropped, Ingesting, IngestRefused
        <2>2. poisoned' = poisoned \cup {Head(mem[p])}
            BY <1>16 DEF Refused
        <2> QED
            BY <2>1, <2>2, HeadIsHeld, NamedIsLost DEF Delivers
    <1>17. ASSUME NEW p \in Proc, Kept(p)
         PROVE  Delivers
        BY <1>17, <1>a DEF Kept, LineKept, IngestLost, Quiet
    <1>18. ASSUME NEW p \in Proc, SpoolLock(p)
         PROVE  Delivers
        BY <1>18, <1>a DEF SpoolLock, Lock, Quiet
    <1>19. ASSUME NEW p \in Proc, SpoolTrim(p)
         PROVE  Delivers
        <2>1. op[p] = "trim" /\ Overflows(mem[p]) /\ UNCHANGED <<raw, file, cmd, unspooled, poisoned>>
            BY <1>19 DEF SpoolTrim, DropOldest
        <2>2. mem[p] # <<>>
            BY <2>1 DEF Overflows
        <2>3. overflowed' = overflowed \cup {Head(mem[p])}
            BY <1>19 DEF SpoolTrim
        <2> QED
            BY <2>1, <2>2, <2>3, HeadIsHeld, NamedIsLost DEF Delivers
    <1>20. ASSUME NEW p \in Proc, SpoolInternal(p)
         PROVE  Delivers
        <2>1. CASE Write(p)
            BY <1>20, <2>1, WriteDelivers DEF SpoolInternal, Delivers
        <2>2. CASE ~ Write(p)
            BY <1>20, <1>a, <2>2 DEF SpoolInternal, AppendRead, Trimmed, DrainRead,
               DrainEnd, Quiet
        <2> QED
            BY <2>1, <2>2
    <1>21. ASSUME NEW p \in Proc, SpoolReturn(p)
         PROVE  Delivers
        <2>1. UNCHANGED <<raw, file, history>>
            BY <1>21 DEF SpoolReturn, Unlock
        <2>2. p \in Line => Accounted(p)'
            BY <1>21, <1>b DEF SpoolReturn, PipelineInv, NoSilentLoss, Go
        <2> QED
            BY <1>21, <2>1, <2>2, EndDelivers DEF SpoolReturn, Delivers
    <1>22. ASSUME UNCHANGED vars
         PROVE  Delivers
        BY <1>22, <1>a DEF vars, Quiet
    <1>23. Delivers
        BY <1>1, <1>2, <1>3, <1>4, <1>5, <1>6, <1>7, <1>8, <1>9, <1>10, <1>11,
        <1>12, <1>13, <1>14, <1>15, <1>16, <1>17, <1>18, <1>19, <1>20, <1>21,
        <1>22
           DEF Next, Environment, ServerStep, Step, EmitStep, DrainStep
    <1> QED
        BY <1>23 DEF Delivers

\* Emits, drains, spool and server together keep the promise of Delivery, with
\* any number of processes, timeouts, late commits, deaths and I/O errors
\* (cmdEmit in emit.go, cmdDrain in drain.go, Append and Drain in spool.go).
THEOREM PipelineDelivers == Spec => DeliverySpec
    <1>1. Init => Promise!Init
        BY CommandAssumption DEF Init, SpoolInit, ServerInit, Promise!Init, ToSet
    <1>2. PipelineInv /\ PipelineInv' /\ [Next]_vars => [Promise!Next]_(Promise!vars)
        BY StepDelivers
    <1> QED
        BY <1>1, <1>2, PipelineCorrect, PTL DEF Spec, DeliverySpec, Promise!Spec
============================================================================
