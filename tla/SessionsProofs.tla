--------------------------- MODULE SessionsProofs ---------------------------
(***************************************************************************)
(* Proofs about the session views, for any number of events, sessions and  *)
(* processes that time out, fail and die anywhere.  A step adds a row only *)
(* for an event on its way or one of the spool; an event on its way that   *)
(* is not late is the last one that its session built; hence the rows that *)
(* are not late are in the order in which their events were built.         *)
(***************************************************************************)
EXTENDS Sessions, PipelineProofs, WellFoundedInduction

\* A set of positions that is not empty has a greatest one.
LEMMA MaxOfPositions ==
    ASSUME NEW n \in Nat, NEW S \in SUBSET (1 .. n), S # {}
    PROVE  Max(S) \in S /\ \A i \in S : i <= Max(S)
    <1> DEFINE Bounds == {m \in Nat : \A i \in S : i <= m}
    <1>1. n \in Bounds
        OBVIOUS
    <1>2. PICK m \in Bounds : \A k \in Bounds : ~ (<<k, m>> \in OpToRel(<, Nat))
        BY <1>1, NatLessThanWellFounded, WFMin
    <1>3. \A k \in Bounds : ~ (k < m)
        BY <1>2 DEF OpToRel
    <1>4. m \in S
        <2> SUFFICES ASSUME m \notin S PROVE FALSE
            OBVIOUS
        <2>1. m # 0
            <3>1. PICK i \in S : TRUE
                OBVIOUS
            <3>2. i <= m /\ i >= 1
                OBVIOUS
            <3> QED
                BY <3>2
        <2>2. m - 1 \in Bounds
            BY <2>1
        <2> QED
            BY <2>2, <1>3
    <1> QED
        BY <1>4 DEF Max

----------------------------------------------------------------------------
(***************************************************************************)
(* What a step of the pipeline may do.                                     *)
(***************************************************************************)

\* A row is added only for an event on its way or one of the spool.
RowsAdded ==
    \/ UNCHANGED raw
    \/ \E l \in Line : (OnItsWay(l) \/ InSpool(l)) /\ raw' = Append(raw, l)

\* An event gets on its way when it is built or when its replay times out.
WaysBegin ==
    \A f \in Line : OnItsWay(f)' => OnItsWay(f) \/ Emits(f) \/ InSpool(f)

\* One event is built at a time, and none twice.
BuiltOnce ==
    \A f \in Line :
        /\ cmd'[f] = "start" => cmd[f] = "start"
        /\ \A g \in Line : Emits(f) /\ Emits(g) => f = g

\* An event gets into the spool only when it is handed over, from its way.
SpoolFilled ==
    \A f \in Line :
        /\ InSpool(f)' => InSpool(f) \/ Spools(f)
        /\ Spools(f) => OnItsWay(f)

\* Rows are added as RowsAdded says.
LEMMA RowsEffect ==
    PipelineTypeOK /\ [Next]_vars => RowsAdded
    <1> SUFFICES ASSUME PipelineTypeOK, [Next]_vars PROVE RowsAdded
        OBVIOUS
    <1> USE
            DEF vars, spoolVars, serverVars, history, RowsAdded, OnItsWay, Insert
    <1>1. ASSUME NEW e \in Line, LateCommit(e), UNCHANGED <<spoolVars, cmd, history>>
         PROVE  RowsAdded
        BY <1>1 DEF LateCommit
    <1>2. ASSUME NEW e \in Line, LateCancel(e), UNCHANGED <<spoolVars, cmd, history>>
         PROVE  RowsAdded
        BY <1>2 DEF LateCancel
    <1>3. ASSUME NEW h \in Healths, HealthChange(h), UNCHANGED <<spoolVars, cmd, history>>
         PROVE  RowsAdded
        BY <1>3 DEF HealthChange
    <1>4. ASSUME NEW p \in Proc, Skip(p)
         PROVE  RowsAdded
        BY <1>4 DEF Skip, Go
    <1>5. ASSUME NEW p \in Proc, SpoolFail(p)
         PROVE  RowsAdded
        BY <1>5 DEF SpoolFail, ReadFail, WriteFail, LockFail, Go, Move, Forget
    <1>6. ASSUME NEW p \in Proc, Crash(p)
         PROVE  RowsAdded
        BY <1>6 DEF Crash, SpoolCrash, Forget
    <1>7. ASSUME NEW d \in Drainer, DrainAgain(d)
         PROVE  RowsAdded
        BY <1>7 DEF DrainAgain
    <1>8. ASSUME NEW p \in Proc, Begin(p)
         PROVE  RowsAdded
        BY <1>8 DEF Begin, Go
    <1>9. ASSUME NEW e \in Line, EmitConnected(e)
         PROVE  RowsAdded
        BY <1>9 DEF EmitConnected, Go
    <1>10. ASSUME NEW e \in Line, EmitUnreachable(e)
         PROVE  RowsAdded
        BY <1>10 DEF EmitUnreachable, AppendCall, Go, Move
    <1>11. ASSUME NEW e \in Line, EmitStored(e)
         PROVE  RowsAdded
        BY <1>11 DEF EmitStored, IngestOk, DrainCall, Go, Move
    <1>12. ASSUME NEW e \in Line, EmitFailed(e)
         PROVE  RowsAdded
        BY <1>12 DEF EmitFailed, IngestRefused, IngestLost, AppendCall, Go,
        Move
    <1>13. ASSUME NEW d \in Drainer, DrainConnected(d)
         PROVE  RowsAdded
        BY <1>13 DEF DrainConnected, DrainCall, Go, Move
    <1>14. ASSUME NEW d \in Drainer, DrainUnreachable(d)
         PROVE  RowsAdded
        BY <1>14 DEF DrainUnreachable, Go
    <1>15. ASSUME NEW p \in Proc, Replayed(p)
         PROVE  RowsAdded
        <2>1. Head(mem[p]) \in Line /\ Head(mem[p]) \in ToSet(mem[p])
            BY <1>15, HeadAndTail
               DEF PipelineTypeOK, TypeOK, Replayed, LineReplayed, Ingesting
        <2>2. InSpool(Head(mem[p]))
            BY <2>1 DEF InSpool
        <2> QED
            BY <1>15, <2>1, <2>2 DEF Replayed, IngestOk
    <1>16. ASSUME NEW p \in Proc, Refused(p)
         PROVE  RowsAdded
        BY <1>16 DEF Refused, LineDropped, IngestRefused, Ingesting, Rest
    <1>17. ASSUME NEW p \in Proc, Kept(p)
         PROVE  RowsAdded
        BY <1>17 DEF Kept, LineKept, IngestLost, Ingesting, Move
    <1>18. ASSUME NEW p \in Proc, SpoolLock(p)
         PROVE  RowsAdded
        BY <1>18 DEF SpoolLock, Lock, Move
    <1>19. ASSUME NEW p \in Proc, SpoolTrim(p)
         PROVE  RowsAdded
        BY <1>19 DEF SpoolTrim, DropOldest, Rest
    <1>20. ASSUME NEW p \in Proc, SpoolInternal(p)
         PROVE  RowsAdded
        BY <1>20 DEF SpoolInternal, AppendRead, Trimmed, DrainRead, DrainEnd,
        Write, Move
    <1>21. ASSUME NEW p \in Proc, SpoolReturn(p)
         PROVE  RowsAdded
        BY <1>21 DEF SpoolReturn, Unlock, Go, Forget
    <1>22. CASE UNCHANGED vars
        BY <1>22 DEF vars
    <1> QED
        BY <1>1, <1>2, <1>3, <1>4, <1>5, <1>6, <1>7, <1>8, <1>9, <1>10, <1>11,
        <1>12, <1>13, <1>14, <1>15, <1>16, <1>17, <1>18, <1>19, <1>20, <1>21,
        <1>22
           DEF Next, Environment, ServerStep, Step, EmitStep, DrainStep

\* Events get on their way as WaysBegin says.
LEMMA WaysEffect ==
    PipelineTypeOK /\ [Next]_vars => WaysBegin
    <1> SUFFICES ASSUME PipelineTypeOK, [Next]_vars PROVE WaysBegin
        OBVIOUS
    <1> USE
            CommandAssumption
               DEF vars, spoolVars, serverVars, history, WaysBegin, OnItsWay,
                   Emits, PipelineTypeOK
    <1>1. ASSUME NEW e \in Line, LateCommit(e), UNCHANGED <<spoolVars, cmd, history>>
         PROVE  WaysBegin
        BY <1>1 DEF LateCommit
    <1>2. ASSUME NEW e \in Line, LateCancel(e), UNCHANGED <<spoolVars, cmd, history>>
         PROVE  WaysBegin
        BY <1>2 DEF LateCancel
    <1>3. ASSUME NEW h \in Healths, HealthChange(h), UNCHANGED <<spoolVars, cmd, history>>
         PROVE  WaysBegin
        BY <1>3 DEF HealthChange
    <1>4. ASSUME NEW p \in Proc, Skip(p)
         PROVE  WaysBegin
        BY <1>4 DEF Skip, Go
    <1>5. ASSUME NEW p \in Proc, SpoolFail(p)
         PROVE  WaysBegin
        BY <1>5 DEF SpoolFail, ReadFail, WriteFail, LockFail, Go, Move, Forget
    <1>6. ASSUME NEW p \in Proc, Crash(p)
         PROVE  WaysBegin
        BY <1>6 DEF Crash, SpoolCrash, Forget
    <1>7. ASSUME NEW d \in Drainer, DrainAgain(d)
         PROVE  WaysBegin
        BY <1>7 DEF DrainAgain
    <1>8. ASSUME NEW p \in Proc, Begin(p)
         PROVE  WaysBegin
        BY <1>8 DEF Begin, Go
    <1>9. ASSUME NEW e \in Line, EmitConnected(e)
         PROVE  WaysBegin
        BY <1>9 DEF EmitConnected, Go
    <1>10. ASSUME NEW e \in Line, EmitUnreachable(e)
         PROVE  WaysBegin
        BY <1>10 DEF EmitUnreachable, AppendCall, Go, Move
    <1>11. ASSUME NEW e \in Line, EmitStored(e)
         PROVE  WaysBegin
        BY <1>11 DEF EmitStored, IngestOk, DrainCall, Go, Move
    <1>12. ASSUME NEW e \in Line, EmitFailed(e)
         PROVE  WaysBegin
        BY <1>12 DEF EmitFailed, IngestRefused, IngestLost, AppendCall, Go,
        Move
    <1>13. ASSUME NEW d \in Drainer, DrainConnected(d)
         PROVE  WaysBegin
        BY <1>13 DEF DrainConnected, DrainCall, Go, Move
    <1>14. ASSUME NEW d \in Drainer, DrainUnreachable(d)
         PROVE  WaysBegin
        BY <1>14 DEF DrainUnreachable, Go
    <1>15. ASSUME NEW p \in Proc, Replayed(p)
         PROVE  WaysBegin
        BY <1>15 DEF Replayed, LineReplayed, IngestOk, Ingesting, Rest
    <1>16. ASSUME NEW p \in Proc, Refused(p)
         PROVE  WaysBegin
        BY <1>16 DEF Refused, LineDropped, IngestRefused, Ingesting, Rest
    <1>17. ASSUME NEW p \in Proc, Kept(p)
         PROVE  WaysBegin
        <2>1. Head(mem[p]) \in Line /\ Head(mem[p]) \in ToSet(mem[p])
            BY <1>17, HeadAndTail DEF PipelineTypeOK, TypeOK, Kept, LineKept, Ingesting
        <2>2. InSpool(Head(mem[p]))
            BY <2>1 DEF InSpool
        <2> QED
            BY <1>17, <2>1, <2>2 DEF Kept, IngestLost
    <1>18. ASSUME NEW p \in Proc, SpoolLock(p)
         PROVE  WaysBegin
        BY <1>18 DEF SpoolLock, Lock, Move
    <1>19. ASSUME NEW p \in Proc, SpoolTrim(p)
         PROVE  WaysBegin
        BY <1>19 DEF SpoolTrim, DropOldest, Rest
    <1>20. ASSUME NEW p \in Proc, SpoolInternal(p)
         PROVE  WaysBegin
        BY <1>20 DEF SpoolInternal, AppendRead, Trimmed, DrainRead, DrainEnd,
        Write, Move
    <1>21. ASSUME NEW p \in Proc, SpoolReturn(p)
         PROVE  WaysBegin
        BY <1>21 DEF SpoolReturn, Unlock, Go, Forget
    <1>22. CASE UNCHANGED vars
        BY <1>22 DEF vars
    <1> QED
        BY <1>1, <1>2, <1>3, <1>4, <1>5, <1>6, <1>7, <1>8, <1>9, <1>10, <1>11,
        <1>12, <1>13, <1>14, <1>15, <1>16, <1>17, <1>18, <1>19, <1>20, <1>21,
        <1>22
           DEF Next, Environment, ServerStep, Step, EmitStep, DrainStep

\* Events are built as BuiltOnce says.
LEMMA BuildEffect ==
    PipelineTypeOK /\ [Next]_vars => BuiltOnce
    <1> SUFFICES ASSUME PipelineTypeOK, [Next]_vars PROVE BuiltOnce
        OBVIOUS
    <1> USE
            CommandAssumption
               DEF vars, spoolVars, serverVars, history, BuiltOnce, Emits,
                   PipelineTypeOK
    <1>1. ASSUME NEW e \in Line, LateCommit(e), UNCHANGED <<spoolVars, cmd, history>>
         PROVE  BuiltOnce
        BY <1>1 DEF LateCommit
    <1>2. ASSUME NEW e \in Line, LateCancel(e), UNCHANGED <<spoolVars, cmd, history>>
         PROVE  BuiltOnce
        BY <1>2 DEF LateCancel
    <1>3. ASSUME NEW h \in Healths, HealthChange(h), UNCHANGED <<spoolVars, cmd, history>>
         PROVE  BuiltOnce
        BY <1>3 DEF HealthChange
    <1>4. ASSUME NEW p \in Proc, Skip(p)
         PROVE  BuiltOnce
        BY <1>4 DEF Skip, Go
    <1>5. ASSUME NEW p \in Proc, SpoolFail(p)
         PROVE  BuiltOnce
        BY <1>5 DEF SpoolFail, ReadFail, WriteFail, LockFail, Go, Move, Forget
    <1>6. ASSUME NEW p \in Proc, Crash(p)
         PROVE  BuiltOnce
        BY <1>6 DEF Crash, SpoolCrash, Forget
    <1>7. ASSUME NEW d \in Drainer, DrainAgain(d)
         PROVE  BuiltOnce
        BY <1>7 DEF DrainAgain
    <1>8. ASSUME NEW p \in Proc, Begin(p)
         PROVE  BuiltOnce
        BY <1>8 DEF Begin, Go
    <1>9. ASSUME NEW e \in Line, EmitConnected(e)
         PROVE  BuiltOnce
        BY <1>9 DEF EmitConnected, Go
    <1>10. ASSUME NEW e \in Line, EmitUnreachable(e)
         PROVE  BuiltOnce
        BY <1>10 DEF EmitUnreachable, AppendCall, Go, Move
    <1>11. ASSUME NEW e \in Line, EmitStored(e)
         PROVE  BuiltOnce
        BY <1>11 DEF EmitStored, IngestOk, DrainCall, Go, Move
    <1>12. ASSUME NEW e \in Line, EmitFailed(e)
         PROVE  BuiltOnce
        BY <1>12 DEF EmitFailed, IngestRefused, IngestLost, AppendCall, Go,
        Move
    <1>13. ASSUME NEW d \in Drainer, DrainConnected(d)
         PROVE  BuiltOnce
        BY <1>13 DEF DrainConnected, DrainCall, Go, Move
    <1>14. ASSUME NEW d \in Drainer, DrainUnreachable(d)
         PROVE  BuiltOnce
        BY <1>14 DEF DrainUnreachable, Go
    <1>15. ASSUME NEW p \in Proc, Replayed(p)
         PROVE  BuiltOnce
        BY <1>15 DEF Replayed, LineReplayed, IngestOk, Ingesting, Rest
    <1>16. ASSUME NEW p \in Proc, Refused(p)
         PROVE  BuiltOnce
        BY <1>16 DEF Refused, LineDropped, IngestRefused, Ingesting, Rest
    <1>17. ASSUME NEW p \in Proc, Kept(p)
         PROVE  BuiltOnce
        BY <1>17 DEF Kept, LineKept, IngestLost, Ingesting, Move
    <1>18. ASSUME NEW p \in Proc, SpoolLock(p)
         PROVE  BuiltOnce
        BY <1>18 DEF SpoolLock, Lock, Move
    <1>19. ASSUME NEW p \in Proc, SpoolTrim(p)
         PROVE  BuiltOnce
        BY <1>19 DEF SpoolTrim, DropOldest, Rest
    <1>20. ASSUME NEW p \in Proc, SpoolInternal(p)
         PROVE  BuiltOnce
        BY <1>20 DEF SpoolInternal, AppendRead, Trimmed, DrainRead, DrainEnd,
        Write, Move
    <1>21. ASSUME NEW p \in Proc, SpoolReturn(p)
         PROVE  BuiltOnce
        BY <1>21 DEF SpoolReturn, Unlock, Go, Forget
    <1>22. CASE UNCHANGED vars
        BY <1>22 DEF vars
    <1> QED
        BY <1>1, <1>2, <1>3, <1>4, <1>5, <1>6, <1>7, <1>8, <1>9, <1>10, <1>11,
        <1>12, <1>13, <1>14, <1>15, <1>16, <1>17, <1>18, <1>19, <1>20, <1>21,
        <1>22
           DEF Next, Environment, ServerStep, Step, EmitStep, DrainStep

\* A step that only moves lines between the file, a copy and a call's argument
\* fills the spool with nothing new.
LEMMA MovesWithin ==
    ASSUME PipelineTypeOK, NEW p \in Proc, NEW s,
           ToSet(file') \subseteq ToSet(file) \cup ToSet(mem[p]),
           mem' = [mem EXCEPT ![p] = s],
           ToSet(s) \subseteq ToSet(file) \cup ToSet(mem[p]) \cup {arg[p]},
           arg' = arg \/ arg' = [arg EXCEPT ![p] = NoLine]
    PROVE  SpoolFilled
    <1> USE DEF PipelineTypeOK, TypeOK
    <1>1. \A q \in Proc : arg'[q] \in {arg[q], NoLine}
        OBVIOUS
    <1>2. \A q \in Proc : q # p => mem'[q] = mem[q]
        OBVIOUS
    <1>3. mem'[p] = s
        OBVIOUS
    <1> SUFFICES ASSUME NEW f \in Line
                 PROVE  (InSpool(f)' => InSpool(f)) /\ ~ Spools(f)
        BY DEF SpoolFilled
    <1>4. ~ Spools(f)
        BY <1>1, CommandAssumption, LineAssumption DEF Spools
    <1>5. ASSUME f \in ToSet(file') PROVE InSpool(f)
        BY <1>5 DEF InSpool
    <1>6. ASSUME NEW q \in Proc, f \in ToSet(mem'[q]) PROVE InSpool(f)
        <2>1. CASE q = p
            <3>1. f \in ToSet(file) \cup ToSet(mem[p]) \cup {arg[p]}
                BY <1>3, <1>6, <2>1
            <3> QED
                BY <3>1 DEF InSpool
        <2>2. CASE q # p
            BY <1>2, <1>6, <2>2 DEF InSpool
        <2> QED
            BY <2>1, <2>2
    <1>7. ASSUME NEW q \in Proc, arg'[q] = f PROVE InSpool(f)
        BY <1>1, <1>7, LineAssumption DEF InSpool
    <1> QED
        BY <1>4, <1>5, <1>6, <1>7 DEF InSpool

\* The spool is filled as SpoolFilled says.
LEMMA FillEffect ==
    PipelineTypeOK /\ [Next]_vars => SpoolFilled
    <1> SUFFICES ASSUME PipelineTypeOK, [Next]_vars PROVE SpoolFilled
        OBVIOUS
    <1> USE
            CommandAssumption, LineAssumption
               DEF vars, spoolVars, serverVars, history, SpoolFilled, InSpool,
                   Spools, OnItsWay, PipelineTypeOK, TypeOK
    <1>1. ASSUME NEW e \in Line, LateCommit(e), UNCHANGED <<spoolVars, cmd, history>>
         PROVE  SpoolFilled
        BY <1>1 DEF LateCommit
    <1>2. ASSUME NEW e \in Line, LateCancel(e), UNCHANGED <<spoolVars, cmd, history>>
         PROVE  SpoolFilled
        BY <1>2 DEF LateCancel
    <1>3. ASSUME NEW h \in Healths, HealthChange(h), UNCHANGED <<spoolVars, cmd, history>>
         PROVE  SpoolFilled
        BY <1>3 DEF HealthChange
    <1>4. ASSUME NEW p \in Proc, Skip(p)
         PROVE  SpoolFilled
        BY <1>4 DEF Skip, Go
    <1>5. ASSUME NEW p \in Proc, SpoolFail(p)
         PROVE  SpoolFilled
        <2> DEFINE s == mem'[p]
        <2>1. /\ ToSet(file') \subseteq ToSet(file) \cup ToSet(mem[p])
              /\ mem' = [mem EXCEPT ![p] = s]
              /\ arg' = arg \/ arg' = [arg EXCEPT ![p] = NoLine]
            BY <1>5 DEF SpoolFail, ReadFail, WriteFail, LockFail, Move, Forget
        <2>2. ToSet(s) \subseteq ToSet(file) \cup ToSet(mem[p]) \cup {arg[p]}
            BY <1>5 DEF SpoolFail, ReadFail, WriteFail, LockFail, Move, Forget, ToSet
        <2> QED
            BY <2>1, <2>2, MovesWithin
    <1>6. ASSUME NEW p \in Proc, Crash(p)
         PROVE  SpoolFilled
        <2> DEFINE s == mem'[p]
        <2>1. /\ ToSet(file') \subseteq ToSet(file) \cup ToSet(mem[p])
              /\ mem' = [mem EXCEPT ![p] = s]
              /\ arg' = arg \/ arg' = [arg EXCEPT ![p] = NoLine]
            BY <1>6 DEF Crash, SpoolCrash, Forget
        <2>2. ToSet(s) \subseteq ToSet(file) \cup ToSet(mem[p]) \cup {arg[p]}
            BY <1>6 DEF Crash, SpoolCrash, Forget, ToSet
        <2> QED
            BY <2>1, <2>2, MovesWithin
    <1>7. ASSUME NEW d \in Drainer, DrainAgain(d)
         PROVE  SpoolFilled
        BY <1>7 DEF DrainAgain
    <1>8. ASSUME NEW p \in Proc, Begin(p)
         PROVE  SpoolFilled
        BY <1>8 DEF Begin, Go
    <1>9. ASSUME NEW e \in Line, EmitConnected(e)
         PROVE  SpoolFilled
        BY <1>9 DEF EmitConnected, Go
    <1>10. ASSUME NEW e \in Line, EmitUnreachable(e)
         PROVE  SpoolFilled
        BY <1>10 DEF EmitUnreachable, AppendCall, Go, Move
    <1>11. ASSUME NEW e \in Line, EmitStored(e)
         PROVE  SpoolFilled
        BY <1>11 DEF EmitStored, IngestOk, DrainCall, Go, Move
    <1>12. ASSUME NEW e \in Line, EmitFailed(e)
         PROVE  SpoolFilled
        BY <1>12 DEF EmitFailed, IngestRefused, IngestLost, AppendCall, Go,
        Move
    <1>13. ASSUME NEW d \in Drainer, DrainConnected(d)
         PROVE  SpoolFilled
        BY <1>13 DEF DrainConnected, DrainCall, Go, Move
    <1>14. ASSUME NEW d \in Drainer, DrainUnreachable(d)
         PROVE  SpoolFilled
        BY <1>14 DEF DrainUnreachable, Go
    <1>15. ASSUME NEW p \in Proc, Replayed(p)
         PROVE  SpoolFilled
        <2> DEFINE s == Tail(mem[p])
        <2>1. /\ ToSet(file') \subseteq ToSet(file) \cup ToSet(mem[p])
              /\ mem' = [mem EXCEPT ![p] = s]
              /\ arg' = arg \/ arg' = [arg EXCEPT ![p] = NoLine]
            BY <1>15 DEF Replayed, LineReplayed, Ingesting, Rest
        <2>2. ToSet(s) \subseteq ToSet(file) \cup ToSet(mem[p]) \cup {arg[p]}
            BY <1>15, HeadAndTail DEF Replayed, LineReplayed, Ingesting, Rest
        <2> QED
            BY <2>1, <2>2, MovesWithin
    <1>16. ASSUME NEW p \in Proc, Refused(p)
         PROVE  SpoolFilled
        <2> DEFINE s == Tail(mem[p])
        <2>1. /\ ToSet(file') \subseteq ToSet(file) \cup ToSet(mem[p])
              /\ mem' = [mem EXCEPT ![p] = s]
              /\ arg' = arg \/ arg' = [arg EXCEPT ![p] = NoLine]
            BY <1>16 DEF Refused, LineDropped, Ingesting, Rest
        <2>2. ToSet(s) \subseteq ToSet(file) \cup ToSet(mem[p]) \cup {arg[p]}
            BY <1>16, HeadAndTail DEF Refused, LineDropped, Ingesting, Rest
        <2> QED
            BY <2>1, <2>2, MovesWithin
    <1>17. ASSUME NEW p \in Proc, Kept(p)
         PROVE  SpoolFilled
        BY <1>17 DEF Kept, LineKept, IngestLost, Ingesting, Move
    <1>18. ASSUME NEW p \in Proc, SpoolLock(p)
         PROVE  SpoolFilled
        BY <1>18 DEF SpoolLock, Lock, Move
    <1>19. ASSUME NEW p \in Proc, SpoolTrim(p)
         PROVE  SpoolFilled
        <2> DEFINE s == Tail(mem[p])
        <2>1. /\ ToSet(file') \subseteq ToSet(file) \cup ToSet(mem[p])
              /\ mem' = [mem EXCEPT ![p] = s]
              /\ arg' = arg \/ arg' = [arg EXCEPT ![p] = NoLine]
            BY <1>19 DEF SpoolTrim, DropOldest, Overflows, Rest
        <2>2. ToSet(s) \subseteq ToSet(file) \cup ToSet(mem[p]) \cup {arg[p]}
            BY <1>19, HeadAndTail DEF SpoolTrim, DropOldest, Overflows, Rest
        <2> QED
            BY <2>1, <2>2, MovesWithin
    <1>20. ASSUME NEW p \in Proc, SpoolInternal(p)
         PROVE  SpoolFilled
        <2>1. CASE AppendRead(p)
            <3> DEFINE s == Append(file, arg[p])
            <3>1. ToSet(s) \subseteq ToSet(file) \cup {arg[p]}
                BY <2>1, AppendWithin DEF AppendRead
            <3> QED
                BY <2>1, <1>20, <3>1, MovesWithin DEF AppendRead, SpoolInternal
        <2>2. CASE DrainRead(p)
            <3> DEFINE s == file
            <3> QED
                BY <2>2, <1>20, MovesWithin DEF DrainRead, SpoolInternal
        <2>3. CASE Trimmed(p) \/ DrainEnd(p) \/ Write(p)
            <3> DEFINE s == mem[p]
            <3>1. mem' = [mem EXCEPT ![p] = s] /\ arg' = arg
                BY <2>3 DEF Trimmed, DrainEnd, Write
            <3>2. ToSet(file') \subseteq ToSet(file) \cup ToSet(mem[p])
                BY <2>3 DEF Trimmed, DrainEnd, Write
            <3> QED
                BY <3>1, <3>2, MovesWithin
        <2> QED
            BY <1>20, <2>1, <2>2, <2>3 DEF SpoolInternal
    <1>21. ASSUME NEW p \in Proc, SpoolReturn(p)
         PROVE  SpoolFilled
        <2> DEFINE s == <<>>
        <2>1. /\ ToSet(file') \subseteq ToSet(file) \cup ToSet(mem[p])
              /\ mem' = [mem EXCEPT ![p] = s]
              /\ arg' = arg \/ arg' = [arg EXCEPT ![p] = NoLine]
            BY <1>21 DEF SpoolReturn, Unlock, Forget
        <2>2. ToSet(s) \subseteq ToSet(file) \cup ToSet(mem[p]) \cup {arg[p]}
            BY DEF ToSet
        <2> QED
            BY <2>1, <2>2, MovesWithin
    <1>22. CASE UNCHANGED vars
        BY <1>22 DEF vars
    <1> QED
        BY <1>1, <1>2, <1>3, <1>4, <1>5, <1>6, <1>7, <1>8, <1>9, <1>10, <1>11,
        <1>12, <1>13, <1>14, <1>15, <1>16, <1>17, <1>18, <1>19, <1>20, <1>21,
        <1>22
           DEF Next, Environment, ServerStep, Step, EmitStep, DrainStep

----------------------------------------------------------------------------
(***************************************************************************)
(* The inductive step.                                                     *)
(***************************************************************************)

\* The positions of a sequence that is appended to.
LEMMA AppendPlaces ==
    ASSUME NEW q \in Seq(Line), NEW l \in Line
    PROVE  /\ Append(q, l) \in Seq(Line)
           /\ DOMAIN q = 1 .. Len(q)
           /\ DOMAIN Append(q, l) = 1 .. (Len(q) + 1)
           /\ \A i \in 1 .. Len(q) : Append(q, l)[i] = q[i]
           /\ Append(q, l)[Len(q) + 1] = l
    OBVIOUS

\* The member of a sequence at one of its positions.
LEMMA Members ==
    ASSUME NEW q, NEW l
    PROVE  l \in ToSet(q) <=> \E i \in DOMAIN q : q[i] = l
    BY DEF ToSet

\* A row after the step is a row before it, or is the last one, and then its
\* event was on its way or in the spool.
NewRow ==
    \A i \in DOMAIN raw' :
        \/ i \in DOMAIN raw /\ raw'[i] = raw[i]
        \/ /\ \A k \in DOMAIN raw : k < i
           /\ OnItsWay(raw'[i]) \/ InSpool(raw'[i])
           /\ \A k \in DOMAIN raw' : k < i => k \in DOMAIN raw /\ raw'[k] = raw[k]

\* Rows keep their places, and only the last one is new.
LEMMA RowsPlaced ==
    ASSUME PipelineTypeOK, [Next]_vars
    PROVE  NewRow /\ Len(raw) <= Len(raw')
    <1>0. raw \in Seq(Line)
        BY DEF PipelineTypeOK, ServerTypeOK
    <1>1. CASE UNCHANGED raw
        BY <1>0, <1>1 DEF NewRow
    <1>2. CASE ~ UNCHANGED raw
        <2>1. PICK l \in Line : (OnItsWay(l) \/ InSpool(l)) /\ raw' = Append(raw, l)
            BY <1>2, RowsEffect DEF RowsAdded
        <2> DEFINE k == Len(raw)
        <2>2. /\ DOMAIN raw = 1 .. k /\ DOMAIN raw' = 1 .. (k + 1) /\ k \in Nat
              /\ \A i \in 1 .. k : raw'[i] = raw[i]
              /\ raw'[k + 1] = l /\ Len(raw') = k + 1
            BY <1>0, <2>1, AppendPlaces
        <2> HIDE DEF k
        <2>3. NewRow
            BY <2>1, <2>2 DEF NewRow
        <2>4. Len(raw) <= Len(raw')
            BY <2>2 DEF k
        <2> QED
            BY <2>3, <2>4
    <1> QED
        BY <1>1, <1>2

\* An event that is built after the step was built before it, at the same place,
\* or is the one that the step builds, at the end.
NewEvent ==
    \A n \in DOMAIN emitted' :
        \/ n \in DOMAIN emitted /\ emitted'[n] = emitted[n]
        \/ /\ n = Len(emitted) + 1 /\ Emits(emitted'[n])
           /\ \A f \in Line :
                OnItsWay(f) /\ SameSession(f, emitted'[n]) => f \in overtaken'

\* Events keep their places, and only the last one is new.
LEMMA EventsPlaced ==
    ASSUME SessionsTypeOK, EmitOrDrain
    PROVE  /\ NewEvent
           /\ emitted' \in Seq(Line) /\ Len(emitted) <= Len(emitted')
           /\ DOMAIN emitted \subseteq DOMAIN emitted'
           /\ \A n \in DOMAIN emitted : emitted'[n] = emitted[n]
           /\ \A f \in Line : Emits(f) => f \in ToSet(emitted')
           /\ overtaken \subseteq overtaken' /\ overtaken' \subseteq Line
    <1>0. emitted \in Seq(Line) /\ overtaken \subseteq Line
        BY DEF SessionsTypeOK
    <1>1. CASE UNCHANGED <<emitted, overtaken>> /\ ~ \E e \in Line : Emits(e)
        BY <1>0, <1>1 DEF NewEvent
    <1>2. CASE ~ (UNCHANGED <<emitted, overtaken>> /\ ~ \E e \in Line : Emits(e))
        <2>1. PICK e \in Line :
                /\ Emits(e)
                /\ emitted' = Append(emitted, e)
                /\ overtaken' = overtaken \cup
                       {f \in Line : OnItsWay(f) /\ Payload[f].session_id = Payload[e].session_id}
            BY <1>2 DEF EmitOrDrain
        <2> DEFINE k == Len(emitted)
        <2>2. /\ DOMAIN emitted = 1 .. k /\ DOMAIN emitted' = 1 .. (k + 1) /\ k \in Nat
              /\ \A n \in 1 .. k : emitted'[n] = emitted[n]
              /\ emitted'[k + 1] = e /\ Len(emitted') = k + 1
              /\ emitted' \in Seq(Line)
            BY <1>0, <2>1, AppendPlaces
        <2> HIDE DEF k
        <2>3. NewEvent
            BY <2>1, <2>2 DEF NewEvent, SameSession, k
        <2>4. \A f \in Line : Emits(f) => f \in ToSet(emitted')
            <3>1. \A f \in Line : Emits(f) => f = e
                BY <2>1, BuildEffect DEF BuiltOnce, SessionsTypeOK, EmitOrDrain
            <3>2. e \in ToSet(emitted')
                BY <2>2, Members
            <3> QED
                BY <3>1, <3>2
        <2> QED
            BY <1>0, <2>1, <2>2, <2>3, <2>4 DEF k
    <1> QED
        BY <1>1, <1>2

\* An event that was built is not built by this step.
LEMMA NotBuiltAgain ==
    ASSUME SessionsInv, NEW f \in Line, f \in ToSet(emitted)
    PROVE  ~ Emits(f)
    BY DEF SessionsInv, Built, Emits

\* A step of emit or drain keeps Built.
LEMMA BuiltStep ==
    ASSUME PipelineInv, SessionsInv, EmitOrDrain
    PROVE  Built'
    <1>0. SessionsTypeOK /\ PipelineTypeOK /\ [Next]_vars /\ Built /\ Handed
        BY DEF PipelineInv, SessionsInv, EmitOrDrain
    <1>0a. emitted \in Seq(Line) /\ raw \in Seq(Line)
        BY <1>0 DEF SessionsTypeOK, PipelineTypeOK, ServerTypeOK
    <1>1. ToSet(emitted) \subseteq ToSet(emitted')
        BY <1>0, EventsPlaced, Members
    <1>2. ASSUME NEW m \in DOMAIN emitted', NEW n \in DOMAIN emitted', emitted'[m] = emitted'[n]
          PROVE  m = n
        <2>1. CASE m \in DOMAIN emitted /\ n \in DOMAIN emitted
            BY <1>0, <1>2, <2>1, EventsPlaced DEF Built
        <2>2. CASE m \notin DOMAIN emitted /\ n \notin DOMAIN emitted
            BY <1>0, <2>2, EventsPlaced DEF NewEvent
        <2>3. \A a, b \in DOMAIN emitted' :
                a \in DOMAIN emitted /\ b \notin DOMAIN emitted => emitted'[a] # emitted'[b]
            <3> SUFFICES ASSUME NEW a \in DOMAIN emitted, NEW b \in DOMAIN emitted',
                                b \notin DOMAIN emitted
                         PROVE  emitted'[a] # emitted'[b]
                OBVIOUS
            <3>1. Emits(emitted'[b])
                BY <1>0, EventsPlaced DEF NewEvent
            <3>2. emitted'[a] = emitted[a] /\ emitted[a] \in Line /\ emitted[a] \in ToSet(emitted)
                BY <1>0, <1>0a, EventsPlaced, Members
            <3> QED
                BY <3>1, <3>2, NotBuiltAgain
        <2> QED
            BY <1>2, <2>1, <2>2, <2>3
    <1>3. ASSUME NEW f \in Line, cmd'[f] = "start" PROVE f \notin ToSet(emitted')
        <2>1. cmd[f] = "start" /\ f \notin ToSet(emitted)
            BY <1>0, <1>3, BuildEffect DEF BuiltOnce, Built
        <2>2. ~ Emits(f)
            BY <1>3 DEF Emits
        <2>3. \A n \in DOMAIN emitted' : emitted'[n] # f
            BY <1>0, <2>1, <2>2, EventsPlaced, Members DEF NewEvent
        <2> QED
            BY <2>3, Members
    <1>4. \A f \in Line : OnItsWay(f) \/ InSpool(f) => f \in ToSet(emitted)
        BY <1>0 DEF Built, Handed
    <1>5. ASSUME NEW f \in Line, OnItsWay(f)' PROVE f \in ToSet(emitted')
        BY <1>0, <1>1, <1>4, <1>5, WaysEffect, EventsPlaced DEF WaysBegin
    <1>6. ASSUME NEW f \in Line, f \in spooled' PROVE f \in ToSet(emitted')
        <2>1. f \in spooled \/ Spools(f)
            BY <1>6 DEF EmitOrDrain
        <2>2. Spools(f) => OnItsWay(f)
            BY <1>0, FillEffect DEF SpoolFilled
        <2> QED
            BY <1>0, <1>1, <1>4, <2>1, <2>2 DEF Built
    <1>7. ASSUME NEW f \in Line, f \in ToSet(raw') PROVE f \in ToSet(emitted')
        <2>1. PICK i \in DOMAIN raw' : raw'[i] = f
            BY <1>7, Members
        <2>2. f \in ToSet(raw) \/ OnItsWay(f) \/ InSpool(f)
            BY <1>0, <2>1, RowsPlaced, Members DEF NewRow
        <2> QED
            BY <1>0, <1>1, <1>4, <2>2 DEF Built
    <1> QED
        BY <1>2, <1>3, <1>5, <1>6, <1>7 DEF Built

\* A step of emit or drain keeps the rest of the invariant.
LEMMA OrderStep ==
    ASSUME PipelineInv, SessionsInv, EmitOrDrain
    PROVE  SessionsTypeOK' /\ Handed' /\ InTurn' /\ RowsInOrder' /\ RowsInWindow'
    <1>0. SessionsTypeOK /\ PipelineTypeOK /\ [Next]_vars /\ Built /\ Handed
        BY DEF PipelineInv, SessionsInv, EmitOrDrain
    <1>a. /\ emitted \in Seq(Line) /\ raw \in Seq(Line) /\ raw' \in Seq(Line)
          /\ PipelineTypeOK'
        BY <1>0, PipelineStep
           DEF SessionsTypeOK, PipelineTypeOK, ServerTypeOK, PipelineInv
    <1>b. window \in [rows : 0 .. Len(raw), events : 0 .. Len(emitted)] /\ window' = window
        BY <1>0 DEF SessionsTypeOK, EmitOrDrain
    <1>c. /\ spooled \subseteq spooled' /\ spooled' \subseteq Line
          /\ \A f \in Line : Spools(f) => f \in spooled'
        BY <1>0 DEF SessionsTypeOK, EmitOrDrain
    <1>d. Late \subseteq Late'
        BY <1>0, <1>c, EventsPlaced DEF Late
    <1>e. \A f \in Line : InSpool(f) => f \in Late
        BY <1>0 DEF Handed, Late
    <1>f. \A f \in Line : OnItsWay(f) \/ f \in spooled \cup ToSet(raw) => f \in ToSet(emitted)
        BY <1>0 DEF Built
    <1>g. \A n \in DOMAIN emitted' :
            emitted'[n] \in ToSet(emitted) => n \in DOMAIN emitted /\ emitted[n] = emitted'[n]
        <2> SUFFICES ASSUME NEW n \in DOMAIN emitted', emitted'[n] \in ToSet(emitted),
                            n \notin DOMAIN emitted
                     PROVE  FALSE
            BY <1>0, EventsPlaced
        <2>1. Emits(emitted'[n])
            BY <1>0, EventsPlaced DEF NewEvent
        <2>2. emitted'[n] \in Line
            BY <1>0, EventsPlaced
        <2> QED
            BY <2>1, <2>2, NotBuiltAgain
    <1>1. SessionsTypeOK'
        <2>1. Len(raw) <= Len(raw') /\ Len(emitted) <= Len(emitted') /\ emitted' \in Seq(Line)
              /\ overtaken' \subseteq Line
            BY <1>0, RowsPlaced, EventsPlaced
        <2>2. 0 .. Len(raw) \subseteq 0 .. Len(raw')
            BY <1>a, <2>1
        <2>3. 0 .. Len(emitted) \subseteq 0 .. Len(emitted')
            BY <1>a, <2>1
        <2> QED
            BY <1>a, <1>b, <1>c, <2>1, <2>2, <2>3 DEF SessionsTypeOK
    <1>2. Handed'
        BY <1>0, <1>c, FillEffect DEF SpoolFilled, Handed
    <1>3. InTurn'
        <2> SUFFICES ASSUME NEW n \in DOMAIN emitted',
                            OnItsWay(emitted[n])', emitted'[n] \notin Late'
                     PROVE  /\ n > window.events
                            /\ \A m \in DOMAIN emitted' :
                                   SameSession(emitted'[m], emitted'[n]) => m <= n
            BY <1>b DEF InTurn, SameSession
        <2> DEFINE f == emitted'[n]
        <2>0. f \in Line /\ DOMAIN emitted' = 1 .. Len(emitted') /\ DOMAIN emitted = 1 .. Len(emitted)
              /\ Len(emitted) \in Nat /\ Len(emitted') \in Nat
            BY <1>0, <1>a, EventsPlaced
        <2>1. CASE n \in DOMAIN emitted
            <3>1. f \in ToSet(emitted) /\ f = emitted[n]
                BY <1>0, <2>1, EventsPlaced, Members
            <3>2. OnItsWay(f) /\ f \notin Late
                BY <1>0, <1>d, <1>e, <2>0, <3>1, WaysEffect, NotBuiltAgain
                   DEF WaysBegin, OnItsWay
            <3>3. n > window.events /\ \A m \in DOMAIN emitted : SameSession(emitted[m], f) => m <= n
                BY <2>1, <3>1, <3>2 DEF SessionsInv, InTurn
            <3>4. ASSUME NEW m \in DOMAIN emitted', SameSession(emitted'[m], f) PROVE m <= n
                <4>1. CASE m \in DOMAIN emitted
                    BY <1>0, <3>3, <3>4, <4>1, EventsPlaced
                <4>2. CASE m \notin DOMAIN emitted
                    <5>1. f \in overtaken'
                        BY <1>0, <2>0, <3>2, <3>4, <4>2, EventsPlaced
                           DEF NewEvent, SameSession
                    <5> QED
                        BY <5>1 DEF Late
                <4> QED
                    BY <4>1, <4>2
            <3> QED
                BY <3>3, <3>4
        <2>2. CASE n \notin DOMAIN emitted
            <3>1. n = Len(emitted) + 1 /\ \A m \in DOMAIN emitted' : m <= n
                BY <1>0, <2>0, <2>2, EventsPlaced DEF NewEvent
            <3>2. window.events \in 0 .. Len(emitted)
                BY <1>b
            <3> QED
                BY <2>0, <3>1, <3>2
        <2> QED
            BY <2>1, <2>2
    <1>4. ASSUME NEW i \in DOMAIN raw', NEW n \in DOMAIN emitted', emitted'[n] = raw'[i],
                 raw'[i] \notin Late'
          PROVE  /\ n \in DOMAIN emitted /\ emitted[n] = raw'[i] /\ raw'[i] \notin Late
                 /\ (i \in DOMAIN raw /\ raw'[i] = raw[i]) \/ OnItsWay(raw'[i])
        <2>0. raw'[i] \in Line /\ raw'[i] \notin Late
            BY <1>a, <1>d, <1>4
        <2>1. (i \in DOMAIN raw /\ raw'[i] = raw[i]) \/ OnItsWay(raw'[i])
            BY <1>0, <1>e, <2>0, RowsPlaced DEF NewRow
        <2>2. raw'[i] \in ToSet(emitted)
            BY <1>f, <2>0, <2>1, Members
        <2> QED
            BY <1>4, <1>g, <2>0, <2>1, <2>2
    <1>5. RowsInOrder'
        <2> SUFFICES ASSUME NEW i \in DOMAIN raw', NEW j \in DOMAIN raw',
                            NEW m \in DOMAIN emitted', NEW n \in DOMAIN emitted',
                            i < j, SameSession(raw'[i], raw'[j]), raw'[j] \notin Late',
                            emitted'[m] = raw'[i], emitted'[n] = raw'[j]
                     PROVE  m <= n
            BY DEF RowsInOrder, SameSession
        <2>1. i \in DOMAIN raw /\ raw'[i] = raw[i]
            BY <1>0, <1>a, RowsPlaced DEF NewRow
        <2>2. m \in DOMAIN emitted /\ emitted[m] = raw[i]
            BY <1>a, <1>f, <1>g, <2>1, Members
        <2>3. n \in DOMAIN emitted /\ emitted[n] = raw'[j] /\ raw'[j] \notin Late
            BY <1>4
        <2>4. CASE j \in DOMAIN raw /\ raw'[j] = raw[j]
            BY <2>1, <2>2, <2>3, <2>4 DEF SessionsInv, RowsInOrder
        <2>5. CASE OnItsWay(raw'[j])
            BY <2>1, <2>2, <2>3, <2>5 DEF SessionsInv, InTurn
        <2> QED
            BY <1>4, <2>4, <2>5
    <1>6. RowsInWindow'
        <2> SUFFICES ASSUME NEW i \in DOMAIN raw', NEW n \in DOMAIN emitted',
                            i > window.rows, emitted'[n] = raw'[i], raw'[i] \notin Late'
                     PROVE  n > window.events
            BY <1>b DEF RowsInWindow
        <2>1. CASE i \in DOMAIN raw /\ raw'[i] = raw[i]
            BY <1>4, <2>1 DEF SessionsInv, RowsInWindow
        <2>2. CASE OnItsWay(raw'[i])
            BY <1>4, <2>2 DEF SessionsInv, InTurn
        <2> QED
            BY <1>4, <2>1, <2>2
    <1> QED
        BY <1>1, <1>2, <1>3, <1>5, <1>6

\* The passing of the threshold keeps the invariant: what is on its way is late.
LEMMA PassStep ==
    ASSUME SessionsInv, Pass
    PROVE  SessionsInv'
    <1>0. /\ SessionsTypeOK /\ emitted \in Seq(Line) /\ raw \in Seq(Line)
          /\ UNCHANGED <<vars, emitted, spooled>>
        BY DEF SessionsInv, SessionsTypeOK, PipelineTypeOK, ServerTypeOK, Pass
    <1>a. UNCHANGED <<file, mem, arg, raw, health, inflight, cmd>>
        BY <1>0 DEF vars, spoolVars, serverVars
    <1>b. /\ window' = [rows |-> Len(raw), events |-> Len(emitted)]
          /\ overtaken' = overtaken \cup {e \in Line : OnItsWay(e)}
        BY DEF Pass
    <1>c. Late \subseteq Late' /\ \A f \in Line : OnItsWay(f) => f \in Late'
        BY <1>0, <1>b DEF Late
    <1>d. \A f \in Line : (OnItsWay(f)' <=> OnItsWay(f)) /\ (InSpool(f)' <=> InSpool(f))
        BY <1>a DEF OnItsWay, InSpool
    <1>1. SessionsTypeOK'
        <2>1. PipelineTypeOK'
            BY <1>0
               DEF SessionsTypeOK, PipelineTypeOK, TypeOK, ServerTypeOK, vars,
                   spoolVars,
                serverVars, history
        <2> QED
            BY <1>0, <1>a, <1>b, <2>1 DEF SessionsTypeOK
    <1>2. Built' /\ Handed'
        BY <1>0, <1>a, <1>d DEF SessionsInv, Built, Handed
    <1>3. InTurn'
        <2>1. \A n \in DOMAIN emitted : OnItsWay(emitted[n])' => emitted[n] \in Late'
            BY <1>0, <1>c, <1>d
        <2> QED
            BY <1>0, <2>1 DEF InTurn, OnItsWay
    <1>4. RowsInOrder'
        BY <1>0, <1>a, <1>c DEF SessionsInv, RowsInOrder, SameSession
    <1>5. RowsInWindow'
        BY <1>0, <1>a, <1>b DEF RowsInWindow
    <1> QED
        BY <1>1, <1>2, <1>3, <1>4, <1>5 DEF SessionsInv

\* The views start empty.
LEMMA SessionsInitInv == SessionsInit => SessionsInv
    <1> SUFFICES ASSUME SessionsInit PROVE SessionsInv
        OBVIOUS
    <1>1. /\ raw = <<>> /\ emitted = <<>> /\ spooled = {} /\ overtaken = {} /\ inflight = {}
          /\ file = <<>> /\ mem = [p \in Proc |-> <<>>] /\ arg = [p \in Proc |-> NoLine]
          /\ cmd = [p \in Proc |-> "start"] /\ window = [rows |-> 0, events |-> 0]
        BY DEF SessionsInit, Init, SpoolInit, ServerInit
    <1>2. ToSet(<<>>) = {}
        BY DEF ToSet
    <1>3. SessionsTypeOK
        <2>1. PipelineTypeOK
            BY PipelineInit DEF SessionsInit, PipelineInv
        <2> QED
            BY <1>1, <2>1 DEF SessionsTypeOK
    <1>4. Built
        BY <1>1, <1>2, CommandAssumption DEF Built, OnItsWay
    <1>5. Handed
        BY <1>1, <1>2, LineAssumption DEF Handed, InSpool
    <1>6. InTurn /\ RowsInOrder /\ RowsInWindow
        BY <1>1 DEF InTurn, RowsInOrder, RowsInWindow
    <1> QED
        BY <1>3, <1>4, <1>5, <1>6 DEF SessionsInv

\* Every step keeps the invariant.
LEMMA SessionsStep ==
    PipelineInv /\ SessionsInv /\ [SessionsNext]_<<vars, sessionVars>> => SessionsInv'
    <1> SUFFICES ASSUME PipelineInv, SessionsInv, [SessionsNext]_<<vars, sessionVars>>
                 PROVE  SessionsInv'
        OBVIOUS
    <1>1. CASE EmitOrDrain
        BY <1>1, BuiltStep, OrderStep DEF SessionsInv
    <1>2. CASE Pass
        BY <1>2, PassStep
    <1>3. CASE UNCHANGED <<vars, sessionVars>>
        <2>1. /\ UNCHANGED <<emitted, spooled, overtaken, window>>
              /\ UNCHANGED <<spoolVars, serverVars, cmd, history>>
            BY <1>3 DEF vars, sessionVars
        <2>2. SessionsTypeOK'
            BY <2>1
               DEF SessionsInv, SessionsTypeOK, PipelineTypeOK, TypeOK,
                   ServerTypeOK,
                spoolVars, serverVars, history
        <2>3. Built' /\ Handed' /\ InTurn' /\ RowsInOrder' /\ RowsInWindow'
            BY <2>1
               DEF SessionsInv, Built, Handed, InTurn, RowsInOrder,
                   RowsInWindow, OnItsWay,
                InSpool, SameSession, Late, spoolVars, serverVars
        <2> QED
            BY <2>2, <2>3 DEF SessionsInv
    <1> QED
        BY <1>1, <1>2, <1>3 DEF SessionsNext

----------------------------------------------------------------------------

\* Time passing beside it and the history do not change what the pipeline does,
\* so that whatever is proved of the pipeline holds below the views.
THEOREM SessionsIsPipeline == SessionsSpec => Spec
    <1>1. SessionsInit => Init
        BY DEF SessionsInit
    <1>2. [SessionsNext]_<<vars, sessionVars>> => [Next]_vars
        BY DEF SessionsNext, EmitOrDrain, Pass
    <1> QED
        BY <1>1, <1>2, PTL DEF SessionsSpec, Spec

\* The rows that did not come late are in the order in which their events were
\* built, whatever processes time out, fail and die (emit.go, 002_views.sql).
THEOREM SessionsCorrect == SessionsSpec => []SessionsInv
    <1>1. SessionsSpec => []PipelineInv
        BY SessionsIsPipeline, PipelineCorrect, PTL
    <1>2. SessionsInit => SessionsInv
        BY SessionsInitInv
    <1>3. PipelineInv /\ SessionsInv /\ [SessionsNext]_<<vars, sessionVars>> => SessionsInv'
        BY SessionsStep
    <1> QED
        BY <1>1, <1>2, <1>3, PTL DEF SessionsSpec

\* The views show of each session the host and the step that it emitted last as
\* far as it arrived, but for late events (003_sessions_last_host.sql:9-20).
THEOREM LastEventShown == SessionsSpec => []LastShown
    <1>1. SessionsInv => LastShown
        <2> SUFFICES ASSUME SessionsInv, NEW s \in Session, NEW field \in {"host", "step"},
                            With(s, field) # {}, raw[LastRow(s, field)] \notin Late,
                            NEW i \in With(s, field)
                     PROVE  Place(raw[i]) <= Place(raw[LastRow(s, field)])
            BY DEF LastShown
        <2> DEFINE j == LastRow(s, field)
        <2>1. raw \in Seq(Line) /\ emitted \in Seq(Line)
            BY DEF SessionsInv, SessionsTypeOK, PipelineTypeOK, ServerTypeOK
        <2>2. With(s, field) \subseteq 1 .. Len(raw) /\ Len(raw) \in Nat
            BY <2>1 DEF With, RowsOf
        <2>3. j \in With(s, field) /\ i <= j
            BY <2>2, MaxOfPositions DEF LastRow
        <2> HIDE DEF j
        <2>4. i \in DOMAIN raw /\ j \in DOMAIN raw /\ SameSession(raw[i], raw[j])
            BY <2>3 DEF With, RowsOf, SameSession
        <2>5. raw[i] \in Line /\ raw[j] \in Line /\ raw[i] \in ToSet(emitted) /\ raw[j] \in ToSet(emitted)
            BY <2>1, <2>4, Members DEF SessionsInv, Built
        <2>6. /\ Place(raw[i]) \in DOMAIN emitted /\ emitted[Place(raw[i])] = raw[i]
              /\ Place(raw[j]) \in DOMAIN emitted /\ emitted[Place(raw[j])] = raw[j]
            BY <2>5, Members DEF Place
        <2>7. CASE i = j
            BY <2>1, <2>6, <2>7 DEF j
        <2>8. CASE i < j
            BY <2>4, <2>6, <2>8 DEF SessionsInv, RowsInOrder, j
        <2>9. i \in Nat /\ j \in Nat
            BY <2>2, <2>3
        <2> QED
            BY <2>3, <2>7, <2>8, <2>9
    <1> QED
        BY <1>1, SessionsCorrect, PTL

\* A session that is shown as active and not as stalled has emitted an event
\* within the threshold, or an event of it came late (002_views.sql:31-39).
THEOREM ActiveIsAlive == SessionsSpec => []AliveEmits
    <1>1. SessionsInv => AliveEmits
        <2> SUFFICES ASSUME SessionsInv, NEW s \in Session,
                            RowsOf(s) # {}, State(s) = "active", s \notin Stalled
                     PROVE  \E n \in DOMAIN emitted :
                                /\ Payload[emitted[n]].session_id = s
                                /\ n > window.events \/ emitted[n] \in Late
            BY DEF AliveEmits
        <2>1. PICK i \in RowsOf(s) : ~ (i <= window.rows)
            BY DEF Stalled, Silent
        <2>2. /\ raw \in Seq(Line) /\ emitted \in Seq(Line)
              /\ window \in [rows : 0 .. Len(raw), events : 0 .. Len(emitted)]
            BY DEF SessionsInv, SessionsTypeOK, PipelineTypeOK, ServerTypeOK
        <2>3. i \in DOMAIN raw /\ Payload[raw[i]].session_id = s /\ i > window.rows
            BY <2>1, <2>2 DEF RowsOf
        <2>4. raw[i] \in Line /\ raw[i] \in ToSet(emitted)
            BY <2>2, <2>3, Members DEF SessionsInv, Built
        <2>5. PICK n \in DOMAIN emitted : emitted[n] = raw[i]
            BY <2>4, Members
        <2>6. n > window.events \/ emitted[n] \in Late
            BY <2>3, <2>5 DEF SessionsInv, RowsInWindow
        <2> QED
            BY <2>3, <2>5, <2>6
    <1> QED
        BY <1>1, SessionsCorrect, PTL
============================================================================
