--------------------------- MODULE MigrateProofs ---------------------------
(***************************************************************************)
(* Proofs about any number of migrators that overlap, die and are run      *)
(* again, for any files, with rollbacks at any time.                       *)
(***************************************************************************)
EXTENDS Migrate, SequenceTheorems, TLAPS

\* Files are numbered from 1, and an object of a file is an object.
LEMMA FileFacts ==
    /\ Len(Script) \in Nat /\ File = 1 .. Len(Script) /\ File \subseteq Nat
    /\ 0 \notin File
    /\ \A f \in File :
           /\ Script[f] \in Seq(Object) /\ Len(Script[f]) \in Nat
           /\ DOMAIN Script[f] = 1 .. Len(Script[f])
           /\ \A i \in DOMAIN Script[f] :
                  Script[f][i] \in Object /\ Script[f][i] \in ToSet(Script[f])
    <1>1. /\ Len(Script) \in Nat /\ File = 1 .. Len(Script)
          /\ \A f \in File : Script[f] \in Seq(Object)
        BY ScriptAssumption DEF File
    <1>2. ASSUME NEW f \in File
          PROVE  /\ Len(Script[f]) \in Nat
                 /\ DOMAIN Script[f] = 1 .. Len(Script[f])
                 /\ \A i \in DOMAIN Script[f] :
                        Script[f][i] \in Object /\ Script[f][i] \in ToSet(Script[f])
        BY <1>1 DEF ToSet
    <1> QED
        BY <1>1, <1>2

\* A rollback drops objects, and none of another file.
LEMMA UndoFacts ==
    /\ DOMAIN Undo \subseteq File /\ 0 \notin DOMAIN Undo
    /\ \A f \in DOMAIN Undo :
           /\ Len(Undo[f]) \in Nat
           /\ \A i \in 1 .. Len(Undo[f]) :
                  /\ Undo[f][i] \in Object
                  /\ \A g \in File \ {f} : Undo[f][i] \notin ToSet(Script[g])
    <1>1. ASSUME NEW f \in DOMAIN Undo, NEW i \in 1 .. Len(Undo[f])
          PROVE  /\ Undo[f][i] \in Object
                 /\ \A g \in File \ {f} : Undo[f][i] \notin ToSet(Script[g])
        <2>1. /\ f \in File /\ Undo[f] \in Seq(Object)
              /\ ToSet(Undo[f]) \subseteq ToSet(Script[f])
              /\ \A g \in File \ {f} : ToSet(Script[f]) \cap ToSet(Script[g]) = {}
            BY UndoAssumption
        <2>2. Undo[f][i] \in Object /\ Undo[f][i] \in ToSet(Undo[f])
            BY <2>1 DEF ToSet
        <2> QED
            BY <2>1, <2>2
    <1>2. \A f \in DOMAIN Undo : Len(Undo[f]) \in Nat
        BY UndoAssumption
    <1> QED
        BY <1>1, <1>2, UndoAssumption, FileFacts

\* Nobody takes away an object but a rollback of the file that makes it.
LEMMA MadeStays ==
    ASSUME MigrateInv, [Next]_vars,
           NEW f \in File, f # undo, NEW i \in DOMAIN Script[f], made[Script[f][i]] # 0
    PROVE  made'[Script[f][i]] # 0
    <1>a. /\ MigrateTypeOK /\ Behind
          /\ Script[f][i] \in Object /\ Script[f][i] \in ToSet(Script[f])
        BY FileFacts DEF MigrateInv
    <1>1. ASSUME NEW p \in Migrator, Exec(p) PROVE made'[Script[f][i]] # 0
        <2>1. next[p] \in File
            BY <1>a, <1>1 DEF Exec, Go, Behind
        <2> QED
            BY <1>a, <1>1, <2>1, FileFacts DEF Exec
    <1>2. ASSUME NEW p \in Migrator, ExecStatement(p) PROVE made'[Script[f][i]] # 0
        <2>1. next[p] \in File
            BY <1>a, <1>2 DEF ExecStatement, Behind
        <2> QED
            BY <1>2, <1>a, <2>1, FileFacts DEF ExecStatement, MigrateTypeOK
    <1>3. ASSUME UndoDrop PROVE made'[Script[f][i]] # 0
        <2>1. undo \in DOMAIN Undo /\ dropped + 1 \in 1 .. Len(Undo[undo])
            BY <1>a, <1>3, UndoFacts DEF UndoDrop, MigrateTypeOK
        <2>2. Undo[undo][dropped + 1] # Script[f][i]
            BY <1>a, <2>1, UndoFacts
        <2> QED
            BY <1>a, <1>3, <2>2 DEF UndoDrop, MigrateTypeOK
    <1>4. CASE UNCHANGED made
        BY <1>4
    <1> QED
        BY <1>1, <1>2, <1>3, <1>4
           DEF Next, Step, Operator, vars, Start, Bootstrap, AlreadyApplied, NotRecorded,
               ExecEnd, Record, RecordConflict, Finish, Collide, Stop,
               UndoStart, UndoRecord, UndoStop

\* Only a rollback takes a file out of those that are recorded.
LEMMA VersionsStay ==
    ASSUME MigrateInv, [Next]_vars
    PROVE  recorded \cup undone \subseteq recorded' \cup undone'
    BY DEF Next, Step, Operator, vars, history, Start, Bootstrap, AlreadyApplied,
           NotRecorded, Exec, ExecStatement, ExecEnd, Record, RecordConflict, Finish,
           Collide, Stop, NextFile, UndoStart, UndoDrop, UndoRecord, UndoStop

\* No object of a file without a rollback, recorded or under way, is put back to
\* an earlier file, as long as no two migrators overlap.
LEMMA MadeRises ==
    ASSUME MigrateInv, [Next]_vars, "overlap" \notin mishaps,
           NEW f \in File \ DOMAIN Undo,
           f \in recorded \/ \E q \in Migrator : at[q] \in {"exec", "record"} /\ next[q] = f,
           NEW i \in DOMAIN Script[f], made[Script[f][i]] >= f
    PROVE  made'[Script[f][i]] >= f
    <1>a. /\ MigrateTypeOK /\ Behind /\ RecordedInOrder
          /\ \A p, q \in Busy : p = q
          /\ \A p \in Migrator : at[p] \in {"exec", "record"} => next[p] \notin recorded
        BY DEF MigrateInv, InTurn
    <1>b. f \in Nat /\ Script[f][i] \in Object /\ Script[f][i] \in ToSet(Script[f])
        BY FileFacts
    <1>c. ASSUME NEW p \in Migrator, at[p] = "exec", Script[f][i] \in ToSet(Script[next[p]])
          PROVE  next[p] \in File /\ next[p] >= f
        <2>1. next[p] \in File /\ next[p] \in Nat /\ next[p] \notin recorded
            BY <1>a, <1>c, FileFacts DEF Behind
        <2>2. CASE f \in recorded
            <3> SUFFICES ASSUME next[p] < f PROVE FALSE
                BY <1>b, <2>1
            <3>1. next[p] \in DOMAIN Undo
                BY <1>a, <2>1, <2>2 DEF RecordedInOrder, MigrateTypeOK
            <3>2. ToSet(Script[next[p]]) \cap ToSet(Script[f]) = {}
                BY <3>1, UndoAssumption
            <3> QED
                BY <1>b, <1>c, <3>2
        <2>3. CASE \E q \in Migrator : at[q] \in {"exec", "record"} /\ next[q] = f
            <3>1. PICK q \in Migrator : at[q] \in {"exec", "record"} /\ next[q] = f
                BY <2>3
            <3>2. q = p
                BY <1>a, <1>c, <3>1 DEF Busy
            <3> QED
                BY <1>b, <2>1, <3>1, <3>2
        <2> QED
            BY <2>1, <2>2, <2>3
    <1>1. ASSUME NEW p \in Migrator, Exec(p) PROVE made'[Script[f][i]] >= f
        BY <1>b, <1>c, <1>1 DEF Exec, Go
    <1>2. ASSUME NEW p \in Migrator, ExecStatement(p) PROVE made'[Script[f][i]] >= f
        <2>1. next[p] \in File /\ done[p] + 1 \in DOMAIN Script[next[p]]
            BY <1>a, <1>2, FileFacts DEF ExecStatement, Behind, MigrateTypeOK
        <2>2. Script[next[p]][done[p] + 1] \in ToSet(Script[next[p]])
            BY <2>1, FileFacts
        <2> QED
            BY <1>a, <1>b, <1>c, <1>2, <2>1, <2>2 DEF ExecStatement, MigrateTypeOK
    <1>3. ASSUME UndoDrop PROVE made'[Script[f][i]] >= f
        <2>1. undo \in DOMAIN Undo /\ dropped + 1 \in 1 .. Len(Undo[undo])
            BY <1>a, <1>3, UndoFacts DEF UndoDrop, MigrateTypeOK
        <2>2. Undo[undo][dropped + 1] # Script[f][i]
            BY <1>b, <2>1, UndoFacts
        <2> QED
            BY <1>a, <1>b, <1>3, <2>2 DEF UndoDrop, MigrateTypeOK
    <1>4. CASE UNCHANGED made
        BY <1>4
    <1> QED
        BY <1>1, <1>2, <1>3, <1>4
           DEF Next, Step, Operator, vars, Start, Bootstrap, AlreadyApplied, NotRecorded,
               ExecEnd, Record, RecordConflict, Finish, Collide, Stop,
               UndoStart, UndoRecord, UndoStop

\* Every step keeps the state well typed.
LEMMA TypeStep ==
    ASSUME MigrateInv, [Next]_vars
    PROVE  MigrateTypeOK'
    <1>a. MigrateTypeOK /\ Behind
        BY DEF MigrateInv
    <1>b. \A p \in Migrator : at[p] = "boot" => done[p] = 0
        BY DEF MigrateInv, Executed
    <1> USE DEF MigrateTypeOK, At, rollback, migrators, history
    <1>1. ASSUME NEW p \in Migrator, NEW t \in Tools, Start(p, t)
         PROVE  MigrateTypeOK'
        BY <1>1, <1>a DEF Start, Go
    <1>2. ASSUME NEW p \in Migrator, Bootstrap(p)
         PROVE  MigrateTypeOK'
        BY <1>2, <1>a, <1>b, FileFacts DEF Bootstrap, Go
    <1>3. ASSUME NEW p \in Migrator, AlreadyApplied(p)
         PROVE  MigrateTypeOK'
        BY <1>3, <1>a, <1>b, FileFacts DEF AlreadyApplied, NextFile
    <1>4. ASSUME NEW p \in Migrator, NotRecorded(p)
         PROVE  MigrateTypeOK'
        BY <1>4, <1>a DEF NotRecorded, Go
    <1>5. ASSUME NEW p \in Migrator, Exec(p)
         PROVE  MigrateTypeOK'
        <2>1. next[p] \in File
            BY <1>5, <1>a DEF Exec, Go, Behind
        <2>2. made' \in [Object -> File \cup {0}]
            BY <1>5, <1>a, <2>1 DEF Exec
        <2> QED
            BY <1>5, <1>a, <2>2 DEF Exec, Go
    <1>6. ASSUME NEW p \in Migrator, ExecStatement(p)
         PROVE  MigrateTypeOK'
        <2>1. next[p] \in File
            BY <1>6, <1>a DEF ExecStatement, Behind
        <2>2. made' \in [Object -> File \cup {0}]
            BY <1>6, <1>a, <2>1 DEF ExecStatement
        <2>3. done' \in [Migrator -> Nat]
            BY <1>6, <1>a DEF ExecStatement
        <2>4. \A q \in Migrator :
                  next'[q] \in File => done'[q] <= Len(Script[next'[q]])
            BY <1>6, <1>a, <2>1, FileFacts DEF ExecStatement
        <2> QED
            BY <1>6, <1>a, <2>2, <2>3, <2>4 DEF ExecStatement
    <1>7. ASSUME NEW p \in Migrator, ExecEnd(p)
         PROVE  MigrateTypeOK'
        BY <1>7, <1>a DEF ExecEnd, Go
    <1>8. ASSUME NEW p \in Migrator, Record(p)
         PROVE  MigrateTypeOK'
        <2>1. next[p] \in File
            BY <1>8, <1>a DEF Record, Go, Behind
        <2>2. /\ next' \in [Migrator -> Nat] /\ done' \in [Migrator -> Nat]
              /\ at' \in [Migrator -> At]
            BY <1>8, <1>a DEF Record, Go, NextFile
        <2>3. recorded' \subseteq File
            BY <1>8, <1>a, <2>1 DEF Record
        <2>4. \A q \in Migrator :
                  next'[q] \in File => done'[q] <= Len(Script[next'[q]])
            BY <1>8, <1>a, FileFacts DEF Record, NextFile
        <2> QED
            BY <1>8, <1>a, <2>2, <2>3, <2>4 DEF Record
    <1>9. ASSUME NEW p \in Migrator, RecordConflict(p)
         PROVE  MigrateTypeOK'
        BY <1>9, <1>a, FileFacts DEF RecordConflict, End
    <1>10. ASSUME NEW p \in Migrator, Finish(p)
         PROVE  MigrateTypeOK'
        BY <1>10, <1>a, FileFacts DEF Finish, End
    <1>11. ASSUME NEW p \in Migrator, Collide(p)
         PROVE  MigrateTypeOK'
        BY <1>11, <1>a, FileFacts DEF Collide, End
    <1>12. ASSUME NEW p \in Migrator, Stop(p)
         PROVE  MigrateTypeOK'
        BY <1>12, <1>a, FileFacts DEF Stop, End
    <1>13. ASSUME NEW f \in DOMAIN Undo, UndoStart(f)
         PROVE  MigrateTypeOK'
        BY <1>13, <1>a, UndoFacts DEF UndoStart
    <1>14. ASSUME UndoDrop
         PROVE  MigrateTypeOK'
        <2>1. undo \in DOMAIN Undo /\ dropped + 1 \in 1 .. Len(Undo[undo])
            BY <1>a, <1>14, UndoFacts DEF UndoDrop
        <2>2. made' \in [Object -> File \cup {0}]
            BY <1>a, <1>14, <2>1, UndoFacts DEF UndoDrop
        <2> QED
            BY <1>a, <1>14, <2>2 DEF UndoDrop
    <1>15. ASSUME UndoRecord
         PROVE  MigrateTypeOK'
        BY <1>15, <1>a, UndoFacts DEF UndoRecord
    <1>16. ASSUME UndoStop
         PROVE  MigrateTypeOK'
        BY <1>16, <1>a, UndoFacts DEF UndoStop
    <1>17. CASE UNCHANGED vars
        BY <1>17, <1>a DEF vars
    <1> QED
        BY <1>a, <1>1, <1>2, <1>3, <1>4, <1>5, <1>6, <1>7, <1>8, <1>9, <1>10,
        <1>11, <1>12, <1>13, <1>14, <1>15, <1>16, <1>17 DEF Next, Step, Operator

\* A migrator goes past a file only when the file is recorded.
LEMMA BehindStep ==
    ASSUME MigrateInv, [Next]_vars
    PROVE  Behind'
    <1>a. /\ MigrateTypeOK /\ Behind
          /\ recorded \cup undone \subseteq recorded' \cup undone'
        BY VersionsStay DEF MigrateInv
    <1> USE FileFacts DEF MigrateTypeOK, Behind, migrators
    <1>1. ASSUME NEW p \in Migrator, NEW t \in Tools, Start(p, t)
         PROVE  Behind'
        BY <1>1, <1>a DEF Start, Go
    <1>2. ASSUME NEW p \in Migrator, Bootstrap(p)
         PROVE  Behind'
        BY <1>2, <1>a DEF Bootstrap, Go
    <1>3. ASSUME NEW p \in Migrator, AlreadyApplied(p)
         PROVE  Behind'
        BY <1>3, <1>a DEF AlreadyApplied, NextFile
    <1>4. ASSUME NEW p \in Migrator, NotRecorded(p)
         PROVE  Behind'
        BY <1>4, <1>a DEF NotRecorded, Go
    <1>5. ASSUME NEW p \in Migrator, Exec(p)
         PROVE  Behind'
        BY <1>5, <1>a DEF Exec, Go
    <1>6. ASSUME NEW p \in Migrator, ExecStatement(p)
         PROVE  Behind'
        BY <1>6, <1>a DEF ExecStatement
    <1>7. ASSUME NEW p \in Migrator, ExecEnd(p)
         PROVE  Behind'
        BY <1>7, <1>a DEF ExecEnd, Go
    <1>8. ASSUME NEW p \in Migrator, Record(p)
         PROVE  Behind'
        BY <1>8, <1>a DEF Record, Go, NextFile
    <1>9. ASSUME NEW p \in Migrator, RecordConflict(p)
         PROVE  Behind'
        BY <1>9, <1>a DEF RecordConflict, End
    <1>10. ASSUME NEW p \in Migrator, Finish(p)
         PROVE  Behind'
        BY <1>10, <1>a DEF Finish, End
    <1>11. ASSUME NEW p \in Migrator, Collide(p)
         PROVE  Behind'
        BY <1>11, <1>a DEF Collide, End
    <1>12. ASSUME NEW p \in Migrator, Stop(p)
         PROVE  Behind'
        BY <1>12, <1>a DEF Stop, End
    <1>13. ASSUME NEW f \in DOMAIN Undo, UndoStart(f)
         PROVE  Behind'
        BY <1>13, <1>a DEF UndoStart
    <1>14. ASSUME UndoDrop
         PROVE  Behind'
        BY <1>14, <1>a DEF UndoDrop
    <1>15. ASSUME UndoRecord
         PROVE  Behind'
        BY <1>15, <1>a DEF UndoRecord
    <1>16. ASSUME UndoStop
         PROVE  Behind'
        BY <1>16, <1>a DEF UndoStop
    <1>17. CASE UNCHANGED vars
        BY <1>17, <1>a DEF vars
    <1> QED
        BY <1>a, <1>1, <1>2, <1>3, <1>4, <1>5, <1>6, <1>7, <1>8, <1>9, <1>10,
        <1>11, <1>12, <1>13, <1>14, <1>15, <1>16, <1>17 DEF Next, Step, Operator

\* A statement counts as executed when it is, and its object stays.
LEMMA ExecutedStep ==
    ASSUME MigrateInv, [Next]_vars
    PROVE  Executed'
    <1>a. /\ MigrateTypeOK /\ Behind /\ Executed /\ Crossings
          /\ \A f \in File \ {undo} : \A i \in DOMAIN Script[f] :
                 made[Script[f][i]] # 0 => made'[Script[f][i]] # 0
        BY MadeStays DEF MigrateInv
    <1>b. \A p \in Migrator :
              at[p] \in {"exec", "record"} /\ next[p] \notin crossed =>
                  next[p] \in File \ {undo}
        BY <1>a, FileFacts DEF Behind, Crossings, AtFile, MigrateTypeOK
    <1> USE FileFacts DEF MigrateTypeOK, Executed, migrators, rollback, history
    <1>1. ASSUME NEW p \in Migrator, NEW t \in Tools, Start(p, t)
         PROVE  Executed'
        BY <1>1, <1>a, <1>b DEF Start, Go
    <1>2. ASSUME NEW p \in Migrator, Bootstrap(p)
         PROVE  Executed'
        BY <1>2, <1>a, <1>b DEF Bootstrap, Go
    <1>3. ASSUME NEW p \in Migrator, AlreadyApplied(p)
         PROVE  Executed'
        BY <1>3, <1>a, <1>b DEF AlreadyApplied, NextFile
    <1>4. ASSUME NEW p \in Migrator, NotRecorded(p)
         PROVE  Executed'
        BY <1>4, <1>a, <1>b DEF NotRecorded, Go
    <1>5. ASSUME NEW p \in Migrator, Exec(p)
         PROVE  Executed'
        <2>1. next[p] \in File /\ next' = next /\ done' = done /\ crossed' = crossed
            BY <1>5, <1>a DEF Exec, Go, Behind, history
        <2>2. \A i \in DOMAIN Script[next[p]] : made'[Script[next[p]][i]] # 0
            BY <1>5, <2>1 DEF Exec
        <2> QED
            BY <1>5, <1>a, <1>b, <2>1, <2>2 DEF Exec, Go
    <1>6. ASSUME NEW p \in Migrator, ExecStatement(p)
         PROVE  Executed'
        <2>1. /\ next[p] \in File /\ next' = next /\ at' = at /\ crossed' = crossed
              /\ done' = [done EXCEPT ![p] = done[p] + 1] /\ at[p] = "exec"
            BY <1>6, <1>a DEF ExecStatement, Behind, history
        <2>2. made'[Script[next[p]][done[p] + 1]] # 0
            BY <1>6, <1>a, <2>1 DEF ExecStatement
        <2>3. next[p] \notin crossed => \A i \in DOMAIN Script[next[p]] :
                  i <= done[p] + 1 => made'[Script[next[p]][i]] # 0
            BY <1>a, <1>b, <2>1, <2>2
        <2> QED
            BY <1>a, <1>b, <2>1, <2>3
    <1>7. ASSUME NEW p \in Migrator, ExecEnd(p)
         PROVE  Executed'
        BY <1>7, <1>a, <1>b DEF ExecEnd, Go
    <1>8. ASSUME NEW p \in Migrator, Record(p)
         PROVE  Executed'
        BY <1>8, <1>a, <1>b DEF Record, Go, NextFile
    <1>9. ASSUME NEW p \in Migrator, RecordConflict(p)
         PROVE  Executed'
        BY <1>9, <1>a, <1>b DEF RecordConflict, End
    <1>10. ASSUME NEW p \in Migrator, Finish(p)
         PROVE  Executed'
        BY <1>10, <1>a, <1>b DEF Finish, End
    <1>11. ASSUME NEW p \in Migrator, Collide(p)
         PROVE  Executed'
        BY <1>11, <1>a, <1>b DEF Collide, End
    <1>12. ASSUME NEW p \in Migrator, Stop(p)
         PROVE  Executed'
        BY <1>12, <1>a, <1>b DEF Stop, End
    <1>13. ASSUME NEW f \in DOMAIN Undo, UndoStart(f)
         PROVE  Executed'
        <2>1. at' = at /\ next' = next /\ done' = done /\ made' = made
            BY <1>13 DEF UndoStart
        <2>2. ASSUME NEW q \in Migrator, at[q] \in {"exec", "record"}, next[q] \notin crossed'
              PROVE  next[q] \notin crossed
            BY <1>13, <2>2 DEF UndoStart, AtFile
        <2> QED
            BY <1>a, <2>1, <2>2
    <1>14. ASSUME UndoDrop
         PROVE  Executed'
        BY <1>14, <1>a, <1>b DEF UndoDrop
    <1>15. ASSUME UndoRecord
         PROVE  Executed'
        BY <1>15, <1>a, <1>b DEF UndoRecord
    <1>16. ASSUME UndoStop
         PROVE  Executed'
        BY <1>16, <1>a, <1>b DEF UndoStop
    <1>17. CASE UNCHANGED vars
        BY <1>17, <1>a DEF vars
    <1> QED
        BY <1>a, <1>1, <1>2, <1>3, <1>4, <1>5, <1>6, <1>7, <1>8, <1>9, <1>10,
        <1>11, <1>12, <1>13, <1>14, <1>15, <1>16, <1>17 DEF Next, Step, Operator

\* Only an unrecorded file is executed, and a rollback sees who is at it.
LEMMA CrossingsStep ==
    ASSUME MigrateInv, [Next]_vars
    PROVE  Crossings'
    <1>a. MigrateTypeOK /\ Behind /\ Crossings
        BY DEF MigrateInv
    <1> USE FileFacts, UndoFacts DEF MigrateTypeOK, Crossings, AtFile, migrators, rollback, history
    <1>1. ASSUME NEW p \in Migrator, NEW t \in Tools, Start(p, t)
         PROVE  Crossings'
        BY <1>1, <1>a DEF Start, Go
    <1>2. ASSUME NEW p \in Migrator, Bootstrap(p)
         PROVE  Crossings'
        BY <1>2, <1>a DEF Bootstrap, Go
    <1>3. ASSUME NEW p \in Migrator, AlreadyApplied(p)
         PROVE  Crossings'
        BY <1>3, <1>a DEF AlreadyApplied, NextFile
    <1>4. ASSUME NEW p \in Migrator, NotRecorded(p)
         PROVE  Crossings'
        BY <1>4, <1>a DEF NotRecorded, Go
    <1>5. ASSUME NEW p \in Migrator, Exec(p)
         PROVE  Crossings'
        BY <1>5, <1>a DEF Exec, Go
    <1>6. ASSUME NEW p \in Migrator, ExecStatement(p)
         PROVE  Crossings'
        BY <1>6, <1>a DEF ExecStatement
    <1>7. ASSUME NEW p \in Migrator, ExecEnd(p)
         PROVE  Crossings'
        BY <1>7, <1>a DEF ExecEnd, Go
    <1>8. ASSUME NEW p \in Migrator, Record(p)
         PROVE  Crossings'
        BY <1>8, <1>a DEF Record, Go, NextFile
    <1>9. ASSUME NEW p \in Migrator, RecordConflict(p)
         PROVE  Crossings'
        BY <1>9, <1>a DEF RecordConflict, End
    <1>10. ASSUME NEW p \in Migrator, Finish(p)
         PROVE  Crossings'
        BY <1>10, <1>a DEF Finish, End
    <1>11. ASSUME NEW p \in Migrator, Collide(p)
         PROVE  Crossings'
        BY <1>11, <1>a DEF Collide, End
    <1>12. ASSUME NEW p \in Migrator, Stop(p)
         PROVE  Crossings'
        BY <1>12, <1>a DEF Stop, End
    <1>13. ASSUME NEW f \in DOMAIN Undo, UndoStart(f)
         PROVE  Crossings'
        BY <1>13, <1>a DEF UndoStart
    <1>14. ASSUME UndoDrop
         PROVE  Crossings'
        BY <1>14, <1>a DEF UndoDrop
    <1>15. ASSUME UndoRecord
         PROVE  Crossings'
        BY <1>15, <1>a DEF UndoRecord
    <1>16. ASSUME UndoStop
         PROVE  Crossings'
        BY <1>16, <1>a DEF UndoStop
    <1>17. CASE UNCHANGED vars
        BY <1>17, <1>a DEF vars
    <1> QED
        BY <1>a, <1>1, <1>2, <1>3, <1>4, <1>5, <1>6, <1>7, <1>8, <1>9, <1>10,
        <1>11, <1>12, <1>13, <1>14, <1>15, <1>16, <1>17 DEF Next, Step, Operator

\* Who records a file has gone past the files before it.
LEMMA InOrderStep ==
    ASSUME MigrateInv, [Next]_vars
    PROVE  RecordedInOrder'
    <1>a. MigrateTypeOK /\ Behind /\ RecordedInOrder
        BY DEF MigrateInv
    <1> USE FileFacts DEF MigrateTypeOK, RecordedInOrder, history
    <1>1. ASSUME NEW p \in Migrator, NEW t \in Tools, Start(p, t)
         PROVE  RecordedInOrder'
        BY <1>1, <1>a DEF Start, Go
    <1>2. ASSUME NEW p \in Migrator, Bootstrap(p)
         PROVE  RecordedInOrder'
        BY <1>2, <1>a DEF Bootstrap, Go
    <1>3. ASSUME NEW p \in Migrator, AlreadyApplied(p)
         PROVE  RecordedInOrder'
        BY <1>3, <1>a DEF AlreadyApplied, NextFile
    <1>4. ASSUME NEW p \in Migrator, NotRecorded(p)
         PROVE  RecordedInOrder'
        BY <1>4, <1>a DEF NotRecorded, Go
    <1>5. ASSUME NEW p \in Migrator, Exec(p)
         PROVE  RecordedInOrder'
        BY <1>5, <1>a DEF Exec, Go
    <1>6. ASSUME NEW p \in Migrator, ExecStatement(p)
         PROVE  RecordedInOrder'
        BY <1>6, <1>a DEF ExecStatement
    <1>7. ASSUME NEW p \in Migrator, ExecEnd(p)
         PROVE  RecordedInOrder'
        BY <1>7, <1>a DEF ExecEnd, Go
    <1>8. ASSUME NEW p \in Migrator, Record(p)
         PROVE  RecordedInOrder'
        BY <1>8, <1>a DEF Record, Go, Behind
    <1>9. ASSUME NEW p \in Migrator, RecordConflict(p)
         PROVE  RecordedInOrder'
        BY <1>9, <1>a DEF RecordConflict, End
    <1>10. ASSUME NEW p \in Migrator, Finish(p)
         PROVE  RecordedInOrder'
        BY <1>10, <1>a DEF Finish, End
    <1>11. ASSUME NEW p \in Migrator, Collide(p)
         PROVE  RecordedInOrder'
        BY <1>11, <1>a DEF Collide, End
    <1>12. ASSUME NEW p \in Migrator, Stop(p)
         PROVE  RecordedInOrder'
        BY <1>12, <1>a DEF Stop, End
    <1>13. ASSUME NEW f \in DOMAIN Undo, UndoStart(f)
         PROVE  RecordedInOrder'
        BY <1>13, <1>a DEF UndoStart
    <1>14. ASSUME UndoDrop
         PROVE  RecordedInOrder'
        BY <1>14, <1>a DEF UndoDrop
    <1>15. ASSUME UndoRecord
         PROVE  RecordedInOrder'
        BY <1>15, <1>a DEF UndoRecord
    <1>16. ASSUME UndoStop
         PROVE  RecordedInOrder'
        BY <1>16, <1>a DEF UndoStop
    <1>17. CASE UNCHANGED vars
        BY <1>17, <1>a DEF vars
    <1> QED
        BY <1>a, <1>1, <1>2, <1>3, <1>4, <1>5, <1>6, <1>7, <1>8, <1>9, <1>10,
        <1>11, <1>12, <1>13, <1>14, <1>15, <1>16, <1>17 DEF Next, Step, Operator

\* Who records a file has executed all of it.
LEMMA IsMadeStep ==
    ASSUME MigrateInv, [Next]_vars
    PROVE  RecordedIsMade'
    <1>a. /\ MigrateTypeOK /\ Behind /\ Executed /\ RecordedIsMade
          /\ \A f \in File \ {undo} : \A i \in DOMAIN Script[f] :
                 made[Script[f][i]] # 0 => made'[Script[f][i]] # 0
        BY MadeStays DEF MigrateInv
    <1> USE FileFacts, UndoFacts DEF MigrateTypeOK, RecordedIsMade, rollback, history
    <1>1. ASSUME NEW p \in Migrator, NEW t \in Tools, Start(p, t)
         PROVE  RecordedIsMade'
        BY <1>1, <1>a DEF Start, Go
    <1>2. ASSUME NEW p \in Migrator, Bootstrap(p)
         PROVE  RecordedIsMade'
        BY <1>2, <1>a DEF Bootstrap, Go
    <1>3. ASSUME NEW p \in Migrator, AlreadyApplied(p)
         PROVE  RecordedIsMade'
        BY <1>3, <1>a DEF AlreadyApplied, NextFile
    <1>4. ASSUME NEW p \in Migrator, NotRecorded(p)
         PROVE  RecordedIsMade'
        BY <1>4, <1>a DEF NotRecorded, Go
    <1>5. ASSUME NEW p \in Migrator, Exec(p)
         PROVE  RecordedIsMade'
        BY <1>5, <1>a DEF Exec, Go
    <1>6. ASSUME NEW p \in Migrator, ExecStatement(p)
         PROVE  RecordedIsMade'
        BY <1>6, <1>a DEF ExecStatement
    <1>7. ASSUME NEW p \in Migrator, ExecEnd(p)
         PROVE  RecordedIsMade'
        BY <1>7, <1>a DEF ExecEnd, Go
    <1>8. ASSUME NEW p \in Migrator, Record(p)
         PROVE  RecordedIsMade'
        <2>1. /\ next[p] \in File /\ recorded' = recorded \cup {next[p]}
              /\ made' = made /\ undo' = undo /\ broken' = broken /\ crossed' = crossed
              /\ next[p] \notin crossed =>
                     \A i \in DOMAIN Script[next[p]] : made[Script[next[p]][i]] # 0
            BY <1>8, <1>a DEF Record, Go, Behind, Executed
        <2> QED
            BY <1>a, <2>1
    <1>9. ASSUME NEW p \in Migrator, RecordConflict(p)
         PROVE  RecordedIsMade'
        BY <1>9, <1>a DEF RecordConflict, End
    <1>10. ASSUME NEW p \in Migrator, Finish(p)
         PROVE  RecordedIsMade'
        BY <1>10, <1>a DEF Finish, End
    <1>11. ASSUME NEW p \in Migrator, Collide(p)
         PROVE  RecordedIsMade'
        BY <1>11, <1>a DEF Collide, End
    <1>12. ASSUME NEW p \in Migrator, Stop(p)
         PROVE  RecordedIsMade'
        BY <1>12, <1>a DEF Stop, End
    <1>13. ASSUME NEW f \in DOMAIN Undo, UndoStart(f)
         PROVE  RecordedIsMade'
        BY <1>13, <1>a DEF UndoStart
    <1>14. ASSUME UndoDrop
         PROVE  RecordedIsMade'
        BY <1>14, <1>a DEF UndoDrop
    <1>15. ASSUME UndoRecord
         PROVE  RecordedIsMade'
        BY <1>15, <1>a DEF UndoRecord
    <1>16. ASSUME UndoStop
         PROVE  RecordedIsMade'
        BY <1>16, <1>a DEF UndoStop
    <1>17. CASE UNCHANGED vars
        BY <1>17, <1>a DEF vars
    <1> QED
        BY <1>a, <1>1, <1>2, <1>3, <1>4, <1>5, <1>6, <1>7, <1>8, <1>9, <1>10,
        <1>11, <1>12, <1>13, <1>14, <1>15, <1>16, <1>17 DEF Next, Step, Operator

\* An object is made by a file that makes it.
LEMMA DefinedStep ==
    ASSUME MigrateInv, [Next]_vars
    PROVE  Defined'
    <1>a. /\ MigrateTypeOK /\ Behind /\ Defined
        BY DEF MigrateInv
    <1> USE FileFacts DEF MigrateTypeOK, Defined
    <1>1. ASSUME NEW p \in Migrator, NEW t \in Tools, Start(p, t)
         PROVE  Defined'
        BY <1>1, <1>a DEF Start, Go
    <1>2. ASSUME NEW p \in Migrator, Bootstrap(p)
         PROVE  Defined'
        BY <1>2, <1>a DEF Bootstrap, Go
    <1>3. ASSUME NEW p \in Migrator, AlreadyApplied(p)
         PROVE  Defined'
        BY <1>3, <1>a DEF AlreadyApplied, NextFile
    <1>4. ASSUME NEW p \in Migrator, NotRecorded(p)
         PROVE  Defined'
        BY <1>4, <1>a DEF NotRecorded, Go
    <1>5. ASSUME NEW p \in Migrator, Exec(p)
         PROVE  Defined'
        <2>1. next[p] \in File /\ \A o \in Object : made[o] # 0 => o \in ToSet(Script[made[o]])
            BY <1>5, <1>a DEF Exec, Go, Behind
        <2> QED
            BY <1>5, <2>1 DEF Exec
    <1>6. ASSUME NEW p \in Migrator, ExecStatement(p)
         PROVE  Defined'
        <2>1. next[p] \in File /\ done[p] + 1 \in DOMAIN Script[next[p]]
            BY <1>6, <1>a DEF ExecStatement, Behind
        <2>2. Script[next[p]][done[p] + 1] \in ToSet(Script[next[p]])
            BY <2>1
        <2> QED
            BY <1>6, <1>a, <2>1, <2>2 DEF ExecStatement
    <1>7. ASSUME NEW p \in Migrator, ExecEnd(p)
         PROVE  Defined'
        BY <1>7, <1>a DEF ExecEnd, Go
    <1>8. ASSUME NEW p \in Migrator, Record(p)
         PROVE  Defined'
        BY <1>8, <1>a DEF Record, Go, NextFile
    <1>9. ASSUME NEW p \in Migrator, RecordConflict(p)
         PROVE  Defined'
        BY <1>9, <1>a DEF RecordConflict, End
    <1>10. ASSUME NEW p \in Migrator, Finish(p)
         PROVE  Defined'
        BY <1>10, <1>a DEF Finish, End
    <1>11. ASSUME NEW p \in Migrator, Collide(p)
         PROVE  Defined'
        BY <1>11, <1>a DEF Collide, End
    <1>12. ASSUME NEW p \in Migrator, Stop(p)
         PROVE  Defined'
        BY <1>12, <1>a DEF Stop, End
    <1>13. ASSUME NEW f \in DOMAIN Undo, UndoStart(f)
         PROVE  Defined'
        BY <1>13, <1>a DEF UndoStart
    <1>14. ASSUME UndoDrop
         PROVE  Defined'
        BY <1>14, <1>a DEF UndoDrop
    <1>15. ASSUME UndoRecord
         PROVE  Defined'
        BY <1>15, <1>a DEF UndoRecord
    <1>16. ASSUME UndoStop
         PROVE  Defined'
        BY <1>16, <1>a DEF UndoStop
    <1>17. CASE UNCHANGED vars
        BY <1>17, <1>a DEF vars
    <1> QED
        BY <1>a, <1>1, <1>2, <1>3, <1>4, <1>5, <1>6, <1>7, <1>8, <1>9, <1>10,
        <1>11, <1>12, <1>13, <1>14, <1>15, <1>16, <1>17 DEF Next, Step, Operator

\* Files that take their turn put nothing back.
LEMMA InTurnStep ==
    ASSUME MigrateInv, [Next]_vars
    PROVE  InTurn'
    <1>a. /\ MigrateTypeOK /\ Behind /\ InTurn
          /\ \A p \in Migrator : at[p] \in {"idle", "boot", "check"} => done[p] = 0
        BY DEF MigrateInv, Executed
    <1>b. "overlap" \in mishaps => "overlap" \in mishaps'
        BY DEF Next, Step, Operator, vars, history, Start, Bootstrap, AlreadyApplied, NotRecorded,
               Exec, ExecStatement, ExecEnd, Record, RecordConflict, Finish, Collide, Stop,
               UndoStart, UndoDrop, UndoRecord, UndoStop
    <1> SUFFICES ASSUME "overlap" \notin mishaps'
                 PROVE  InTurn'
        BY DEF InTurn
    <1>c. /\ "overlap" \notin mishaps
          /\ \A p, q \in Busy : p = q
          /\ \A p \in Migrator : at[p] \in {"exec", "record"} => next[p] \notin recorded
          /\ \A f \in recorded \ DOMAIN Undo : \A i \in DOMAIN Script[f] :
                 made[Script[f][i]] >= f
          /\ \A p \in Migrator :
                 at[p] \in {"exec", "record"} /\ next[p] \notin DOMAIN Undo =>
                     \A i \in DOMAIN Script[next[p]] :
                         i <= done[p] \/ at[p] = "record" => made[Script[next[p]][i]] >= next[p]
        BY <1>a, <1>b DEF InTurn
    <1>d. \A f \in recorded \ DOMAIN Undo : \A i \in DOMAIN Script[f] :
              made'[Script[f][i]] >= f
        BY <1>a, <1>c, MadeRises DEF MigrateTypeOK
    <1>e. ASSUME NEW p \in Migrator, at[p] \in {"exec", "record"}, next[p] \notin DOMAIN Undo,
                 NEW i \in DOMAIN Script[next[p]], i <= done[p] \/ at[p] = "record"
          PROVE  made'[Script[next[p]][i]] >= next[p]
        <2>1. next[p] \in File
            BY <1>a, <1>e DEF Behind
        <2> QED
            BY <1>c, <1>e, <2>1, MadeRises
    <1> USE FileFacts DEF MigrateTypeOK, InTurn, Busy, migrators, rollback, history
    <1>1. ASSUME NEW p \in Migrator, NEW t \in Tools, Start(p, t)
         PROVE  InTurn'
        BY <1>1, <1>a, <1>c, <1>d, <1>e DEF Start, Go
    <1>2. ASSUME NEW p \in Migrator, Bootstrap(p)
         PROVE  InTurn'
        BY <1>2, <1>a, <1>c, <1>d, <1>e DEF Bootstrap, Go
    <1>3. ASSUME NEW p \in Migrator, AlreadyApplied(p)
         PROVE  InTurn'
        BY <1>3, <1>a, <1>c, <1>d, <1>e DEF AlreadyApplied, NextFile
    <1>4. ASSUME NEW p \in Migrator, NotRecorded(p)
         PROVE  InTurn'
        BY <1>4, <1>a, <1>c, <1>d, <1>e DEF NotRecorded, Go
    <1>5. ASSUME NEW p \in Migrator, Exec(p)
         PROVE  InTurn'
        <2>1. /\ next[p] \in File /\ at[p] = "exec" /\ at' = [at EXCEPT ![p] = "record"]
              /\ UNCHANGED <<recorded, next, done>>
            BY <1>5, <1>a DEF Exec, Go, Behind
        <2>2. \A i \in DOMAIN Script[next[p]] : made'[Script[next[p]][i]] = next[p]
            BY <1>5, <2>1 DEF Exec
        <2>3. \A q \in Migrator : q # p => at[q] = "idle"
            BY <1>c, <2>1 DEF Busy
        <2> QED
            BY <1>a, <1>c, <1>d, <2>1, <2>2, <2>3
    <1>6. ASSUME NEW p \in Migrator, ExecStatement(p)
         PROVE  InTurn'
        <2>1. /\ next[p] \in File /\ at[p] = "exec"
              /\ UNCHANGED <<recorded, at, next>> /\ done' = [done EXCEPT ![p] = done[p] + 1]
            BY <1>6, <1>a DEF ExecStatement, Behind
        <2>2. made'[Script[next[p]][done[p] + 1]] = next[p]
            BY <1>6, <1>a, <2>1 DEF ExecStatement
        <2>3. \A q \in Migrator : q # p => at[q] = "idle"
            BY <1>c, <2>1 DEF Busy
        <2>4. next[p] \notin DOMAIN Undo => \A i \in DOMAIN Script[next[p]] :
                  i <= done[p] + 1 => made'[Script[next[p]][i]] >= next[p]
            BY <1>a, <1>e, <2>1, <2>2
        <2> QED
            BY <1>a, <1>c, <1>d, <2>1, <2>3, <2>4
    <1>7. ASSUME NEW p \in Migrator, ExecEnd(p)
         PROVE  InTurn'
        BY <1>7, <1>a, <1>c, <1>d, <1>e DEF ExecEnd, Go
    <1>8. ASSUME NEW p \in Migrator, Record(p)
         PROVE  InTurn'
        BY <1>8, <1>a, <1>c, <1>d, <1>e DEF Record, Go, NextFile
    <1>9. ASSUME NEW p \in Migrator, RecordConflict(p)
         PROVE  InTurn'
        BY <1>9, <1>a, <1>c, <1>d, <1>e DEF RecordConflict, End
    <1>10. ASSUME NEW p \in Migrator, Finish(p)
         PROVE  InTurn'
        BY <1>10, <1>a, <1>c, <1>d, <1>e DEF Finish, End
    <1>11. ASSUME NEW p \in Migrator, Collide(p)
         PROVE  InTurn'
        BY <1>11, <1>a, <1>c, <1>d, <1>e DEF Collide, End
    <1>12. ASSUME NEW p \in Migrator, Stop(p)
         PROVE  InTurn'
        BY <1>12, <1>a, <1>c, <1>d, <1>e DEF Stop, End
    <1>13. ASSUME NEW f \in DOMAIN Undo, UndoStart(f)
         PROVE  InTurn'
        BY <1>13, <1>a, <1>c, <1>d, <1>e DEF UndoStart
    <1>14. ASSUME UndoDrop
         PROVE  InTurn'
        BY <1>14, <1>a, <1>c, <1>d, <1>e DEF UndoDrop
    <1>15. ASSUME UndoRecord
         PROVE  InTurn'
        BY <1>15, <1>a, <1>c, <1>d, <1>e DEF UndoRecord
    <1>16. ASSUME UndoStop
         PROVE  InTurn'
        BY <1>16, <1>a, <1>c, <1>d, <1>e DEF UndoStop
    <1>17. CASE UNCHANGED vars
        BY <1>17, <1>a DEF vars
    <1> QED
        BY <1>a, <1>1, <1>2, <1>3, <1>4, <1>5, <1>6, <1>7, <1>8, <1>9, <1>10,
        <1>11, <1>12, <1>13, <1>14, <1>15, <1>16, <1>17 DEF Next, Step, Operator

\* A database without migrations satisfies the invariant.
LEMMA MigrateInit == Init => MigrateInv
    <1> SUFFICES ASSUME Init PROVE MigrateInv
        OBVIOUS
    <1> USE FileFacts DEF Init
    <1>1. MigrateTypeOK
        BY DEF MigrateTypeOK, At
    <1>2. Behind /\ Executed /\ Crossings /\ Defined /\ InTurn
        BY DEF Behind, Executed, Crossings, Defined, InTurn, Busy
    <1>3. RecordedIsMade /\ RecordedInOrder
        BY DEF RecordedIsMade, RecordedInOrder
    <1> QED
        BY <1>1, <1>2, <1>3 DEF MigrateInv

\* The invariant of the migrators: whatever overlaps, collides, dies and is
\* rolled back.
THEOREM MigrateCorrect == Spec => []MigrateInv
    <1>1. MigrateInv /\ [Next]_vars => MigrateInv'
        BY TypeStep, BehindStep, ExecutedStep, CrossingsStep, IsMadeStep, InOrderStep,
           DefinedStep, InTurnStep
           DEF MigrateInv
    <1> QED
        BY <1>1, MigrateInit, PTL DEF Spec

\* The state of the migrators and of the schema is well typed.
THEOREM MigrateTyped == Spec => []MigrateTypeOK
    <1>1. MigrateInv => MigrateTypeOK
        BY DEF MigrateInv
    <1> QED
        BY <1>1, MigrateCorrect, PTL

\* Files are recorded in their order by any number of overlapping and dying
\* migrators, but for those that were rolled back (the loop of Apply,
\* migrate.go:47-72).
THEOREM VersionsInOrder == Spec => []RecordedInOrder
    <1>1. MigrateInv => RecordedInOrder
        BY DEF MigrateInv
    <1> QED
        BY <1>1, MigrateCorrect, PTL

\* A recorded file has been executed to its end, whoever dies where, but for
\* rollbacks of that file that broke off or crossed an execution of it (Exec
\* before the insert, migrate.go:63-70, apply.sh:34-36).
THEOREM RecordsAreTrue == Spec => []RecordedIsMade
    <1>1. MigrateInv => RecordedIsMade
        BY DEF MigrateInv
    <1> QED
        BY <1>1, MigrateCorrect, PTL

\* Migrators that do not overlap leave every object as the last file wants it,
\* wherever they and the rollbacks stop (migrate.go:44-72, apply.sh:24-38).
THEOREM SchemaIsCurrent == Spec => []SerialSchemaCurrent
    <1>1. MigrateInv => SerialSchemaCurrent
        <2> SUFFICES ASSUME MigrateInv, "overlap" \notin mishaps, recorded = File, Quiet,
                            broken = {}, crossed = {}, NEW o \in Object
                     PROVE  made[o] = Latest(o)
            BY DEF SerialSchemaCurrent, SchemaCurrent
        <2>1. MigrateTypeOK /\ Defined /\ RecordedIsMade /\ undo = 0
            BY DEF MigrateInv, Quiet
        <2>2. PICK f \in File : o \in ToSet(Script[f])
            BY DEF Object
        <2>3. made[o] # 0
            <3>1. PICK i \in DOMAIN Script[f] : Script[f][i] = o
                BY <2>2 DEF ToSet
            <3>2. f \in recorded \ (broken \cup crossed \cup {undo})
                BY <2>1, FileFacts
            <3> QED
                BY <2>1, <3>1, <3>2 DEF RecordedIsMade
        <2>4. made[o] \in File /\ o \in ToSet(Script[made[o]])
            BY <2>1, <2>3 DEF MigrateTypeOK, Defined
        <2>5. ASSUME NEW g \in File, o \in ToSet(Script[g]) PROVE g <= made[o]
            <3>1. g \in Nat /\ made[o] \in Nat
                BY <2>4, FileFacts
            <3>2. CASE g \in DOMAIN Undo
                <4>1. g = made[o]
                    BY <2>4, <2>5, <3>2, UndoAssumption
                <4> QED
                    BY <3>1, <4>1
            <3>3. CASE g \notin DOMAIN Undo
                <4>1. PICK i \in DOMAIN Script[g] : Script[g][i] = o
                    BY <2>5 DEF ToSet
                <4>2. made[Script[g][i]] >= g
                    BY <3>3, <4>1 DEF MigrateInv, InTurn
                <4> QED
                    BY <3>1, <4>1, <4>2
            <3> QED
                BY <3>2, <3>3
        <2>6. \A h \in File : (/\ o \in ToSet(Script[h])
                               /\ \A g \in File : o \in ToSet(Script[g]) => g <= h) => h = made[o]
            BY <2>4, <2>5, FileFacts
        <2> QED
            BY <2>4, <2>5, <2>6 DEF Latest
    <1> QED
        BY <1>1, MigrateCorrect, PTL
============================================================================
