---------------------------- MODULE SpoolProofs ----------------------------
(***************************************************************************)
(* Proofs about the spool for any processes, lines, sizes, cap and limits. *)
(* SpoolInv is inductive: each action of Spool preserves it.  The other    *)
(* properties follow from it, and so does that the spool implements        *)
(* LossyQueue: Write is the only action that changes the file, and what it *)
(* writes is what Enqueue or Dequeue would leave there.                    *)
(***************************************************************************)
EXTENDS Spool, SequenceTheorems, FiniteSetTheorems, TLAPS

----------------------------------------------------------------------------
(***************************************************************************)
(* Suffixes of line sequences, and the size rule.                          *)
(***************************************************************************)

\* A suffix is a sequence of lines, as long and with the elements one expects.
LEMMA FromProperties ==
    ASSUME NEW s \in Seq(Line), NEW k \in 1 .. (Len(s) + 1)
    PROVE  /\ From(s, k) \in Seq(Line)
           /\ Len(From(s, k)) = Len(s) + 1 - k
           /\ \A i \in 1 .. (Len(s) + 1 - k) : From(s, k)[i] = s[k + i - 1]
    BY DEF From

\* The whole sequence is the suffix from position 1.
LEMMA FromFirst ==
    ASSUME NEW s \in Seq(Line)
    PROVE  From(s, 1) = s
    BY DEF From

\* Nothing is left past the end.
LEMMA FromEnd ==
    ASSUME NEW s \in Seq(Line)
    PROVE  From(s, Len(s) + 1) = <<>>
    BY DEF From

\* Dropping the head of a suffix gives the next suffix: one turn of the
\* loops of Append and Drain.
LEMMA FromTail ==
    ASSUME NEW s \in Seq(Line), NEW k \in 1 .. Len(s)
    PROVE  /\ From(s, k) # <<>>
           /\ Head(From(s, k)) = s[k]
           /\ Tail(From(s, k)) = From(s, k + 1)
    <1>1. Len(s) \in k .. Len(s)
        OBVIOUS
    <1>2. Head(From(s, k)) = s[k] /\ Tail(From(s, k)) = From(s, k + 1)
        BY <1>1, HeadTailOfSubSeq DEF From
    <1>3. Len(From(s, k)) # 0
        BY FromProperties
    <1> QED
        BY <1>2, <1>3

\* A suffix that is not empty does not start past the end.
LEMMA FromNonempty ==
    ASSUME NEW s \in Seq(Line), NEW k \in 1 .. (Len(s) + 1), From(s, k) # <<>>
    PROVE  k \in 1 .. Len(s)
    BY FromEnd

----------------------------------------------------------------------------

\* One line of a drain's copy is taken, from the n lines taken before.
LEMMA TakeLine ==
    ASSUME NEW s \in Seq(Line), NEW n \in Nat, NEW m,
           n <= Len(s), m = From(s, n + 1), m # <<>>
    PROVE  /\ n + 1 <= Len(s)
           /\ Head(m) = s[n + 1]
           /\ Tail(m) = From(s, n + 1 + 1)
    <1>1. Len(s) \in Nat
        OBVIOUS
    <1>2. n + 1 \in 1 .. (Len(s) + 1)
        BY <1>1
    <1>3. n + 1 \in 1 .. Len(s)
        BY <1>2, FromNonempty
    <1> QED
        BY <1>3, FromTail

\* The overflow loop can stop at one position only.
LEMMA CutUnique ==
    ASSUME NEW s \in Seq(Line), NEW k, NEW j, IsCut(s, k), IsCut(s, j)
    PROVE  k = j
    BY DEF IsCut

\* Newest is the suffix at which the overflow loop stops.
LEMMA NewestIsCut ==
    ASSUME NEW s \in Seq(Line), NEW k, IsCut(s, k)
    PROVE  Newest(s) = From(s, k)
    <1> DEFINE c == CHOOSE i \in 1 .. Len(s) : IsCut(s, i)
    <1>1. k \in 1 .. Len(s)
        BY DEF IsCut
    <1>2. c \in 1 .. Len(s) /\ IsCut(s, c)
        BY <1>1
    <1>3. c = k
        BY <1>2, CutUnique
    <1> QED
        BY <1>3 DEF Newest

\* The overflow loop starts with the file and the new line ...
LEMMA TrimStart ==
    ASSUME NEW s \in Seq(Line), NEW l \in Line
    PROVE  /\ Append(s, l) \in Seq(Line)
           /\ PartlyTrimmed(Append(s, l), Append(s, l))
    <1>1. Append(s, l) \in Seq(Line) /\ Len(Append(s, l)) = Len(s) + 1 /\ Len(s) \in Nat
        BY AppendProperties
    <1>2. 1 \in 1 .. Len(Append(s, l))
        BY <1>1
    <1>3. Append(s, l) = From(Append(s, l), 1)
        BY <1>1, FromFirst, Zenon
    <1> QED
        BY <1>1, <1>2, <1>3 DEF PartlyTrimmed

\* ... drops the oldest line as long as the rest overflows ...
LEMMA TrimTurn ==
    ASSUME NEW s \in Seq(Line), NEW m, PartlyTrimmed(s, m), Overflows(m)
    PROVE  PartlyTrimmed(s, Tail(m))
    <1>1. PICK k \in 1 .. Len(s) :
             m = From(s, k) /\ \A j \in 1 .. (k - 1) : Overflows(From(s, j))
        BY DEF PartlyTrimmed
    <1>2. Len(From(s, k)) > 1
        BY <1>1 DEF Overflows
    <1>3. Len(From(s, k)) = Len(s) + 1 - k /\ Len(s) \in Nat
        BY FromProperties
    <1>4. k + 1 \in 1 .. Len(s)
        BY <1>2, <1>3
    <1>5. Tail(m) = From(s, k + 1)
        BY <1>1, FromTail
    <1>6. \A j \in 1 .. (k + 1 - 1) : Overflows(From(s, j))
        BY <1>1
    <1> QED
        BY <1>4, <1>5, <1>6 DEF PartlyTrimmed

\* ... and has left the newest lines when it stops.
LEMMA TrimEnd ==
    ASSUME NEW s \in Seq(Line), NEW m, PartlyTrimmed(s, m), ~ Overflows(m)
    PROVE  m = Newest(s)
    <1>1. PICK k \in 1 .. Len(s) :
             m = From(s, k) /\ \A j \in 1 .. (k - 1) : Overflows(From(s, j))
        BY DEF PartlyTrimmed
    <1>2. IsCut(s, k)
        BY <1>1 DEF IsCut
    <1> QED
        BY <1>1, <1>2, NewestIsCut

----------------------------------------------------------------------------

\* The bytes of a sequence of lines are finitely many.
LEMMA BytesFinite ==
    ASSUME NEW s \in Seq(Line)
    PROVE  IsFiniteSet(Bytes(s)) /\ TotalBytes(s) \in Nat
    <1> DEFINE part == [i \in 1 .. Len(s) |-> {i} \X (1 .. Size[s[i]])]
               parts == {part[i] : i \in 1 .. Len(s)}
    <1>1. DOMAIN s = 1 .. Len(s)
        OBVIOUS
    <1>2. IsFiniteSet(parts)
        <2>1. IsFiniteSet(1 .. Len(s))
            BY FS_Interval
        <2>2. part \in Surjection(1 .. Len(s), parts)
            BY DEF Surjection
        <2> QED
            BY <2>1, <2>2, FS_Surjection
    <1>3. \A P \in parts : IsFiniteSet(P)
        <2> SUFFICES ASSUME NEW i \in 1 .. Len(s)
                     PROVE  IsFiniteSet({i} \X (1 .. Size[s[i]]))
            OBVIOUS
        <2>1. Size[s[i]] \in Nat
            BY SizeAssumption, <1>1
        <2>2. IsFiniteSet({i}) /\ IsFiniteSet(1 .. Size[s[i]])
            <3>1. IsFiniteSet({i})
                BY FS_Singleton
            <3>2. 0 \in Int /\ 1 \in Int /\ Size[s[i]] \in Int
                BY <2>1
            <3>3. IsFiniteSet(1 .. Size[s[i]])
                BY <3>2, FS_Interval
            <3> QED
                BY <3>1, <3>3
        <2> QED
            BY <2>2, FS_Product
    <1>4. Bytes(s) = UNION parts
        BY <1>1 DEF Bytes
    <1>5. IsFiniteSet(Bytes(s))
        BY <1>2, <1>3, <1>4, FS_UNION
    <1> QED
        BY <1>5, FS_CardinalityType DEF TotalBytes

\* A byte of a sequence of lines is one of one of its lines.
LEMMA ByteOfLine ==
    ASSUME NEW s \in Seq(Line), NEW b
    PROVE  b \in Bytes(s) <=>
               \E i \in DOMAIN s : \E n \in 1 .. Size[s[i]] : b = <<i, n>>
    <1>1. b \in Bytes(s) <=> \E i \in DOMAIN s : b \in {i} \X (1 .. Size[s[i]])
        BY DEF Bytes
    <1>2. \A i \in DOMAIN s :
             b \in {i} \X (1 .. Size[s[i]]) <=> \E n \in 1 .. Size[s[i]] : b = <<i, n>>
        OBVIOUS
    <1> QED
        BY <1>1, <1>2

\* Dropping oldest lines never makes a sequence of lines larger.
LEMMA SuffixBytes ==
    ASSUME NEW s \in Seq(Line), NEW k \in 1 .. (Len(s) + 1)
    PROVE  TotalBytes(From(s, k)) <= TotalBytes(s)
    <1> DEFINE r == From(s, k)
               shift == [b \in Bytes(r) |-> <<b[1] + k - 1, b[2]>>]
    <1>1. /\ r \in Seq(Line)
          /\ DOMAIN r = 1 .. (Len(s) + 1 - k)
          /\ \A i \in 1 .. (Len(s) + 1 - k) : r[i] = s[k + i - 1]
        <2>1. /\ r \in Seq(Line)
              /\ Len(r) = Len(s) + 1 - k
              /\ \A i \in 1 .. (Len(s) + 1 - k) : r[i] = s[k + i - 1]
            BY FromProperties
        <2>2. DOMAIN r = 1 .. Len(r)
            BY <2>1, LenProperties
        <2> QED
            BY <2>1, <2>2
    <1>2. \A b \in Bytes(r) :
             \E i \in 1 .. (Len(s) + 1 - k) : \E n \in 1 .. Size[r[i]] : b = <<i, n>>
        <2> HIDE DEF r, shift
        <2>1. r \in Seq(Line)
            BY <1>1
        <2>2. \A b \in Bytes(r) :
                 \E i \in DOMAIN r : \E n \in 1 .. Size[r[i]] : b = <<i, n>>
            BY <2>1, ByteOfLine
        <2> QED
            BY <1>1, <2>2
    <1>3. \A i \in DOMAIN s : \A n \in 1 .. Size[s[i]] : <<i, n>> \in Bytes(s)
        BY ByteOfLine
    <1> HIDE DEF r
    <1>4. \A b \in Bytes(r) : shift[b] \in Bytes(s)
        <2> TAKE b \in Bytes(r)
        <2>1. PICK i, n : i \in 1 .. (Len(s) + 1 - k) /\ n \in 1 .. Size[r[i]] /\ b = <<i, n>>
            BY <1>2
        <2>2. shift[b] = <<i + k - 1, n>>
            BY <2>1
        <2>3. i + k - 1 \in DOMAIN s /\ r[i] = s[i + k - 1]
            <3>1. DOMAIN s = 1 .. Len(s) /\ Len(s) \in Nat
                BY LenProperties
            <3>2. i + k - 1 \in 1 .. Len(s) /\ k + i - 1 = i + k - 1
                BY <2>1, <3>1
            <3> QED
                BY <1>1, <2>1, <3>1, <3>2
        <2> QED
            BY <1>3, <2>1, <2>2, <2>3
    <1>5. \A a, b \in Bytes(r) : shift[a] = shift[b] => a = b
        <2> TAKE a, b \in Bytes(r)
        <2>1. PICK i, n : i \in 1 .. (Len(s) + 1 - k) /\ a = <<i, n>>
            BY <1>2
        <2>2. PICK j, m : j \in 1 .. (Len(s) + 1 - k) /\ b = <<j, m>>
            BY <1>2
        <2>3. shift[a] = <<i + k - 1, n>> /\ shift[b] = <<j + k - 1, m>>
            BY <2>1, <2>2
        <2> QED
            BY <2>1, <2>2, <2>3
    <1>6. shift \in Injection(Bytes(r), Bytes(s))
        BY <1>4, <1>5 DEF Injection, IsInjective
    <1>7. IsFiniteSet(Bytes(s)) /\ IsFiniteSet(Bytes(r))
        BY <1>1, BytesFinite
    <1> QED
        BY <1>6, <1>7, FS_Injection DEF TotalBytes, r

\* What is left of a file that fits still fits: a drain needs no trimming.
LEMMA SuffixFits ==
    ASSUME NEW s \in Seq(Line), NEW k \in 1 .. (Len(s) + 1), ~ Overflows(s)
    PROVE  ~ Overflows(From(s, k))
    <1>1. TotalBytes(s) \in Nat /\ TotalBytes(From(s, k)) \in Nat
        BY BytesFinite, FromProperties
    <1>2. Len(From(s, k)) <= Len(s) /\ Len(From(s, k)) \in Nat
        BY FromProperties
    <1> QED
        BY <1>1, <1>2, SuffixBytes, CapAssumption DEF Overflows

----------------------------------------------------------------------------
(***************************************************************************)
(* The inductive invariant.                                                *)
(***************************************************************************)

\* The invariant holds of an empty spool that nobody uses.
LEMMA InitInv == SpoolInit => SpoolInv
    <1> SUFFICES ASSUME SpoolInit PROVE SpoolInv
        OBVIOUS
    <1> USE DEF SpoolInit
    <1>1. TypeOK
        BY DEF TypeOK, Op
    <1>2. LockInv
        BY ProcAssumption DEF LockInv, Locked
    <1>3. Phases /\ AppendTrims /\ DrainAccounts
        BY DEF Phases, AppendTrims, DrainAccounts
    <1>4. DrainLimited
        BY LimitAssumption DEF DrainLimited
    <1>5. SpoolBounded
        BY DEF SpoolBounded, Overflows
    <1> QED
        BY <1>1, <1>2, <1>3, <1>4, <1>5 DEF SpoolInv

----------------------------------------------------------------------------

\* Every action keeps the state well typed.
LEMMA TypeStep == SpoolInv /\ [SpoolNext]_spoolVars => TypeOK'
    <1> SUFFICES ASSUME SpoolInv, [SpoolNext]_spoolVars PROVE TypeOK'
        OBVIOUS
    <1> USE DEF TypeOK, Op, Locked, Move, Forget
    <1>1. ASSUME NEW p \in Proc, NEW l \in Line, AppendCall(p, l) PROVE TypeOK'
        BY <1>1 DEF SpoolInv, AppendCall
    <1>2. ASSUME NEW p \in Proc, DrainCall(p) PROVE TypeOK'
        BY <1>2 DEF SpoolInv, DrainCall
    <1>3. ASSUME NEW p \in Proc, Lock(p) PROVE TypeOK'
        BY <1>3 DEF SpoolInv, Lock
    <1>4. ASSUME NEW p \in Proc, ReadFail(p) PROVE TypeOK'
        BY <1>4 DEF SpoolInv, ReadFail
    <1>5. ASSUME NEW p \in Proc, AppendRead(p) PROVE TypeOK'
        BY <1>5 DEF SpoolInv, AppendRead
    <1>6. ASSUME NEW p \in Proc, DropOldest(p) PROVE TypeOK'
        <2>1. mem[p] \in Seq(Line) /\ Len(mem[p]) > 1
            BY <1>6 DEF SpoolInv, DropOldest, Overflows
        <2>2. Tail(mem[p]) \in Seq(Line)
            BY <2>1
        <2> QED
            BY <1>6, <2>2 DEF SpoolInv, DropOldest, Rest
    <1>7. ASSUME NEW p \in Proc, Trimmed(p) PROVE TypeOK'
        BY <1>7 DEF SpoolInv, Trimmed
    <1>8. ASSUME NEW p \in Proc, DrainRead(p) PROVE TypeOK'
        BY <1>8 DEF SpoolInv, DrainRead
    <1>9. ASSUME NEW p \in Proc, DrainEnd(p) PROVE TypeOK'
        BY <1>9 DEF SpoolInv, DrainEnd
    <1>10. ASSUME NEW p \in Proc, LineReplayed(p) PROVE TypeOK'
        <2>1. mem[p] \in Seq(Line) /\ mem[p] # <<>>
            BY <1>10 DEF SpoolInv, LineReplayed, Ingesting
        <2>2. Tail(mem[p]) \in Seq(Line)
            BY <2>1
        <2> QED
            BY <1>10, <2>2 DEF SpoolInv, LineReplayed, Rest
    <1>11. ASSUME NEW p \in Proc, LineDropped(p) PROVE TypeOK'
        <2>1. mem[p] \in Seq(Line) /\ mem[p] # <<>>
            BY <1>11 DEF SpoolInv, LineDropped, Ingesting
        <2>2. Tail(mem[p]) \in Seq(Line)
            BY <2>1
        <2> QED
            BY <1>11, <2>2 DEF SpoolInv, LineDropped, Rest
    <1>12. ASSUME NEW p \in Proc, LineKept(p) PROVE TypeOK'
        BY <1>12 DEF SpoolInv, LineKept
    <1>13. ASSUME NEW p \in Proc, Write(p) PROVE TypeOK'
        BY <1>13 DEF SpoolInv, Write
    <1>14. ASSUME NEW p \in Proc, WriteFail(p) PROVE TypeOK'
        BY <1>14 DEF SpoolInv, WriteFail
    <1>15. ASSUME NEW p \in Proc, LockFail(p) PROVE TypeOK'
        BY <1>15 DEF SpoolInv, LockFail
    <1>16. ASSUME NEW p \in Proc, Unlock(p) PROVE TypeOK'
        BY <1>16 DEF SpoolInv, Unlock
    <1>17. ASSUME NEW p \in Proc, SpoolCrash(p) PROVE TypeOK'
        BY <1>17 DEF SpoolInv, SpoolCrash
    <1>18. CASE UNCHANGED spoolVars
        BY <1>18 DEF SpoolInv, spoolVars
    <1> QED
        BY <1>1, <1>2, <1>3, <1>4, <1>5, <1>6, <1>7, <1>8, <1>9, <1>10, <1>11,
           <1>12, <1>13, <1>14, <1>15, <1>16, <1>17, <1>18 DEF SpoolNext, SpoolStep

\* The lock has its holder exactly while the holder is in the locked region.
LEMMA LockStep == SpoolInv /\ [SpoolNext]_spoolVars => LockInv'
    <1> SUFFICES ASSUME SpoolInv, [SpoolNext]_spoolVars PROVE LockInv'
        OBVIOUS
    <1> USE ProcAssumption DEF SpoolInv, TypeOK, LockInv, Op, Locked, Move, Forget
    <1>1. ASSUME NEW p \in Proc, NEW l \in Line, AppendCall(p, l) PROVE LockInv'
        BY <1>1 DEF AppendCall
    <1>2. ASSUME NEW p \in Proc, DrainCall(p) PROVE LockInv'
        BY <1>2 DEF DrainCall
    <1>3. ASSUME NEW p \in Proc, Lock(p) PROVE LockInv'
        BY <1>3 DEF Lock
    <1>4. ASSUME NEW p \in Proc, ReadFail(p) PROVE LockInv'
        BY <1>4 DEF ReadFail
    <1>5. ASSUME NEW p \in Proc, AppendRead(p) PROVE LockInv'
        BY <1>5 DEF AppendRead
    <1>6. ASSUME NEW p \in Proc, DropOldest(p) PROVE LockInv'
        BY <1>6 DEF DropOldest
    <1>7. ASSUME NEW p \in Proc, Trimmed(p) PROVE LockInv'
        BY <1>7 DEF Trimmed
    <1>8. ASSUME NEW p \in Proc, DrainRead(p) PROVE LockInv'
        BY <1>8 DEF DrainRead
    <1>9. ASSUME NEW p \in Proc, DrainEnd(p) PROVE LockInv'
        BY <1>9 DEF DrainEnd
    <1>10. ASSUME NEW p \in Proc, LineReplayed(p) PROVE LockInv'
        BY <1>10 DEF LineReplayed
    <1>11. ASSUME NEW p \in Proc, LineDropped(p) PROVE LockInv'
        BY <1>11 DEF LineDropped
    <1>12. ASSUME NEW p \in Proc, LineKept(p) PROVE LockInv'
        BY <1>12 DEF LineKept
    <1>13. ASSUME NEW p \in Proc, Write(p) PROVE LockInv'
        BY <1>13 DEF Write
    <1>14. ASSUME NEW p \in Proc, WriteFail(p) PROVE LockInv'
        BY <1>14 DEF WriteFail
    <1>15. ASSUME NEW p \in Proc, LockFail(p) PROVE LockInv'
        BY <1>15 DEF LockFail
    <1>16. ASSUME NEW p \in Proc, Unlock(p) PROVE LockInv'
        BY <1>16 DEF Unlock
    <1>17. ASSUME NEW p \in Proc, SpoolCrash(p) PROVE LockInv'
        BY <1>17 DEF SpoolCrash
    <1>18. CASE UNCHANGED spoolVars
        BY <1>18 DEF spoolVars
    <1> QED
        BY <1>1, <1>2, <1>3, <1>4, <1>5, <1>6, <1>7, <1>8, <1>9, <1>10, <1>11,
           <1>12, <1>13, <1>14, <1>15, <1>16, <1>17, <1>18 DEF SpoolNext, SpoolStep

\* Only appends trim, only drains loop, and a drain counts from zero.
LEMMA PhasesStep == SpoolInv /\ [SpoolNext]_spoolVars => Phases'
    <1> SUFFICES ASSUME SpoolInv, [SpoolNext]_spoolVars PROVE Phases'
        OBVIOUS
    <1> USE LineAssumption DEF SpoolInv, TypeOK, Phases, Op, Move, Forget
    <1>1. ASSUME NEW p \in Proc, NEW l \in Line, AppendCall(p, l) PROVE Phases'
        BY <1>1 DEF AppendCall
    <1>2. ASSUME NEW p \in Proc, DrainCall(p) PROVE Phases'
        BY <1>2 DEF DrainCall
    <1>3. ASSUME NEW p \in Proc, Lock(p) PROVE Phases'
        BY <1>3 DEF Lock
    <1>4. ASSUME NEW p \in Proc, ReadFail(p) PROVE Phases'
        BY <1>4 DEF ReadFail
    <1>5. ASSUME NEW p \in Proc, AppendRead(p) PROVE Phases'
        BY <1>5 DEF AppendRead
    <1>6. ASSUME NEW p \in Proc, DropOldest(p) PROVE Phases'
        BY <1>6 DEF DropOldest
    <1>7. ASSUME NEW p \in Proc, Trimmed(p) PROVE Phases'
        BY <1>7 DEF Trimmed
    <1>8. ASSUME NEW p \in Proc, DrainRead(p) PROVE Phases'
        BY <1>8 DEF DrainRead
    <1>9. ASSUME NEW p \in Proc, DrainEnd(p) PROVE Phases'
        BY <1>9 DEF DrainEnd
    <1>10. ASSUME NEW p \in Proc, LineReplayed(p) PROVE Phases'
        BY <1>10 DEF LineReplayed, Ingesting
    <1>11. ASSUME NEW p \in Proc, LineDropped(p) PROVE Phases'
        BY <1>11 DEF LineDropped, Ingesting
    <1>12. ASSUME NEW p \in Proc, LineKept(p) PROVE Phases'
        BY <1>12 DEF LineKept
    <1>13. ASSUME NEW p \in Proc, Write(p) PROVE Phases'
        BY <1>13 DEF Write
    <1>14. ASSUME NEW p \in Proc, WriteFail(p) PROVE Phases'
        BY <1>14 DEF WriteFail
    <1>15. ASSUME NEW p \in Proc, LockFail(p) PROVE Phases'
        BY <1>15 DEF LockFail
    <1>16. ASSUME NEW p \in Proc, Unlock(p) PROVE Phases'
        BY <1>16 DEF Unlock
    <1>17. ASSUME NEW p \in Proc, SpoolCrash(p) PROVE Phases'
        BY <1>17 DEF SpoolCrash
    <1>18. CASE UNCHANGED spoolVars
        BY <1>18 DEF spoolVars
    <1> QED
        BY <1>1, <1>2, <1>3, <1>4, <1>5, <1>6, <1>7, <1>8, <1>9, <1>10, <1>11,
           <1>12, <1>13, <1>14, <1>15, <1>16, <1>17, <1>18 DEF SpoolNext, SpoolStep

\* A drain takes a line only while it is under its limit.
LEMMA LimitStep == SpoolInv /\ [SpoolNext]_spoolVars => DrainLimited'
    <1> SUFFICES ASSUME SpoolInv, [SpoolNext]_spoolVars PROVE DrainLimited'
        OBVIOUS
    <1> USE LimitAssumption DEF SpoolInv, TypeOK, DrainLimited, Forget
    <1>1. ASSUME NEW p \in Proc, NEW l \in Line, AppendCall(p, l) PROVE DrainLimited'
        BY <1>1 DEF AppendCall
    <1>2. ASSUME NEW p \in Proc, DrainCall(p) PROVE DrainLimited'
        BY <1>2 DEF DrainCall
    <1>3. ASSUME NEW p \in Proc, Lock(p) PROVE DrainLimited'
        BY <1>3 DEF Lock
    <1>4. ASSUME NEW p \in Proc, ReadFail(p) PROVE DrainLimited'
        BY <1>4 DEF ReadFail
    <1>5. ASSUME NEW p \in Proc, AppendRead(p) PROVE DrainLimited'
        BY <1>5 DEF AppendRead
    <1>6. ASSUME NEW p \in Proc, DropOldest(p) PROVE DrainLimited'
        BY <1>6 DEF DropOldest
    <1>7. ASSUME NEW p \in Proc, Trimmed(p) PROVE DrainLimited'
        BY <1>7 DEF Trimmed
    <1>8. ASSUME NEW p \in Proc, DrainRead(p) PROVE DrainLimited'
        BY <1>8 DEF DrainRead
    <1>9. ASSUME NEW p \in Proc, DrainEnd(p) PROVE DrainLimited'
        BY <1>9 DEF DrainEnd
    <1>10. ASSUME NEW p \in Proc, LineReplayed(p) PROVE DrainLimited'
        BY <1>10 DEF LineReplayed, Ingesting, AtLimit
    <1>11. ASSUME NEW p \in Proc, LineDropped(p) PROVE DrainLimited'
        BY <1>11 DEF LineDropped, Ingesting, AtLimit
    <1>12. ASSUME NEW p \in Proc, LineKept(p) PROVE DrainLimited'
        BY <1>12 DEF LineKept
    <1>13. ASSUME NEW p \in Proc, Write(p) PROVE DrainLimited'
        BY <1>13 DEF Write
    <1>14. ASSUME NEW p \in Proc, WriteFail(p) PROVE DrainLimited'
        BY <1>14 DEF WriteFail
    <1>15. ASSUME NEW p \in Proc, LockFail(p) PROVE DrainLimited'
        BY <1>15 DEF LockFail
    <1>16. ASSUME NEW p \in Proc, Unlock(p) PROVE DrainLimited'
        BY <1>16 DEF Unlock
    <1>17. ASSUME NEW p \in Proc, SpoolCrash(p) PROVE DrainLimited'
        BY <1>17 DEF SpoolCrash
    <1>18. CASE UNCHANGED spoolVars
        BY <1>18 DEF spoolVars
    <1> QED
        BY <1>1, <1>2, <1>3, <1>4, <1>5, <1>6, <1>7, <1>8, <1>9, <1>10, <1>11,
           <1>12, <1>13, <1>14, <1>15, <1>16, <1>17, <1>18 DEF SpoolNext, SpoolStep

\* A drain's copy is always the part of the file that it has not taken yet.  No
\* other process can replace the file meanwhile, because it is not the holder
\* of the lock.
LEMMA DrainStepInv == SpoolInv /\ [SpoolNext]_spoolVars => DrainAccounts'
    <1> SUFFICES ASSUME SpoolInv, [SpoolNext]_spoolVars PROVE DrainAccounts'
        OBVIOUS
    <1> USE ProcAssumption, LineAssumption DEF SpoolInv, TypeOK, LockInv, Phases, DrainAccounts, Op, Locked, Move, Forget
    <1>1. ASSUME NEW p \in Proc, NEW l \in Line, AppendCall(p, l) PROVE DrainAccounts'
        BY <1>1 DEF AppendCall
    <1>2. ASSUME NEW p \in Proc, DrainCall(p) PROVE DrainAccounts'
        BY <1>2 DEF DrainCall
    <1>3. ASSUME NEW p \in Proc, Lock(p) PROVE DrainAccounts'
        BY <1>3 DEF Lock
    <1>4. ASSUME NEW p \in Proc, ReadFail(p) PROVE DrainAccounts'
        BY <1>4 DEF ReadFail
    <1>5. ASSUME NEW p \in Proc, AppendRead(p) PROVE DrainAccounts'
        BY <1>5 DEF AppendRead
    <1>6. ASSUME NEW p \in Proc, DropOldest(p) PROVE DrainAccounts'
        BY <1>6 DEF DropOldest
    <1>7. ASSUME NEW p \in Proc, Trimmed(p) PROVE DrainAccounts'
        BY <1>7 DEF Trimmed
    <1>8. ASSUME NEW p \in Proc, DrainRead(p) PROVE DrainAccounts'
        <2>1. /\ replayed[p] = 0 /\ dropped[p] = 0 /\ file \in Seq(Line)
              /\ file = From(file, 1)
            BY <1>8, FromFirst DEF DrainRead
        <2> QED
            BY <1>8, <2>1 DEF DrainRead
    <1>9. ASSUME NEW p \in Proc, DrainEnd(p) PROVE DrainAccounts'
        BY <1>9 DEF DrainEnd
    <1>10. ASSUME NEW p \in Proc, LineReplayed(p) PROVE DrainAccounts'
        <2> SUFFICES ASSUME NEW q \in Proc, lock' = q, arg'[q] = NoLine,
                            op'[q] \in {"loop", "write"}
                     PROVE  /\ replayed'[q] + dropped'[q] <= Len(file')
                            /\ mem'[q] = From(file', replayed'[q] + dropped'[q] + 1)
            OBVIOUS
        <2>1. CASE q # p
            BY <1>10, <2>1 DEF LineReplayed
        <2>2. CASE q = p
            <3>1. /\ lock = p /\ op[p] = "loop" /\ mem[p] # <<>>
                  /\ replayed[p] \in Nat /\ dropped[p] \in Nat
                  /\ replayed[p] + dropped[p] \in Nat
                  /\ file \in Seq(Line)
                BY <1>10, <2>2 DEF LineReplayed, Ingesting
            <3>2. /\ replayed[p] + dropped[p] <= Len(file)
                  /\ mem[p] = From(file, replayed[p] + dropped[p] + 1)
                BY <1>10, <2>2, <3>1 DEF LineReplayed
            <3>3. /\ replayed[p] + dropped[p] + 1 <= Len(file)
                  /\ Tail(mem[p]) = From(file, replayed[p] + dropped[p] + 1 + 1)
                BY ONLY <3>1, <3>2, TakeLine
            <3>4. /\ file' = file /\ mem'[p] = Tail(mem[p])
                  /\ replayed'[p] + dropped'[p] = replayed[p] + dropped[p] + 1
                BY <1>10, <3>1 DEF LineReplayed, Rest
            <3> QED
                BY ONLY <2>2, <3>3, <3>4
        <2> QED
            BY <2>1, <2>2
    <1>11. ASSUME NEW p \in Proc, LineDropped(p) PROVE DrainAccounts'
        <2> SUFFICES ASSUME NEW q \in Proc, lock' = q, arg'[q] = NoLine,
                            op'[q] \in {"loop", "write"}
                     PROVE  /\ replayed'[q] + dropped'[q] <= Len(file')
                            /\ mem'[q] = From(file', replayed'[q] + dropped'[q] + 1)
            OBVIOUS
        <2>1. CASE q # p
            BY <1>11, <2>1 DEF LineDropped
        <2>2. CASE q = p
            <3>1. /\ lock = p /\ op[p] = "loop" /\ mem[p] # <<>>
                  /\ replayed[p] \in Nat /\ dropped[p] \in Nat
                  /\ replayed[p] + dropped[p] \in Nat
                  /\ file \in Seq(Line)
                BY <1>11, <2>2 DEF LineDropped, Ingesting
            <3>2. /\ replayed[p] + dropped[p] <= Len(file)
                  /\ mem[p] = From(file, replayed[p] + dropped[p] + 1)
                BY <1>11, <2>2, <3>1 DEF LineDropped
            <3>3. /\ replayed[p] + dropped[p] + 1 <= Len(file)
                  /\ Tail(mem[p]) = From(file, replayed[p] + dropped[p] + 1 + 1)
                BY ONLY <3>1, <3>2, TakeLine
            <3>4. /\ file' = file /\ mem'[p] = Tail(mem[p])
                  /\ replayed'[p] + dropped'[p] = replayed[p] + dropped[p] + 1
                BY <1>11, <3>1 DEF LineDropped, Rest
            <3> QED
                BY ONLY <2>2, <3>3, <3>4
        <2> QED
            BY <2>1, <2>2
    <1>12. ASSUME NEW p \in Proc, LineKept(p) PROVE DrainAccounts'
        BY <1>12 DEF LineKept
    <1>13. ASSUME NEW p \in Proc, Write(p) PROVE DrainAccounts'
        BY <1>13 DEF Write
    <1>14. ASSUME NEW p \in Proc, WriteFail(p) PROVE DrainAccounts'
        BY <1>14 DEF WriteFail
    <1>15. ASSUME NEW p \in Proc, LockFail(p) PROVE DrainAccounts'
        BY <1>15 DEF LockFail
    <1>16. ASSUME NEW p \in Proc, Unlock(p) PROVE DrainAccounts'
        BY <1>16 DEF Unlock
    <1>17. ASSUME NEW p \in Proc, SpoolCrash(p) PROVE DrainAccounts'
        BY <1>17 DEF SpoolCrash
    <1>18. CASE UNCHANGED spoolVars
        BY <1>18 DEF spoolVars
    <1> QED
        BY <1>1, <1>2, <1>3, <1>4, <1>5, <1>6, <1>7, <1>8, <1>9, <1>10, <1>11,
           <1>12, <1>13, <1>14, <1>15, <1>16, <1>17, <1>18 DEF SpoolNext, SpoolStep

\* An append's copy is a suffix of the file and its line, cut where the loop
\* has got to.
LEMMA TrimStep == SpoolInv /\ [SpoolNext]_spoolVars => AppendTrims'
    <1> SUFFICES ASSUME SpoolInv, [SpoolNext]_spoolVars PROVE AppendTrims'
        OBVIOUS
    <1> USE ProcAssumption, LineAssumption DEF SpoolInv, TypeOK, LockInv, Phases, AppendTrims, Op, Locked, Move, Forget
    <1>1. ASSUME NEW p \in Proc, NEW l \in Line, AppendCall(p, l) PROVE AppendTrims'
        BY <1>1 DEF AppendCall
    <1>2. ASSUME NEW p \in Proc, DrainCall(p) PROVE AppendTrims'
        BY <1>2 DEF DrainCall
    <1>3. ASSUME NEW p \in Proc, Lock(p) PROVE AppendTrims'
        BY <1>3 DEF Lock
    <1>4. ASSUME NEW p \in Proc, ReadFail(p) PROVE AppendTrims'
        BY <1>4 DEF ReadFail
    <1>5. ASSUME NEW p \in Proc, AppendRead(p) PROVE AppendTrims'
        <2>1. PartlyTrimmed(Append(file, arg[p]), Append(file, arg[p]))
            BY <1>5, TrimStart DEF AppendRead
        <2> QED
            BY <1>5, <2>1 DEF AppendRead
    <1>6. ASSUME NEW p \in Proc, DropOldest(p) PROVE AppendTrims'
        <2>1. /\ Append(file, arg[p]) \in Seq(Line)
              /\ PartlyTrimmed(Append(file, arg[p]), mem[p])
              /\ Overflows(mem[p])
            BY <1>6, TrimStart DEF DropOldest
        <2>2. PartlyTrimmed(Append(file, arg[p]), Tail(mem[p]))
            BY <2>1, TrimTurn
        <2> QED
            BY <1>6, <2>2 DEF DropOldest, Rest
    <1>7. ASSUME NEW p \in Proc, Trimmed(p) PROVE AppendTrims'
        BY <1>7 DEF Trimmed
    <1>8. ASSUME NEW p \in Proc, DrainRead(p) PROVE AppendTrims'
        BY <1>8 DEF DrainRead
    <1>9. ASSUME NEW p \in Proc, DrainEnd(p) PROVE AppendTrims'
        BY <1>9 DEF DrainEnd
    <1>10. ASSUME NEW p \in Proc, LineReplayed(p) PROVE AppendTrims'
        BY <1>10 DEF LineReplayed, Ingesting
    <1>11. ASSUME NEW p \in Proc, LineDropped(p) PROVE AppendTrims'
        BY <1>11 DEF LineDropped, Ingesting
    <1>12. ASSUME NEW p \in Proc, LineKept(p) PROVE AppendTrims'
        BY <1>12 DEF LineKept
    <1>13. ASSUME NEW p \in Proc, Write(p) PROVE AppendTrims'
        BY <1>13 DEF Write
    <1>14. ASSUME NEW p \in Proc, WriteFail(p) PROVE AppendTrims'
        BY <1>14 DEF WriteFail
    <1>15. ASSUME NEW p \in Proc, LockFail(p) PROVE AppendTrims'
        BY <1>15 DEF LockFail
    <1>16. ASSUME NEW p \in Proc, Unlock(p) PROVE AppendTrims'
        BY <1>16 DEF Unlock
    <1>17. ASSUME NEW p \in Proc, SpoolCrash(p) PROVE AppendTrims'
        BY <1>17 DEF SpoolCrash
    <1>18. CASE UNCHANGED spoolVars
        BY <1>18 DEF spoolVars
    <1> QED
        BY <1>1, <1>2, <1>3, <1>4, <1>5, <1>6, <1>7, <1>8, <1>9, <1>10, <1>11,
           <1>12, <1>13, <1>14, <1>15, <1>16, <1>17, <1>18 DEF SpoolNext, SpoolStep

\* The file stays within the cap: an append has trimmed what it writes, and a
\* drain writes a suffix of a file that was within the cap.
LEMMA BoundStep == SpoolInv /\ [SpoolNext]_spoolVars => SpoolBounded'
    <1> SUFFICES ASSUME SpoolInv, [SpoolNext]_spoolVars PROVE SpoolBounded'
        OBVIOUS
    <1>0. SpoolBounded
        BY DEF SpoolInv
    <1> USE <1>0 DEF SpoolBounded
    <1>1. ASSUME NEW p \in Proc, NEW l \in Line, AppendCall(p, l) PROVE SpoolBounded'
        BY <1>1 DEF AppendCall
    <1>2. ASSUME NEW p \in Proc, DrainCall(p) PROVE SpoolBounded'
        BY <1>2 DEF DrainCall
    <1>3. ASSUME NEW p \in Proc, Lock(p) PROVE SpoolBounded'
        BY <1>3 DEF Lock
    <1>4. ASSUME NEW p \in Proc, ReadFail(p) PROVE SpoolBounded'
        BY <1>4 DEF ReadFail
    <1>5. ASSUME NEW p \in Proc, AppendRead(p) PROVE SpoolBounded'
        BY <1>5 DEF AppendRead
    <1>6. ASSUME NEW p \in Proc, DropOldest(p) PROVE SpoolBounded'
        BY <1>6 DEF DropOldest
    <1>7. ASSUME NEW p \in Proc, Trimmed(p) PROVE SpoolBounded'
        BY <1>7 DEF Trimmed
    <1>8. ASSUME NEW p \in Proc, DrainRead(p) PROVE SpoolBounded'
        BY <1>8 DEF DrainRead
    <1>9. ASSUME NEW p \in Proc, DrainEnd(p) PROVE SpoolBounded'
        BY <1>9 DEF DrainEnd
    <1>10. ASSUME NEW p \in Proc, LineReplayed(p) PROVE SpoolBounded'
        BY <1>10 DEF LineReplayed
    <1>11. ASSUME NEW p \in Proc, LineDropped(p) PROVE SpoolBounded'
        BY <1>11 DEF LineDropped
    <1>12. ASSUME NEW p \in Proc, LineKept(p) PROVE SpoolBounded'
        BY <1>12 DEF LineKept
    <1>13. ASSUME NEW p \in Proc, Write(p) PROVE SpoolBounded'
        <2>1. CASE arg[p] # NoLine
            BY <1>13, <2>1 DEF Write, Move, SpoolInv, AppendTrims
        <2>2. CASE arg[p] = NoLine
            <3> DEFINE taken == replayed[p] + dropped[p]
            <3>1. lock = p /\ taken \in Nat /\ file \in Seq(Line)
                BY <1>13 DEF Write, Move, SpoolInv, TypeOK, LockInv, Locked
            <3>2. taken <= Len(file) /\ mem[p] = From(file, taken + 1)
                BY <1>13, <2>2, <3>1 DEF Write, Move, SpoolInv, DrainAccounts
            <3>3. ~ Overflows(From(file, taken + 1))
                BY <3>1, <3>2, SuffixFits DEF SpoolInv
            <3> QED
                BY <1>13, <3>2, <3>3 DEF Write
        <2> QED
            BY <2>1, <2>2
    <1>14. ASSUME NEW p \in Proc, WriteFail(p) PROVE SpoolBounded'
        BY <1>14 DEF WriteFail
    <1>15. ASSUME NEW p \in Proc, LockFail(p) PROVE SpoolBounded'
        BY <1>15 DEF LockFail
    <1>16. ASSUME NEW p \in Proc, Unlock(p) PROVE SpoolBounded'
        BY <1>16 DEF Unlock
    <1>17. ASSUME NEW p \in Proc, SpoolCrash(p) PROVE SpoolBounded'
        BY <1>17 DEF SpoolCrash
    <1>18. CASE UNCHANGED spoolVars
        BY <1>18 DEF spoolVars
    <1> QED
        BY <1>1, <1>2, <1>3, <1>4, <1>5, <1>6, <1>7, <1>8, <1>9, <1>10, <1>11,
           <1>12, <1>13, <1>14, <1>15, <1>16, <1>17, <1>18 DEF SpoolNext, SpoolStep

----------------------------------------------------------------------------

\* The invariant is inductive, for a step of the spool or a stuttering step.
LEMMA StepInv == SpoolInv /\ [SpoolNext]_spoolVars => SpoolInv'
    BY TypeStep, LockStep, PhasesStep, TrimStep, DrainStepInv, LimitStep, BoundStep
       DEF SpoolInv

\* The invariant holds in every reachable state of the spool.
THEOREM SpoolCorrect == SpoolSpec => []SpoolInv
    <1>1. SpoolInit => SpoolInv
        BY InitInv
    <1>2. SpoolInv /\ [SpoolNext]_spoolVars => SpoolInv'
        BY StepInv
    <1> QED
        BY <1>1, <1>2, PTL DEF SpoolSpec

\* The spool's variables keep their types.
THEOREM SpoolTyped == SpoolSpec => []TypeOK
    <1>1. SpoolInv => TypeOK
        BY DEF SpoolInv
    <1> QED
        BY <1>1, SpoolCorrect, PTL

\* Append and Drain exclude each other from reading the file until they have
\* replaced it (the flock taken at spool.go:158 and 181).
THEOREM MutualExclusion == SpoolSpec => []LockInv
    <1>1. SpoolInv => LockInv
        BY DEF SpoolInv
    <1> QED
        BY <1>1, SpoolCorrect, PTL

\* The file is never over its cap unless it is a single line (spool.go:169).
THEOREM FileBounded == SpoolSpec => []SpoolBounded
    <1>1. SpoolInv => SpoolBounded
        BY DEF SpoolInv
    <1> QED
        BY <1>1, SpoolCorrect, PTL

\* A drain accounts for every line of the file it read (spool.go:192-225).
THEOREM DrainComplete == SpoolSpec => []DrainAccounts
    <1>1. SpoolInv => DrainAccounts
        BY DEF SpoolInv
    <1> QED
        BY <1>1, SpoolCorrect, PTL

\* A drain never takes more lines than its limit (spool.go:200).
THEOREM DrainWithinLimit == SpoolSpec => []DrainLimited
    <1>1. SpoolInv => DrainLimited
        BY DEF SpoolInv
    <1> QED
        BY <1>1, SpoolCorrect, PTL

\* In a state of the invariant, an append writes what the cap leaves.
LEMMA AppendWritesNewest ==
    ASSUME SpoolInv, NEW p \in Proc, arg[p] # NoLine, op[p] = "write"
    PROVE  arg[p] \in Line /\ mem[p] = Newest(Append(file, arg[p]))
    <1>1. arg[p] \in Line /\ file \in Seq(Line)
        BY DEF SpoolInv, TypeOK
    <1>2. PartlyTrimmed(Append(file, arg[p]), mem[p]) /\ ~ Overflows(mem[p])
        BY DEF SpoolInv, AppendTrims
    <1>3. Append(file, arg[p]) \in Seq(Line)
        BY <1>1, TrimStart
    <1> QED
        BY <1>1, <1>2, <1>3, TrimEnd

\* What an append is about to write is the file and its line, less only the
\* oldest lines that the cap demands (spool.go:168-172).
THEOREM AppendKeepsNewest == SpoolSpec => []AppendFits
    <1>1. SpoolInv => AppendFits
        BY AppendWritesNewest DEF AppendFits
    <1> QED
        BY <1>1, SpoolCorrect, PTL

----------------------------------------------------------------------------

\* The abstract queue and the spool share the size rule.
LEMMA SameNewest == ASSUME NEW s PROVE Queue!Newest(s) = Newest(s)
    <1>1. \A t : Queue!Bytes(t) = Bytes(t)
        BY DEF Queue!Bytes, Bytes
    <1>2. \A t : Queue!TotalBytes(t) = TotalBytes(t)
        BY <1>1 DEF Queue!TotalBytes, TotalBytes, Queue!Cardinality, Cardinality
    <1>3. \A t : Queue!Overflows(t) = Overflows(t)
        BY <1>2 DEF Queue!Overflows, Overflows
    <1>4. \A t, k : Queue!From(t, k) = From(t, k)
        BY DEF Queue!From, From
    <1>5. \A k : Queue!IsCut(s, k) = IsCut(s, k)
        BY <1>3, <1>4 DEF Queue!IsCut, IsCut
    <1> QED
        BY <1>4, <1>5 DEF Queue!Newest, Newest

\* Replacing the file is one step of the abstract queue.
LEMMA WriteRefines ==
    ASSUME SpoolInv, NEW p \in Proc, Write(p)
    PROVE  [Queue!Next]_file
    <1>1. op[p] = "write" /\ file' = mem[p]
        BY DEF Write, Move
    <1>2. CASE arg[p] # NoLine
        <2>1. arg[p] \in Line /\ file' = Newest(Append(file, arg[p]))
            BY <1>1, <1>2, AppendWritesNewest
        <2>2. Queue!Newest(Append(file, arg[p])) = Newest(Append(file, arg[p]))
            BY SameNewest
        <2>3. Queue!Enqueue
            BY <2>1, <2>2 DEF Queue!Enqueue
        <2> QED
            BY <2>3 DEF Queue!Next
    <1>3. CASE arg[p] = NoLine
        <2> DEFINE taken == replayed[p] + dropped[p]
        <2>1. lock = p /\ taken \in Nat /\ file \in Seq(Line)
            BY <1>1 DEF SpoolInv, TypeOK, LockInv, Locked
        <2>2. taken <= Len(file) /\ file' = From(file, taken + 1)
            BY <1>1, <1>3, <2>1 DEF SpoolInv, DrainAccounts
        <2>3. CASE taken = 0
            BY <2>1, <2>2, <2>3, FromFirst
        <2>4. CASE taken # 0
            <3>1. taken \in 1 .. Len(file)
                BY <2>1, <2>2, <2>4
            <3>2. Queue!Dequeue
                BY <3>1, <2>2 DEF Queue!Dequeue, Queue!From, From
            <3> QED
                BY <3>2 DEF Queue!Next
        <2> QED
            BY <2>3, <2>4
    <1> QED
        BY <1>2, <1>3

\* Every other step leaves the queue as it is.
LEMMA StepRefines == SpoolInv /\ [SpoolNext]_spoolVars => [Queue!Next]_file
    <1> SUFFICES ASSUME SpoolInv, [SpoolNext]_spoolVars PROVE [Queue!Next]_file
        OBVIOUS
    <1>1. ASSUME NEW p \in Proc, Write(p) PROVE [Queue!Next]_file
        BY <1>1, WriteRefines
    <1>2. CASE \E p \in Proc : Write(p)
        BY <1>1, <1>2
    <1>3. CASE ~ \E p \in Proc : Write(p)
        BY <1>3 DEF SpoolNext, SpoolStep, spoolVars, AppendCall, DrainCall, Lock,
           ReadFail, AppendRead, DropOldest, Trimmed, DrainRead, DrainEnd,
           LineReplayed, LineDropped, LineKept, WriteFail, LockFail, Unlock,
           SpoolCrash
    <1> QED
        BY <1>2, <1>3

\* The spool file is a lossy queue whatever its users do: an append adds one
\* line and drops only the oldest ones that the cap demands, a drain takes lines
\* from the head, and no process that fails or dies changes anything.
THEOREM SpoolIsQueue == SpoolSpec => QueueSpec
    <1>1. SpoolInit => Queue!Init
        BY DEF SpoolInit, Queue!Init
    <1>2. SpoolInv /\ [SpoolNext]_spoolVars => [Queue!Next]_file
        BY StepRefines
    <1> QED
        BY <1>1, <1>2, SpoolCorrect, PTL DEF SpoolSpec, QueueSpec, Queue!Spec
============================================================================
