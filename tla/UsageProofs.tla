---------------------------- MODULE UsageProofs ----------------------------
(***************************************************************************)
(* Proofs about the view model_token_usage, for any events, counts and     *)
(* identifiers.  Of each event_uuid there is one row at most (StoredOnce)  *)
(* and, of an event that was emitted, does not wait and was not given up,  *)
(* one at least (NoSilentLoss), so that the rows represent the events; and *)
(* the tokens of the rows are as many as the tokens of their events.       *)
(***************************************************************************)
EXTENDS Usage, PipelineProofs

\* The events that have a row.
InRows == ToSet(raw)

RowTokens == UNION {Tokenwise(i, Count(raw[i])) : i \in Rows}
EventTokens == UNION {Tokenwise(e, Count(e)) : e \in InRows \cap DOMAIN Tokens}

\* The rows are at most one event of each event_uuid, and of every event that is
\* accounted for in no other way there is one.
LEMMA RowsRepresent ==
    ASSUME PipelineTypeOK, StoredOnce, NoSilentLoss
    PROVE  InRows \in Representatives
    <1>1. raw \in Seq(Line)
        BY DEF PipelineTypeOK, ServerTypeOK
    <1>2. InRows \in SUBSET Line
        BY <1>1 DEF InRows, ToSet
    <1>3. ASSUME NEW e \in InRows, NEW f \in InRows, Uuid[e] = Uuid[f]
          PROVE  e = f
        <2>1. PICK i \in DOMAIN raw : raw[i] = e
            BY DEF InRows, ToSet
        <2>2. PICK j \in DOMAIN raw : raw[j] = f
            BY DEF InRows, ToSet
        <2> QED
            BY <1>3, <2>1, <2>2 DEF StoredOnce
    <1>4. ASSUME NEW e \in Line, cmd[e] = "done",
                 e \notin ToSet(file) \cup overflowed \cup unspooled \cup poisoned
          PROVE  \E f \in InRows : Uuid[f] = Uuid[e]
        <2>1. Stored(e)
            BY <1>4 DEF NoSilentLoss, Accounted
        <2>2. PICK i \in DOMAIN raw : Uuid[raw[i]] = Uuid[e]
            BY <2>1 DEF Stored
        <2>3. raw[i] \in InRows
            BY DEF InRows, ToSet
        <2> QED
            BY <2>2, <2>3
    <1> QED
        BY <1>2, <1>3, <1>4 DEF Representatives

\* The tokens of the rows are finitely many.
LEMMA RowTokensFinite ==
    ASSUME PipelineTypeOK
    PROVE  IsFiniteSet(RowTokens)
    <1>1. raw \in Seq(Line)
        BY DEF PipelineTypeOK, ServerTypeOK
    <1>2. IsFiniteSet(Rows)
        <2>1. Rows \in SUBSET (1 .. Len(raw))
            BY <1>1 DEF Rows
        <2>2. IsFiniteSet(1 .. Len(raw))
            BY <1>1, FS_Interval
        <2> QED
            BY <2>1, <2>2, FS_Subset
    <1> DEFINE Parts == {Tokenwise(i, Count(raw[i])) : i \in Rows}
               part == [i \in Rows |-> Tokenwise(i, Count(raw[i]))]
    <1>3. IsFiniteSet(Parts)
        <2>1. part \in Surjection(Rows, Parts)
            BY DEF Surjection
        <2> QED
            BY <1>2, <2>1, FS_Surjection
    <1>4. ASSUME NEW i \in Rows
          PROVE  IsFiniteSet(Tokenwise(i, Count(raw[i])))
        <2>1. Count(raw[i]) \in Nat
            BY <1>4, TokensAssumption DEF Rows, Count
        <2>2. IsFiniteSet({i})
            BY FS_Singleton
        <2>3. IsFiniteSet(1 .. Count(raw[i]))
            BY <2>1, FS_Interval
        <2> QED
            BY <2>2, <2>3, FS_Product DEF Tokenwise
    <1>5. IsFiniteSet(UNION Parts)
        <2>1. \A T \in Parts : IsFiniteSet(T)
            BY <1>4
        <2> QED
            BY <1>3, <2>1, FS_UNION
    <1> QED
        BY <1>5 DEF RowTokens

\* No event has two rows, so that the tokens of the rows are those of the events.
LEMMA SumOfRows ==
    ASSUME PipelineTypeOK, StoredOnce
    PROVE  InputTokens = TokensOf(InRows)
    <1>1. raw \in Seq(Line)
        BY DEF PipelineTypeOK, ServerTypeOK
    <1> DEFINE event == [x \in RowTokens |-> <<raw[x[1]], x[2]>>]
    <1>2. ASSUME NEW x
          PROVE  x \in RowTokens <=>
                     \E i \in Rows : \E k \in 1 .. Count(raw[i]) : x = <<i, k>>
        BY DEF RowTokens, Tokenwise
    <1>3. ASSUME NEW x
          PROVE  x \in EventTokens <=>
                     \E e \in InRows \cap DOMAIN Tokens : \E k \in 1 .. Count(e) : x = <<e, k>>
        BY DEF EventTokens, Tokenwise
    <1>4. event \in [RowTokens -> EventTokens]
        <2> SUFFICES ASSUME NEW x \in RowTokens PROVE <<raw[x[1]], x[2]>> \in EventTokens
            OBVIOUS
        <2>1. PICK i \in Rows : \E k \in 1 .. Count(raw[i]) : x = <<i, k>>
            BY <1>2
        <2>2. PICK k \in 1 .. Count(raw[i]) : x = <<i, k>>
            BY <2>1
        <2>3. raw[i] \in InRows \cap DOMAIN Tokens
            BY DEF Rows, InRows, ToSet
        <2> QED
            BY <1>3, <2>2, <2>3
    <1>5. ASSUME NEW x \in RowTokens, NEW y \in RowTokens, event[x] = event[y]
          PROVE  x = y
        <2>a. PICK i \in Rows : \E k \in 1 .. Count(raw[i]) : x = <<i, k>>
            BY <1>2
        <2>1. PICK k \in 1 .. Count(raw[i]) : x = <<i, k>>
            BY <2>a
        <2>b. PICK j \in Rows : \E l \in 1 .. Count(raw[j]) : y = <<j, l>>
            BY <1>2
        <2>2. PICK l \in 1 .. Count(raw[j]) : y = <<j, l>>
            BY <2>b
        <2>3. raw[i] = raw[j] /\ k = l
            BY <1>5, <2>1, <2>2
        <2>4. i = j
            BY <2>3 DEF Rows, StoredOnce
        <2> QED
            BY <2>1, <2>2, <2>3, <2>4
    <1>6. ASSUME NEW x \in EventTokens
          PROVE  \E y \in RowTokens : event[y] = x
        <2>a. PICK e \in InRows \cap DOMAIN Tokens : \E k \in 1 .. Count(e) : x = <<e, k>>
            BY <1>3
        <2>1. PICK k \in 1 .. Count(e) : x = <<e, k>>
            BY <2>a
        <2>2. PICK i \in DOMAIN raw : raw[i] = e
            BY DEF InRows, ToSet
        <2>3. i \in Rows
            BY <2>2 DEF Rows
        <2>4. <<i, k>> \in RowTokens
            BY <1>2, <2>2, <2>3
        <2> QED
            BY <2>1, <2>2, <2>4
    <1>7. ExistsBijection(RowTokens, EventTokens)
        <2>1. event \in Injection(RowTokens, EventTokens)
            BY <1>4, <1>5 DEF Injection, IsInjective
        <2>2. event \in Surjection(RowTokens, EventTokens)
            BY <1>4, <1>6 DEF Surjection
        <2> QED
            BY <2>1, <2>2 DEF ExistsBijection, Bijection
    <1>8. Cardinality(EventTokens) = Cardinality(RowTokens)
        BY <1>7, RowTokensFinite, FS_Bijection
    <1> QED
        BY <1>8 DEF InputTokens, TokensOf, RowTokens, EventTokens

\* The sum of model_token_usage counts the tokens of each event_uuid once, but
\* for those whose events wait or were given up, for any events, timeouts,
\* faults and deaths.
THEOREM TokensCountedOnce == Spec => []UsageExact
    <1>1. PipelineInv => UsageExact
        BY RowsRepresent, SumOfRows DEF PipelineInv, UsageExact
    <1> QED
        BY <1>1, PipelineCorrect, PTL
============================================================================
