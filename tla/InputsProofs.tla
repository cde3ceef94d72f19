---------------------------- MODULE InputsProofs ----------------------------
(***************************************************************************)
(* Proofs about Inputs, for every call of the two commands: values of any  *)
(* length and any characters, files and argument lists of any length.      *)
(***************************************************************************)
EXTENDS Inputs, FiniteSetTheorems, SequenceTheorems, TLAPS

\* The least and the greatest of a set of positions.
LEMMA MinIs ==
    ASSUME NEW S \in SUBSET Nat, NEW a \in S, \A x \in S : a <= x
    PROVE  Min(S) = a
    <1>1. \A b \in S : (\A x \in S : b <= x) => b = a
        OBVIOUS
    <1> QED
        BY <1>1 DEF Min

LEMMA MaxIs ==
    ASSUME NEW S \in SUBSET Nat, NEW a \in S, \A x \in S : a >= x
    PROVE  Max(S) = a
    <1>1. \A b \in S : (\A x \in S : b >= x) => b = a
        OBVIOUS
    <1> QED
        BY <1>1 DEF Max

\* TrimSpace takes away what is space before and behind a text t.
LEMMA TrimmedAt ==
    ASSUME NEW t \in Seq(Char), NEW s \in Seq(Char), NEW d \in Nat,
           Len(s) >= Len(t) + d,
           \A i \in 1 .. Len(t) : s[d + i] = t[i],
           \A i \in 1 .. Len(s) : i <= d \/ i > Len(t) + d => s[i] = "space",
           Len(t) > 0 => t[1] # "space" /\ t[Len(t)] # "space"
    PROVE  Trimmed(s) = t
    <1> DEFINE ink == {i \in DOMAIN s : s[i] # "space"}
    <1>1. DOMAIN s = 1 .. Len(s) /\ Len(t) \in Nat /\ Len(s) \in Nat
        OBVIOUS
    <1>2. CASE Len(t) = 0
        <2>1. ink = {}
            BY <1>1, <1>2
        <2>2. t = <<>>
            BY <1>2
        <2> QED
            BY <2>1, <2>2 DEF Trimmed
    <1>3. CASE Len(t) > 0
        <2>1. d + 1 \in ink /\ Len(t) + d \in ink
            BY <1>1, <1>3
        <2>2. \A i \in ink : i \in Nat /\ d + 1 <= i /\ i <= Len(t) + d
            BY <1>1, <1>3
        <2>3. ink \in SUBSET Nat
            BY <2>2
        <2> HIDE DEF ink
        <2>4. Min(ink) = d + 1
            BY <2>1, <2>2, <2>3, MinIs
        <2>5. Max(ink) = Len(t) + d
            BY <2>1, <2>2, <2>3, MaxIs
        <2>6. Trimmed(s) = SubSeq(s, d + 1, Len(t) + d)
            BY <2>1, <2>4, <2>5 DEF Trimmed, ink
        <2>7. /\ SubSeq(s, d + 1, Len(t) + d) \in Seq(Char)
              /\ Len(SubSeq(s, d + 1, Len(t) + d)) = Len(t)
              /\ \A i \in 1 .. Len(t) : SubSeq(s, d + 1, Len(t) + d)[i] = s[d + i]
            BY <1>1, <1>3
        <2> QED
            BY <2>6, <2>7, SeqEqual
    <1> QED
        BY <1>1, <1>2, <1>3

\* It takes away the space around a text, and no more than that.
LEMMA TrimmedSpaces ==
    ASSUME NEW t \in Seq(Char), t # <<>> => t[1] # "space" /\ t[Len(t)] # "space",
           NEW s \in Around(t)
    PROVE  Trimmed(s) = t
    <1>1. <<"space">> \in Seq(Char) /\ Len(<<"space">>) = 1 /\ <<"space">>[1] = "space"
        BY CharAssumption
    <1>2. Len(t) > 0 => t[1] # "space" /\ t[Len(t)] # "space"
        OBVIOUS
    <1>3. CASE s = t
        <2>1. /\ Len(s) >= Len(t) + 0 /\ \A i \in 1 .. Len(t) : s[0 + i] = t[i]
              /\ \A i \in 1 .. Len(s) : i <= 0 \/ i > Len(t) + 0 => s[i] = "space"
            BY <1>3
        <2> QED
            BY <1>2, <1>3, <2>1, TrimmedAt
    <1>4. CASE s = <<"space">> \o t
        <2>1. /\ s \in Seq(Char) /\ Len(s) = Len(t) + 1 /\ s[1] = "space"
              /\ \A i \in 1 .. Len(t) : s[1 + i] = t[i]
            BY <1>1, <1>4, ConcatProperties
        <2>2. \A i \in 1 .. Len(s) : i <= 1 \/ i > Len(t) + 1 => s[i] = "space"
            BY <2>1
        <2> QED
            BY <1>2, <2>1, <2>2, TrimmedAt
    <1>5. CASE s = t \o <<"space">>
        <2>1. /\ s \in Seq(Char) /\ Len(s) = Len(t) + 1 /\ s[Len(t) + 1] = "space"
              /\ \A i \in 1 .. Len(t) : s[i] = t[i]
            BY <1>1, <1>5, ConcatProperties
        <2>2. \A i \in 1 .. Len(s) : i <= 0 \/ i > Len(t) + 0 => s[i] = "space"
            BY <2>1
        <2>3. Len(s) >= Len(t) + 0 /\ \A i \in 1 .. Len(t) : s[0 + i] = t[i]
            BY <2>1
        <2> QED
            BY <1>2, <2>1, <2>2, <2>3, TrimmedAt
    <1> QED
        BY <1>3, <1>4, <1>5 DEF Around

\* A pair of quotes around a text goes.
LEMMA UnquotedQuoted ==
    ASSUME NEW v \in Seq(Char), NEW q \in {"single", "double"}
    PROVE  /\ <<q>> \o v \o <<q>> \in Seq(Char)
           /\ LET t == <<q>> \o v \o <<q>>
              IN  t # <<>> /\ t[1] = q /\ t[Len(t)] = q /\ Unquoted(t) = v
    <1> DEFINE t == <<q>> \o v \o <<q>>
    <1>1. <<q>> \in Seq(Char) /\ Len(<<q>>) = 1 /\ <<q>>[1] = q
        BY CharAssumption
    <1>2. /\ <<q>> \o v \in Seq(Char) /\ Len(<<q>> \o v) = Len(v) + 1
          /\ (<<q>> \o v)[1] = q
          /\ \A i \in 1 .. Len(v) : (<<q>> \o v)[i + 1] = v[i]
        BY <1>1, ConcatProperties
    <1>3. /\ t \in Seq(Char) /\ Len(t) = Len(v) + 2 /\ t[1] = q /\ t[Len(v) + 2] = q
          /\ \A i \in 1 .. Len(v) : t[i + 1] = v[i]
        BY <1>1, <1>2, ConcatProperties
    <1> HIDE DEF t
    <1>4. Unquoted(t) = SubSeq(t, 2, Len(t) - 1)
        BY <1>3 DEF Unquoted
    <1>5. /\ SubSeq(t, 2, Len(t) - 1) \in Seq(Char)
          /\ Len(SubSeq(t, 2, Len(t) - 1)) = Len(v)
          /\ \A i \in 1 .. Len(v) : SubSeq(t, 2, Len(t) - 1)[i] = v[i]
        BY <1>3
    <1>6. Unquoted(t) = v
        BY <1>4, <1>5, SeqEqual
    <1>7. t # <<>>
        BY <1>3
    <1> QED
        BY <1>3, <1>6, <1>7 DEF t

\* However a value is spelled in a file, it is read as it is meant.
LEMMA SpellingMeans ==
    ASSUME NEW v \in Seq(Char), NEW s \in Spellings(v)
    PROVE  Unquoted(Trimmed(s)) = v
    <1> DEFINE quoted == {<<q>> \o v \o <<q>> : q \in {"single", "double"}}
    <1>1. PICK t \in quoted \cup (IF Bare(v) THEN {v} ELSE {}) : s \in Around(t)
        BY DEF Spellings
    <1>2. t \in quoted \/ (Bare(v) /\ t = v)
        BY <1>1
    <1>3. CASE t \in quoted
        <2>1. PICK q \in {"single", "double"} : t = <<q>> \o v \o <<q>>
            BY <1>3
        <2>2. t \in Seq(Char) /\ t[1] = q /\ t[Len(t)] = q /\ Unquoted(t) = v
            BY <2>1, UnquotedQuoted
        <2> QED
            BY <1>1, <2>2, TrimmedSpaces
    <1>4. CASE Bare(v) /\ t = v
        <2>1. v # <<>> => v[1] # "space" /\ v[Len(v)] # "space"
            BY <1>4 DEF Bare
        <2>2. Trimmed(s) = v
            BY <1>1, <1>4, <2>1, TrimmedSpaces
        <2>3. Unquoted(v) = v
            BY <1>4 DEF Unquoted, Bare
        <2> QED
            BY <2>2, <2>3
    <1> QED
        BY <1>2, <1>3, <1>4

----------------------------------------------------------------------------
(***************************************************************************)
(* Quoting: where each character of a value is in the connection string.   *)
(***************************************************************************)

LEMMA SpecialFinite ==
    ASSUME NEW v, NEW i \in Nat
    PROVE  /\ IsFiniteSet({j \in 1 .. i : v[j] \in Special})
           /\ Cardinality({j \in 1 .. i : v[j] \in Special}) \in Nat
    <1>1. IsFiniteSet(1 .. i)
        BY FS_Interval
    <1>2. IsFiniteSet({j \in 1 .. i : v[j] \in Special})
        BY <1>1, FS_Subset
    <1> QED
        BY <1>2, FS_CardinalityType

LEMMA PlaceType ==
    ASSUME NEW v, NEW i \in Nat
    PROVE  Place(v, i) \in Nat /\ Place(v, i) >= i
BY SpecialFinite DEF Place

\* Nothing is in front of the first character.
LEMMA PlaceZero ==
    ASSUME NEW v
    PROVE  Place(v, 0) = 0
    <1>1. {j \in 1 .. 0 : v[j] \in Special} = {}
        OBVIOUS
    <1> QED
        BY <1>1, FS_EmptySet DEF Place

\* A special character takes two places, any other one.
LEMMA PlaceNext ==
    ASSUME NEW v, NEW i \in Nat
    PROVE  Place(v, i + 1) = Place(v, i) + IF v[i + 1] \in Special THEN 2 ELSE 1
    <1> DEFINE S(n) == {j \in 1 .. n : v[j] \in Special}
    <1>1. IsFiniteSet(S(i)) /\ Cardinality(S(i)) \in Nat
        BY SpecialFinite
    <1>2. CASE v[i + 1] \in Special
        <2>1. S(i + 1) = S(i) \cup {i + 1} /\ i + 1 \notin S(i)
            BY <1>2
        <2>2. Cardinality(S(i + 1)) = Cardinality(S(i)) + 1
            BY <1>1, <2>1, FS_AddElement
        <2> QED
            BY <1>1, <1>2, <2>2 DEF Place
    <1>3. CASE v[i + 1] \notin Special
        <2>1. S(i + 1) = S(i)
            BY <1>3
        <2>2. Cardinality(S(i + 1)) = Cardinality(S(i))
            BY <2>1
        <2>3. Place(v, i + 1) = Place(v, i) + 1
            BY <1>1, <2>2 DEF Place
        <2> QED
            BY <1>3, <2>3
    <1> QED
        BY <1>2, <1>3

\* A later character has a later place.
LEMMA PlaceMonotone ==
    ASSUME NEW v, NEW i \in Nat, NEW j \in Nat, i < j
    PROVE  Place(v, i) < Place(v, j)
    <1> DEFINE S(n) == {l \in 1 .. n : v[l] \in Special}
    <1>1. IsFiniteSet(S(j)) /\ S(i) \subseteq S(j)
        BY SpecialFinite
    <1>2. Cardinality(S(i)) <= Cardinality(S(j))
        BY <1>1, FS_Subset
    <1>3. Cardinality(S(i)) \in Nat /\ Cardinality(S(j)) \in Nat
        BY SpecialFinite
    <1> QED
        BY <1>2, <1>3 DEF Place

\* Every character is in its place, and a special one has a backslash before it.
LEMMA EscapedAt ==
    ASSUME NEW v \in Seq(Char)
    PROVE  /\ Escaped(v) \in Seq(Char) /\ Len(Escaped(v)) = Place(v, Len(v))
           /\ \A i \in 1 .. Len(v) :
                  /\ Place(v, i) \in 1 .. Place(v, Len(v))
                  /\ Escaped(v)[Place(v, i)] = v[i]
                  /\ v[i] \in Special => Escaped(v)[Place(v, i) - 1] = "backslash"
    <1> DEFINE P == Place(v, Len(v))
    <1>1. P \in Nat /\ DOMAIN v = 1 .. Len(v) /\ Len(v) \in Nat
        BY PlaceType
    <1>2. ASSUME NEW i \in 1 .. Len(v), NEW j \in 1 .. Len(v), Place(v, i) = Place(v, j)
          PROVE  i = j
        <2>1. i < j \/ j < i \/ i = j
            OBVIOUS
        <2>2. Place(v, i) \in Nat /\ Place(v, j) \in Nat
            BY PlaceType
        <2> QED
            BY <1>2, <2>1, <2>2, PlaceMonotone
    <1>3. ASSUME NEW i \in 1 .. Len(v)
          PROVE  Place(v, i) \in 1 .. P
        <2>1. Place(v, i) \in Nat /\ Place(v, i) >= i
            BY PlaceType
        <2>2. CASE i = Len(v)
            BY <1>1, <2>1, <2>2
        <2>3. CASE i # Len(v)
            <3>1. Len(v) \in Nat /\ i < Len(v)
                BY <2>3
            <3>2. Place(v, i) < P
                BY <2>1, <3>1, PlaceMonotone
            <3> QED
                BY <1>1, <2>1, <3>2
        <2> QED
            BY <2>2, <2>3
    <1>4. ASSUME NEW i \in 1 .. Len(v)
          PROVE  Escaped(v)[Place(v, i)] = v[i]
        <2>1. (CHOOSE j \in DOMAIN v : Place(v, j) = Place(v, i)) = i
            BY <1>1, <1>2
        <2> QED
            BY <1>1, <1>3, <2>1 DEF Escaped
    <1>5. ASSUME NEW i \in 1 .. Len(v), v[i] \in Special
          PROVE  Escaped(v)[Place(v, i) - 1] = "backslash"
        <2>1. i - 1 \in Nat /\ (i - 1) + 1 = i
            BY <1>1
        <2>2. Place(v, i) = Place(v, i - 1) + 2
            BY <1>5, <2>1, PlaceNext
        <2>3. Place(v, i - 1) \in Nat
            BY <2>1, PlaceType
        <2>4. ASSUME NEW j \in 1 .. Len(v), Place(v, j) = Place(v, i - 1) + 1
              PROVE  FALSE
            <3>1. j < i - 1 \/ j = i - 1 \/ j = i \/ i < j
                BY <2>1
            <3>2. Place(v, j) < Place(v, i) /\ Place(v, i - 1) < Place(v, j)
                BY <2>2, <2>3, <2>4
            <3>3. Place(v, j) \in Nat /\ Place(v, i) \in Nat
                BY <2>2, <2>3, <2>4
            <3> QED
                BY <2>1, <2>3, <3>1, <3>2, <3>3, PlaceMonotone
        <2>5. Place(v, i) - 1 \in 1 .. P
            BY <1>1, <1>3, <2>2, <2>3
        <2>6. ~ \E j \in DOMAIN v : Place(v, j) = Place(v, i) - 1
            BY <1>1, <2>2, <2>3, <2>4
        <2> QED
            BY <2>5, <2>6 DEF Escaped
    <1>6. ASSUME NEW p \in 1 .. P
          PROVE  Escaped(v)[p] \in Char
        <2>1. CASE \E i \in DOMAIN v : Place(v, i) = p
            BY <1>1, <1>4, <2>1
        <2>2. CASE ~ \E i \in DOMAIN v : Place(v, i) = p
            BY <2>2, CharAssumption DEF Escaped
        <2> QED
            BY <2>1, <2>2
    <1>7. Escaped(v) \in Seq(Char) /\ Len(Escaped(v)) = P
        <2>1. Escaped(v) = [p \in 1 .. P |-> Escaped(v)[p]]
            BY DEF Escaped
        <2> QED
            BY <1>1, <1>6, <2>1
    <1> QED
        BY <1>3, <1>4, <1>5, <1>7

LEMMA JoinAt ==
    ASSUME NEW S, NEW s \in Seq(S), NEW t \in Seq(S)
    PROVE  /\ s \o t \in Seq(S) /\ Len(s \o t) = Len(s) + Len(t)
           /\ \A p \in 1 .. Len(s) : (s \o t)[p] = s[p]
           /\ \A p \in 1 .. Len(t) : (s \o t)[Len(s) + p] = t[p]
BY ConcatProperties

\* A quoted value is its escaped text between quotes, any other is as it is.
LEMMA ConninfoAt ==
    ASSUME NEW v \in Seq(Char)
    PROVE  /\ EscapeConninfo(v) \in Seq(Char) /\ Len(EscapeConninfo(v)) > 0
           /\ ~ NeedsQuotes(v) => EscapeConninfo(v) = v
           /\ NeedsQuotes(v) =>
                  /\ Len(EscapeConninfo(v)) = Place(v, Len(v)) + 2
                  /\ EscapeConninfo(v)[1] = "single"
                  /\ EscapeConninfo(v)[Place(v, Len(v)) + 2] = "single"
                  /\ \A p \in 1 .. Place(v, Len(v)) :
                         EscapeConninfo(v)[p + 1] = Escaped(v)[p]
    <1>1. CASE ~ NeedsQuotes(v)
        <2>1. v # <<>>
            BY <1>1 DEF NeedsQuotes
        <2>2. EscapeConninfo(v) = v
            BY <1>1 DEF EscapeConninfo
        <2> QED
            BY <1>1, <2>1, <2>2
    <1>2. CASE NeedsQuotes(v)
        <2> DEFINE q == <<"single">>
                   e == Escaped(v)
        <2>1. q \in Seq(Char) /\ Len(q) = 1 /\ q[1] = "single"
            BY CharAssumption
        <2>2. e \in Seq(Char) /\ Len(e) = Place(v, Len(v)) /\ Len(e) \in Nat
            BY EscapedAt
        <2> HIDE DEF q, e
        <2> DEFINE c == q \o e
        <2>3. /\ c \in Seq(Char) /\ Len(c) = Len(q) + Len(e)
              /\ \A p \in 1 .. Len(q) : c[p] = q[p]
              /\ \A p \in 1 .. Len(e) : c[Len(q) + p] = e[p]
            <3>1. q \in Seq(Char) /\ e \in Seq(Char)
                BY <2>1, <2>2
            <3> QED
                BY <3>1, JoinAt
        <2> HIDE DEF c
        <2> DEFINE d == c \o q
        <2>4. /\ d \in Seq(Char) /\ Len(d) = Len(c) + Len(q)
              /\ \A p \in 1 .. Len(c) : d[p] = c[p]
              /\ \A p \in 1 .. Len(q) : d[Len(c) + p] = q[p]
            BY <2>1, <2>3, JoinAt
        <2> HIDE DEF d
        <2>5. \A p \in 1 .. Len(e) : d[p + 1] = e[p]
            <3> SUFFICES ASSUME NEW p \in 1 .. Len(e)
                         PROVE  d[p + 1] = e[p]
                OBVIOUS
            <3>1. p + 1 = Len(q) + p /\ p + 1 \in 1 .. Len(c)
                BY <2>1, <2>2, <2>3
            <3> QED
                BY <2>3, <2>4, <3>1
        <2>6. Len(d) = Len(e) + 2 /\ d[1] = "single" /\ d[Len(e) + 2] = "single"
            BY <2>1, <2>2, <2>3, <2>4
        <2>7. EscapeConninfo(v) = d
            BY <1>2 DEF EscapeConninfo, q, e, c, d
        <2> QED
            BY <1>2, <2>2, <2>4, <2>5, <2>6, <2>7 DEF e
    <1> QED
        BY <1>1, <1>2

Written(k) == EscapeConninfo(LoadConf(k))

\* Where the keywords and the values are in the connection string.
LEMMA ConnectionStringAt ==
    ASSUME LoadConf("password") \in Seq(Char), LoadConf("dbname") \in Seq(Char)
    PROVE  /\ Starts("password") = 2 /\ Starts("dbname") = Len(Written("password")) + 4
           /\ Len(Written("password")) \in Nat \ {0} /\ Len(Written("dbname")) \in Nat \ {0}
           /\ Len(ConnectionString) = Len(Written("password")) + Len(Written("dbname")) + 3
           /\ ConnectionString[1] = "password"
           /\ ConnectionString[Len(Written("password")) + 2] = "space"
           /\ ConnectionString[Len(Written("password")) + 3] = "dbname"
           /\ \A k \in Setting : \A p \in 1 .. Len(Written(k)) :
                  ConnectionString[Starts(k) + p - 1] = Written(k)[p]
    <1> DEFINE a == EscapeConninfo(LoadConf("password"))
               b == EscapeConninfo(LoadConf("dbname"))
               All == Char \cup Setting
               u == <<"password">>
               w == <<"space">>
               x == <<"dbname">>
    <1>1. a \in Seq(Char) /\ Len(a) > 0 /\ b \in Seq(Char) /\ Len(b) > 0
        BY ConninfoAt
    <1>2. a \in Seq(All) /\ Len(a) \in Nat /\ b \in Seq(All) /\ Len(b) \in Nat
        BY <1>1
    <1>3. /\ u \in Seq(All) /\ Len(u) = 1 /\ u[1] = "password"
          /\ w \in Seq(All) /\ Len(w) = 1 /\ w[1] = "space"
          /\ x \in Seq(All) /\ Len(x) = 1 /\ x[1] = "dbname"
        BY CharAssumption DEF Setting
    <1>4. Starts("password") = 2 /\ Starts("dbname") = Len(a) + 4
        BY DEF Starts
    <1>5. ConnectionString = u \o a \o w \o x \o b
        BY DEF ConnectionString
    <1> HIDE DEF a, b, All, u, w, x
    <1> DEFINE c == u \o a
    <1>6. /\ c \in Seq(All) /\ Len(c) = Len(u) + Len(a)
          /\ \A p \in 1 .. Len(u) : c[p] = u[p]
          /\ \A p \in 1 .. Len(a) : c[Len(u) + p] = a[p]
        <2>1. u \in Seq(All) /\ a \in Seq(All)
            BY <1>2, <1>3
        <2> QED
            BY <2>1, JoinAt
    <1> HIDE DEF c
    <1> DEFINE d == c \o w
    <1>7. /\ d \in Seq(All) /\ Len(d) = Len(c) + Len(w)
          /\ \A p \in 1 .. Len(c) : d[p] = c[p]
          /\ \A p \in 1 .. Len(w) : d[Len(c) + p] = w[p]
        <2>1. c \in Seq(All) /\ w \in Seq(All)
            BY <1>3, <1>6
        <2> QED
            BY <2>1, JoinAt
    <1> HIDE DEF d
    <1> DEFINE e == d \o x
    <1>8. /\ e \in Seq(All) /\ Len(e) = Len(d) + Len(x)
          /\ \A p \in 1 .. Len(d) : e[p] = d[p]
          /\ \A p \in 1 .. Len(x) : e[Len(d) + p] = x[p]
        <2>1. d \in Seq(All) /\ x \in Seq(All)
            BY <1>3, <1>7
        <2> QED
            BY <2>1, JoinAt
    <1> HIDE DEF e
    <1> DEFINE f == e \o b
    <1>9. /\ Len(f) = Len(e) + Len(b)
          /\ \A p \in 1 .. Len(e) : f[p] = e[p]
          /\ \A p \in 1 .. Len(b) : f[Len(e) + p] = b[p]
        <2>1. e \in Seq(All) /\ b \in Seq(All)
            BY <1>2, <1>8
        <2> QED
            BY <2>1, JoinAt
    <1> HIDE DEF f
    <1>10. ConnectionString = f
        BY <1>5 DEF c, d, e, f
    <1>11. Len(c) = Len(a) + 1 /\ Len(d) = Len(a) + 2 /\ Len(e) = Len(a) + 3
        BY <1>2, <1>3, <1>6, <1>7, <1>8
    <1>12. f[1] = "password" /\ f[Len(a) + 2] = "space" /\ f[Len(a) + 3] = "dbname"
        <2>1. f[1] = "password"
            BY <1>2, <1>3, <1>6, <1>7, <1>8, <1>9, <1>11
        <2>2. f[Len(a) + 2] = "space"
            BY <1>2, <1>3, <1>7, <1>8, <1>9, <1>11
        <2>3. f[Len(a) + 3] = "dbname"
            BY <1>2, <1>3, <1>8, <1>9, <1>11
        <2> QED
            BY <2>1, <2>2, <2>3
    <1>13. \A p \in 1 .. Len(a) : f[2 + p - 1] = a[p]
        <2> SUFFICES ASSUME NEW p \in 1 .. Len(a)
                     PROVE  f[2 + p - 1] = a[p]
            OBVIOUS
        <2>1. /\ 2 + p - 1 = Len(u) + p /\ Len(u) + p \in 1 .. Len(c)
              /\ Len(u) + p \in 1 .. Len(d) /\ Len(u) + p \in 1 .. Len(e)
            BY <1>2, <1>3, <1>11
        <2> QED
            BY <1>6, <1>7, <1>8, <1>9, <2>1
    <1>16. \A p \in 1 .. Len(b) : f[Len(a) + 4 + p - 1] = b[p]
        <2> SUFFICES ASSUME NEW p \in 1 .. Len(b)
                     PROVE  f[Len(a) + 4 + p - 1] = b[p]
            OBVIOUS
        <2>1. Len(a) + 4 + p - 1 = Len(e) + p
            BY <1>2, <1>11
        <2> QED
            BY <1>9, <2>1
    <1>14. Written("password") = a /\ Written("dbname") = b
        BY DEF Written, a, b
    <1>15. ASSUME NEW k \in Setting, NEW p \in 1 .. Len(Written(k))
           PROVE  ConnectionString[Starts(k) + p - 1] = Written(k)[p]
        <2>1. CASE k = "password"
            BY <1>4, <1>10, <1>13, <1>14, <1>15, <2>1
        <2>2. CASE k = "dbname"
            BY <1>4, <1>10, <1>14, <1>15, <1>16, <2>2
        <2> QED
            BY <2>1, <2>2 DEF Setting
    <1> QED
        BY <1>1, <1>2, <1>4, <1>9, <1>10, <1>11, <1>12, <1>14, <1>15

----------------------------------------------------------------------------
(***************************************************************************)
(* The inductive invariant, part by part.                                  *)
(***************************************************************************)

\* What a call is.
LEMMA CallIs ==
    ASSUME call \in Call
    PROVE  /\ call.cmd \in {"emit", "install"}
           /\ call.env \in [Key -> Seq(Char)] /\ call.set \subseteq 1 .. 4
           /\ call.disabled \in BOOLEAN /\ call.usable \in BOOLEAN
           /\ call.content \in Seq(ToSet(call.content)) /\ Len(call.content) \in Nat
           /\ call.given \in Seq(ToSet(call.given)) /\ Len(call.given) \in Nat
           /\ \A i \in 1 .. Len(call.content) :
                  LET l == call.content[i]
                  IN  \/ l.kind \in {"note", "long"}
                      \/ /\ l.kind = "pair" /\ l.key \in Key
                         /\ l.means \in Seq(Char) /\ l.value \in Spellings(l.means)
                         /\ l.left \in {<<l.key>>, <<"export", l.key>>}
           /\ \A i \in 1 .. Len(call.given) : call.given[i].kind \in {"pair", "note"}
    <1>1. /\ call.content \in Seq(ToSet(call.content))
          /\ call.given \in Seq(ToSet(call.given))
        BY CallAssumption
    <1>2. /\ DOMAIN call.content = 1 .. Len(call.content) /\ Len(call.content) \in Nat
          /\ DOMAIN call.given = 1 .. Len(call.given) /\ Len(call.given) \in Nat
        BY <1>1
    <1>3. /\ \A i \in 1 .. Len(call.content) : call.content[i] \in ToSet(call.content)
          /\ \A i \in 1 .. Len(call.given) : call.given[i] \in ToSet(call.given)
        BY <1>2 DEF ToSet
    <1> QED
        BY <1>1, <1>2, <1>3, CallAssumption

LEMMA InitInv ==
    ASSUME Init
    PROVE  InputsInv
    <1> USE DEF Init
    <1>1. DOMAIN kv = {}
        OBVIOUS
    <1>2. WayOK /\ MergedOK /\ SourceOK /\ CompleteOK /\ DriverOK
        BY DEF WayOK, MergedOK, SourceOK, CompleteOK, DriverOK
    <1>3. GatheredOK
        BY <1>1 DEF GatheredOK, FileRead
    <1> QED
        BY <1>2, <1>3 DEF InputsInv, Stage

\* Every step moves on a command's own way.
LEMMA WayStep ==
    ASSUME InputsInv, [Next]_vars
    PROVE  call' \in Call /\ stage' \in Stage /\ name' \in Setting \cup {"none"} /\ WayOK'
    <1> DEFINE Goal == /\ call' \in Call /\ stage' \in Stage /\ name' \in Setting \cup {"none"}
                       /\ WayOK'
    <1> USE DEF InputsInv, WayOK, Stage, Ended
    <1>0. call.cmd \in {"emit", "install"}
        BY CallIs
    <1>1. CASE ReturnAtOnce
        BY <1>0, <1>1 DEF ReturnAtOnce
    <1>2. CASE Build
        BY <1>0, <1>2 DEF Build
    <1>3. CASE MergeArg
        BY <1>3 DEF MergeArg, Reads
    <1>4. CASE DsnOfEnv
        BY <1>4 DEF DsnOfEnv, AllRead
    <1>5. CASE OpenFile
        BY <1>0, <1>5 DEF OpenFile, AllRead
    <1>6. CASE ScanLine
        BY <1>6 DEF ScanLine, Reads
    <1>7. CASE ScanFails
        BY <1>7 DEF ScanFails
    <1>8. CASE DsnOfFile
        BY <1>8 DEF DsnOfFile, AllRead
    <1>9. CASE Incomplete \/ Connect
        BY <1>9 DEF Incomplete, Connect, AllRead
    <1>10. CASE ReadSpace
        BY <1>0, <1>10 DEF ReadSpace, Reads
    <1>11. CASE ReadKeyword
        BY <1>0, <1>11 DEF ReadKeyword, Reads
    <1>12. CASE ReadQuote
        BY <1>0, <1>12 DEF ReadQuote, Reads
    <1>13. CASE ReadEscape
        BY <1>0, <1>13 DEF ReadEscape
    <1>14. CASE ReadCharacter
        BY <1>0, <1>14 DEF ReadCharacter, Reads
    <1>15. CASE ReadEnd
        BY <1>0, <1>15 DEF ReadEnd
    <1>16. CASE UNCHANGED vars
        BY <1>16 DEF vars
    <1> QED
        BY <1>1, <1>2, <1>3, <1>4, <1>5, <1>6, <1>7, <1>8, <1>9, <1>10, <1>11,
           <1>12, <1>13, <1>14, <1>15, <1>16 DEF Next, Driver

\* What the steps of the driver, and any that does not move, leave alone.
LEMMA DriverFrame ==
    ASSUME Driver \/ UNCHANGED vars
    PROVE  UNCHANGED <<call, text, kv, event>>
BY DEF Driver, ReadSpace, ReadKeyword, ReadQuote, ReadEscape, ReadCharacter, ReadEnd, Reads, vars

LEMMA SourceStep ==
    ASSUME InputsInv, [Next]_vars
    PROVE  SourceOK'
    <1> USE DEF InputsInv, WayOK, SourceOK
    <1>0. call.cmd \in {"emit", "install"}
        BY CallIs
    <1>1. CASE ReturnAtOnce
        BY <1>1 DEF ReturnAtOnce
    <1>2. CASE Build \/ MergeArg \/ OpenFile \/ ScanLine \/ ScanFails
        BY <1>2 DEF Build, MergeArg, OpenFile, ScanLine, ScanFails, Reads
    <1>4. CASE DsnOfEnv
        BY <1>4 DEF DsnOfEnv
    <1>8. CASE DsnOfFile
        BY <1>8 DEF DsnOfFile, AllRead
    <1>9. CASE Incomplete \/ Connect
        BY <1>9 DEF Incomplete, Connect, AllRead
    <1>10. CASE Driver
        <2>1. stage \in {"keyword", "value", "plain", "quoted"}
            BY <1>10 DEF Driver, ReadSpace, ReadKeyword, ReadQuote, ReadEscape,
                         ReadCharacter, ReadEnd, Reads
        <2>2. call.cmd = "install" /\ call' = call
            BY <1>0, <1>10, <2>1, DriverFrame
        <2> QED
            BY <2>2
    <1>16. CASE UNCHANGED vars
        BY <1>16 DEF vars
    <1> QED
        BY <1>1, <1>2, <1>4, <1>8, <1>9, <1>10, <1>16 DEF Next

LEMMA NamedZero ==
    ASSUME NEW s
    PROVE  Named(s, 0) = {}
BY DEF Named

LEMMA NamedNext ==
    ASSUME NEW s, NEW n \in Nat
    PROVE  Named(s, n + 1) =
               Named(s, n) \cup (IF s[n + 1].kind = "pair" THEN {s[n + 1].key} ELSE {})
    <1> DEFINE At(m) == {j \in 1 .. m : s[j].kind = "pair"}
    <1>1. At(n + 1) = At(n) \cup (IF s[n + 1].kind = "pair" THEN {n + 1} ELSE {})
        OBVIOUS
    <1>2. \A m : Named(s, m) = {s[i].key : i \in At(m)}
        BY DEF Named
    <1> HIDE DEF At
    <1> QED
        BY <1>1, <1>2

\* One more pair for k is the last one, and anything else leaves the last one.
LEMMA LastNext ==
    ASSUME NEW s, NEW n \in Nat, NEW k
    PROVE  /\ Says(s, n + 1, k) => LastOf(s, n + 1, n + 1, k)
           /\ ~ Says(s, n + 1, k) =>
                  \A i \in 1 .. n : LastOf(s, n, i, k) => LastOf(s, n + 1, i, k)
BY DEF LastOf

LEMMA MergedStep ==
    ASSUME InputsInv, [Next]_vars
    PROVE  MergedOK'
    <1> USE DEF InputsInv
    <1>0. /\ call.cmd \in {"emit", "install"}
          /\ call.disabled \in BOOLEAN /\ call.usable \in BOOLEAN
          /\ Len(call.given) \in Nat /\ \A i \in 1 .. Len(call.given) : call.given[i].kind \in {"pair", "note"}
        BY CallIs
    <1>1. CASE ReturnAtOnce
        BY <1>1 DEF ReturnAtOnce, MergedOK
    <1>2. CASE Build
        <2>1. /\ call' = call /\ stage' = "build" /\ text' = call.given /\ pos' = 1
              /\ event' = AutoFields /\ AutoFields' = AutoFields
            BY <1>2 DEF Build, Opens, AutoFields, SessionID
        <2>2. pos' - 1 = 0 /\ pos' \in 1 .. Len(call.given) + 1
            BY <1>0, <2>1
        <2>3. Named(call.given, 0) = {}
            BY NamedZero
        <2>4. \A i \in 1 .. 0 : FALSE
            OBVIOUS
        <2> HIDE <1>0 DEF InputsInv
        <2> QED
            BY <2>1, <2>2, <2>3, <2>4 DEF MergedOK
    <1>3. CASE MergeArg
        <2> DEFINE s == call.given
                   n == pos - 1
                   a == s[n + 1]
        <2>1. /\ stage = "build" /\ stage' = "build" /\ call' = call /\ text' = text
              /\ AutoFields' = AutoFields /\ pos' = pos + 1 /\ pos <= Len(text)
            BY <1>3 DEF MergeArg, Reads, AutoFields, SessionID
        <2>2. call.cmd = "emit" /\ ~ call.disabled /\ call.usable
            BY <1>0, <2>1 DEF WayOK
        <2>3. text = s /\ pos \in 1 .. Len(s) /\ n \in Nat /\ n + 1 = pos /\ pos' - 1 = n + 1
            BY <1>0, <2>1, <2>2 DEF MergedOK
        <2>4. /\ a.kind \in {"pair", "note"}
              /\ event' = IF a.kind = "note" THEN event ELSE Assigned(event, a.key, a.value)
            BY <1>0, <1>3, <2>3 DEF MergeArg, This
        <2>5. /\ DOMAIN event = DOMAIN AutoFields \cup Named(s, n)
              /\ \A f \in DOMAIN event :
                     \/ \E i \in 1 .. n : LastOf(s, n, i, f) /\ event[f] = s[i].value
                     \/ /\ f \in DOMAIN AutoFields /\ event[f] = AutoFields[f]
                        /\ \A i \in 1 .. n : ~ Says(s, i, f)
            BY <2>1, <2>2 DEF MergedOK
        <2> HIDE DEF n
        <2>6. DOMAIN event' = DOMAIN AutoFields \cup Named(s, n + 1)
            <3>1. CASE a.kind = "note"
                BY <2>3, <2>4, <2>5, <3>1, NamedNext
            <3>2. CASE a.kind = "pair"
                <4>1. DOMAIN event' = DOMAIN event \cup {a.key}
                    BY <2>4, <3>2 DEF Assigned
                <4> QED
                    BY <2>3, <2>5, <3>2, <4>1, NamedNext
            <3> QED
                BY <2>4, <3>1, <3>2
        <2>7. ASSUME NEW f \in DOMAIN event'
              PROVE  \/ \E i \in 1 .. n + 1 : LastOf(s, n + 1, i, f) /\ event'[f] = s[i].value
                     \/ /\ f \in DOMAIN AutoFields /\ event'[f] = AutoFields[f]
                        /\ \A i \in 1 .. n + 1 : ~ Says(s, i, f)
            <3>1. CASE Says(s, n + 1, f)
                <4>1. LastOf(s, n + 1, n + 1, f) /\ n + 1 \in 1 .. n + 1
                    BY <2>3, <3>1, LastNext
                <4>2. event'[f] = a.value
                    BY <2>4, <2>7, <3>1 DEF Says, Assigned
                <4> QED
                    BY <4>1, <4>2
            <3>2. CASE ~ Says(s, n + 1, f)
                <4>1. f \in DOMAIN event /\ event'[f] = event[f]
                    BY <2>4, <2>7, <3>2 DEF Says, Assigned
                <4>2. CASE \E i \in 1 .. n : LastOf(s, n, i, f) /\ event[f] = s[i].value
                    BY <2>3, <3>2, <4>1, <4>2, LastNext
                <4>3. CASE /\ f \in DOMAIN AutoFields /\ event[f] = AutoFields[f]
                           /\ \A i \in 1 .. n : ~ Says(s, i, f)
                    <5>1. \A i \in 1 .. n + 1 : i \in 1 .. n \/ i = n + 1
                        BY <2>3
                    <5> QED
                        BY <3>2, <4>1, <4>3, <5>1
                <4> QED
                    BY <2>5, <4>1, <4>2, <4>3
            <3> QED
                BY <3>1, <3>2
        <2>8. pos' \in 1 .. Len(text') + 1
            BY <1>0, <2>1, <2>3
        <2> QED
            BY <2>1, <2>3, <2>6, <2>7, <2>8 DEF MergedOK
    <1>4. ASSUME stage' # "build", stage # "build" \/ pos = Len(text) + 1, stage # "start",
                 UNCHANGED <<call, event>>
          PROVE  MergedOK'
        <2>1. AutoFields' = AutoFields
            BY <1>4 DEF AutoFields, SessionID
        <2>2. (call.cmd = "emit" /\ ~ call.disabled /\ call.usable /\ stage = "build") =>
                  Len(call.given) = pos - 1
            BY <1>0, <1>4 DEF MergedOK
        <2> QED
            BY <1>4, <2>1, <2>2 DEF MergedOK
    <1>5. CASE DsnOfEnv \/ OpenFile
        <2>1. CASE stage = "build"
            <3>1. call.cmd = "emit" /\ ~ call.disabled /\ call.usable
                BY <1>0, <2>1 DEF WayOK
            <3>2. text = call.given /\ pos \in 1 .. Len(text) + 1 /\ pos > Len(text)
                BY <1>5, <2>1, <3>1 DEF DsnOfEnv, OpenFile, AllRead, MergedOK
            <3>3. pos = Len(text) + 1
                BY <1>0, <3>2
            <3> QED
                BY <1>4, <1>5, <2>1, <3>3 DEF DsnOfEnv, OpenFile
        <2>2. CASE stage # "build"
            BY <1>5, <2>2 DEF DsnOfEnv, OpenFile, AllRead, MergedOK
        <2> QED
            BY <2>1, <2>2
    <1>6. CASE ScanLine \/ ScanFails \/ DsnOfFile \/ Incomplete \/ Connect
        BY <1>4, <1>6 DEF ScanLine, ScanFails, DsnOfFile, Incomplete, Connect, Reads, AllRead
    <1>7. CASE Driver
        BY <1>4, <1>7 DEF Driver, ReadSpace, ReadKeyword, ReadQuote, ReadEscape,
                          ReadCharacter, ReadEnd, Reads
    <1>8. CASE UNCHANGED vars
        <2>1. AutoFields' = AutoFields
            BY <1>8 DEF AutoFields, SessionID, vars
        <2> QED
            BY <1>8, <2>1 DEF MergedOK, vars
    <1> QED
        BY <1>1, <1>2, <1>3, <1>5, <1>6, <1>7, <1>8 DEF Next

LEMMA GatheredStep ==
    ASSUME InputsInv, [Next]_vars
    PROVE  GatheredOK'
    <1> USE DEF InputsInv
    <1> DEFINE s == call.content
    <1>0. /\ call.cmd \in {"emit", "install"}
          /\ call.disabled \in BOOLEAN /\ call.usable \in BOOLEAN /\ Len(s) \in Nat
        BY CallIs
    <1>1. CASE ReturnAtOnce
        <2>1. /\ call' = call /\ kv' = kv /\ stage' = "silent"
              /\ call.cmd = "emit" /\ (call.disabled \/ ~ call.usable)
            BY <1>1 DEF ReturnAtOnce
        <2> QED
            BY <2>1 DEF GatheredOK, FileRead
    <1>2. CASE Build \/ MergeArg
        <2>1. call' = call /\ kv' = kv /\ stage \in {"start", "build"} /\ stage' = "build"
            BY <1>2 DEF Build, MergeArg, Reads
        <2> QED
            BY <2>1 DEF GatheredOK, FileRead
    <1>3. CASE DsnOfEnv
        <2>1. /\ call' = call /\ kv' = kv /\ stage = "build" /\ stage' = "connect"
              /\ call.env["dsn"] # <<>>
            BY <1>3 DEF DsnOfEnv, AllRead
        <2>2. call.cmd = "emit"
            BY <1>0, <2>1 DEF WayOK
        <2> QED
            BY <2>1, <2>2 DEF GatheredOK, FileRead
    <1>4. CASE OpenFile
        <2>1. /\ call' = call /\ kv' = kv /\ stage \in {"start", "build"} /\ stage' = "scan"
              /\ text' = s /\ pos' = 1
            BY <1>4 DEF OpenFile, AllRead, Opens
        <2>2. kv = <<>> /\ DOMAIN kv = {}
            BY <2>1 DEF GatheredOK
        <2>3. Named(s, 0) = {}
            BY NamedZero
        <2>4. pos' - 1 = 0 /\ pos' \in 1 .. Len(s) + 1
            BY <1>0, <2>1
        <2>5. (Gathered(pos - 1))'
            BY <2>1, <2>2, <2>3, <2>4 DEF Gathered
        <2> QED
            BY <2>1, <2>2, <2>4, <2>5 DEF GatheredOK, FileRead
    <1>5. CASE ScanLine
        <2> DEFINE n == pos - 1
                   l == s[n + 1]
        <2>1. /\ stage = "scan" /\ stage' = "scan" /\ call' = call /\ text' = text
              /\ pos' = pos + 1 /\ pos <= Len(text) /\ text = s /\ pos \in 1 .. Len(text) + 1
              /\ Gathered(n) /\ DOMAIN kv \subseteq Key
              /\ \A k \in DOMAIN kv : kv[k] \in Seq(Char)
            BY <1>5 DEF ScanLine, Reads, GatheredOK
        <2>2. n \in Nat /\ n + 1 = pos /\ pos' - 1 = n + 1 /\ pos' \in 1 .. Len(text') + 1
            BY <1>0, <2>1
        <2>3. \/ l.kind = "note"
              \/ /\ l.kind = "pair" /\ l.key \in Key
                 /\ l.means \in Seq(Char) /\ l.value \in Spellings(l.means)
                 /\ l.left \in {<<l.key>>, <<"export", l.key>>}
            <3>1. l.kind # "long" /\ n + 1 \in 1 .. Len(s)
                BY <1>0, <1>5, <2>1, <2>2 DEF ScanLine, This
            <3> QED
                BY <3>1, CallIs
        <2>4. kv' = IF l.kind = "note" THEN kv ELSE Assigned(kv, l.key, l.means)
            <3>1. CASE l.kind = "note"
                BY <1>5, <2>1, <2>2, <3>1 DEF ScanLine, This
            <3>2. CASE l.kind # "note"
                <4>1. Unquoted(Trimmed(l.value)) = l.means
                    BY <2>3, <3>2, SpellingMeans
                <4>2. NameOf(l.left) = l.key
                    <5>1. Last(<<l.key>>) = l.key /\ Last(<<"export", l.key>>) = l.key
                        BY DEF Last
                    <5> QED
                        BY <2>3, <3>2, <5>1 DEF NameOf
                <4> QED
                    BY <1>5, <2>1, <2>2, <3>2, <4>1, <4>2 DEF ScanLine, This
            <3> QED
                BY <3>1, <3>2
        <2> HIDE DEF n
        <2>5. DOMAIN kv' \subseteq Key /\ \A k \in DOMAIN kv' : kv'[k] \in Seq(Char)
            BY <2>1, <2>3, <2>4 DEF Assigned
        <2>6. ASSUME Legible
              PROVE  DOMAIN kv' = Named(s, n + 1)
            <3>1. DOMAIN kv = Named(s, n)
                BY <2>1, <2>6 DEF Gathered
            <3>2. CASE l.kind = "note"
                <4> HIDE DEF InputsInv
                <4>1. Named(s, n + 1) = Named(s, n)
                    <5>1. l.kind # "pair"
                        BY <3>2
                    <5>2. Named(s, n + 1) = Named(s, n) \cup {}
                        BY <2>2, <5>1, NamedNext
                    <5> QED
                        BY <5>2
                <4> QED
                    BY <2>4, <3>1, <3>2, <4>1
            <3>3. CASE l.kind = "pair"
                <4>1. DOMAIN kv' = DOMAIN kv \cup {l.key}
                    BY <2>4, <3>3 DEF Assigned
                <4> QED
                    BY <2>2, <3>1, <3>3, <4>1, NamedNext
            <3> QED
                BY <2>3, <3>2, <3>3
        <2>7. ASSUME Legible, NEW k \in DOMAIN kv'
              PROVE  \E i \in 1 .. n + 1 : LastOf(s, n + 1, i, k) /\ kv'[k] = s[i].means
            <3>1. CASE Says(s, n + 1, k)
                <4>1. LastOf(s, n + 1, n + 1, k) /\ n + 1 \in 1 .. n + 1
                    BY <2>2, <3>1, LastNext
                <4>2. kv'[k] = l.means
                    BY <2>4, <2>7, <3>1 DEF Says, Assigned
                <4> QED
                    BY <4>1, <4>2
            <3>2. CASE ~ Says(s, n + 1, k)
                <4>1. k \in DOMAIN kv /\ kv'[k] = kv[k]
                    BY <2>3, <2>4, <2>7, <3>2 DEF Says, Assigned
                <4>2. PICK i \in 1 .. n : LastOf(s, n, i, k) /\ kv[k] = s[i].means
                    BY <2>1, <2>7, <4>1 DEF Gathered
                <4>3. LastOf(s, n + 1, i, k) /\ i \in 1 .. n + 1
                    BY <2>2, <3>2, <4>2, LastNext
                <4> QED
                    BY <4>1, <4>2, <4>3
            <3> QED
                BY <3>1, <3>2
        <2>8. Legible' = Legible
            BY <2>1 DEF Legible
        <2>9. (Gathered(pos - 1))'
            BY <2>1, <2>2, <2>6, <2>7, <2>8 DEF Gathered
        <2> QED
            BY <2>1, <2>2, <2>5, <2>9 DEF GatheredOK, FileRead
    <1>6. CASE ScanFails
        <2>1. /\ stage = "scan" /\ stage' = "scan" /\ call' = call /\ kv' = kv /\ text' = text
              /\ pos' = Len(text) + 1 /\ text = s /\ pos \in 1 .. Len(text) /\ This.kind = "long"
            BY <1>0, <1>6 DEF ScanFails, GatheredOK
        <2>2. ~ Legible
            <3>1. s \in Seq(ToSet(s)) /\ DOMAIN s = 1 .. Len(s)
                BY CallIs
            <3> QED
                BY <2>1, <3>1 DEF Legible, This, ToSet
        <2>3. Legible' = Legible
            BY <2>1 DEF Legible
        <2>4. pos' \in 1 .. Len(text') + 1
            BY <1>0, <2>1
        <2>5. (Gathered(pos - 1))'
            BY <2>2, <2>3 DEF Gathered
        <2> QED
            BY <2>1, <2>4, <2>5 DEF GatheredOK, FileRead
    <1>7. CASE DsnOfFile \/ Incomplete \/ Connect
        <2>1. /\ stage = "scan" /\ stage' \notin {"start", "build", "scan"}
              /\ call' = call /\ kv' = kv /\ pos > Len(text)
            BY <1>7 DEF DsnOfFile, Incomplete, Connect, AllRead
        <2>2. text = s /\ pos \in 1 .. Len(text) + 1 /\ Gathered(pos - 1)
            BY <2>1 DEF GatheredOK
        <2>3. pos - 1 = Len(s)
            BY <1>0, <2>1, <2>2
        <2>4. Gathered(Len(s))
            BY <2>2, <2>3
        <2>5. Gathered(Len(s))'
            BY <2>1, <2>4 DEF Gathered, Legible
        <2> QED
            BY <2>1, <2>5 DEF GatheredOK
    <1>8. CASE Driver \/ UNCHANGED vars
        <2>1. call' = call /\ kv' = kv /\ text' = text
            BY <1>8, DriverFrame
        <2>3. CASE Driver
            <3>1. /\ stage \notin {"start", "build", "scan"}
                  /\ stage' \notin {"start", "build", "scan"}
                BY <2>3 DEF Driver, ReadSpace, ReadKeyword, ReadQuote, ReadEscape,
                            ReadCharacter, ReadEnd, Reads
            <3>2. FileRead' => FileRead
                BY <2>1, <3>1 DEF FileRead
            <3>3. Gathered(Len(s)) => Gathered(Len(s))'
                BY <2>1 DEF Gathered, Legible
            <3> QED
                BY <2>1, <3>1, <3>2, <3>3 DEF GatheredOK
        <2>4. CASE UNCHANGED vars
            BY <2>4 DEF vars, GatheredOK, FileRead, Gathered, Legible
        <2> QED
            BY <1>8, <2>3, <2>4
    <1> QED
        BY <1>1, <1>2, <1>3, <1>4, <1>5, <1>6, <1>7, <1>8 DEF Next

----------------------------------------------------------------------------
(***************************************************************************)
(* The driver of install.                                                  *)
(***************************************************************************)

LEMMA LoadConfType ==
    ASSUME InputsInv, NEW k \in Setting
    PROVE  LoadConf(k) \in Seq(Char)
    <1>1. call.env[k] \in Seq(Char) /\ k \in Key
        BY CallIs DEF InputsInv, Key
    <1>2. k \in DOMAIN kv => kv[k] \in Seq(Char)
        BY DEF InputsInv, GatheredOK
    <1>3. <<>> \in Seq(Char)
        OBVIOUS
    <1> QED
        BY <1>1, <1>2, <1>3 DEF LoadConf

\* The connection string stays what it is while the driver reads it.
LEMMA StringFrame ==
    ASSUME call' = call, kv' = kv
    PROVE  /\ ConnectionString' = ConnectionString
           /\ \A k \in Setting : /\ LoadConf(k)' = LoadConf(k)
                                 /\ Starts(k)' = Starts(k)
    <1>1. \A k : LoadConf(k)' = LoadConf(k)
        BY DEF LoadConf
    <1> QED
        BY <1>1 DEF ConnectionString, Starts

LEMMA PrefixNext ==
    ASSUME NEW v \in Seq(Char), NEW n \in Nat, n < Len(v)
    PROVE  /\ Append(SubSeq(v, 1, n), v[n + 1]) = SubSeq(v, 1, n + 1)
           /\ Len(SubSeq(v, 1, n)) = n /\ Len(SubSeq(v, 1, n + 1)) = n + 1
BY SubSeqProperties, SubSeqRecursiveFirst, SubSeqRecursiveSecond, AppendProperties

\* What stands where in the connection string, for the setting that is read.
LEMMA ValueAt ==
    ASSUME InputsInv, call.cmd = "install", name # "none"
    PROVE  LET v == LoadConf(name)
               end == Starts(name) + Len(Written(name))
           IN  /\ name \in Setting /\ v \in Seq(Char) /\ Starts(name) \in Nat
               /\ text = ConnectionString /\ Len(text) \in Nat
               /\ Len(Written(name)) \in Nat \ {0}
               /\ \A p \in 1 .. Len(Written(name)) :
                      /\ Starts(name) + p - 1 <= Len(text)
                      /\ text[Starts(name) + p - 1] = Written(name)[p]
               /\ name = "dbname" => end = Len(text) + 1
               /\ name = "password" =>
                      /\ end + 1 <= Len(text) /\ end + 2 = Starts("dbname")
                      /\ text[end] = "space" /\ text[end + 1] = "dbname"
    <1>1. name \in Setting /\ text = ConnectionString
        BY DEF InputsInv, DriverOK
    <1>2. /\ LoadConf("password") \in Seq(Char) /\ LoadConf("dbname") \in Seq(Char)
          /\ LoadConf(name) \in Seq(Char)
        BY <1>1, LoadConfType DEF Setting
    <1>3. /\ Starts("password") = 2 /\ Starts("dbname") = Len(Written("password")) + 4
          /\ Len(Written("password")) \in Nat \ {0} /\ Len(Written("dbname")) \in Nat \ {0}
          /\ Len(text) = Len(Written("password")) + Len(Written("dbname")) + 3
          /\ text[Len(Written("password")) + 2] = "space"
          /\ text[Len(Written("password")) + 3] = "dbname"
          /\ \A k \in Setting : \A p \in 1 .. Len(Written(k)) :
                 text[Starts(k) + p - 1] = Written(k)[p]
        BY <1>1, <1>2, ConnectionStringAt
    <1>4. CASE name = "password"
        <2> DEFINE S == Starts(name)  W == Written(name)  X == Written("dbname")
        <2>1. /\ S = 2 /\ Len(W) \in Nat \ {0} /\ Len(X) \in Nat \ {0}
              /\ Len(text) = Len(W) + Len(X) + 3 /\ Starts("dbname") = Len(W) + 4
              /\ text[Len(W) + 2] = "space" /\ text[Len(W) + 3] = "dbname"
            BY <1>3, <1>4
        <2>2. \A p \in 1 .. Len(W) : text[S + p - 1] = W[p]
            BY <1>3, <1>4 DEF Setting
        <2> HIDE DEF S, W, X
        <2>3. /\ \A p \in 1 .. Len(W) : S + p - 1 <= Len(text)
              /\ S \in Nat /\ Len(text) \in Nat
            BY <2>1
        <2>4. /\ S + Len(W) = Len(W) + 2 /\ S + Len(W) + 1 = Len(W) + 3
              /\ S + Len(W) + 1 <= Len(text) /\ S + Len(W) + 2 = Starts("dbname")
            BY <2>1
        <2> QED
            BY <1>1, <1>2, <1>4, <2>1, <2>2, <2>3, <2>4 DEF S, W
    <1>5. CASE name = "dbname"
        <2> DEFINE S == Starts(name)  W == Written(name)
        <2>1. /\ S \in Nat /\ Len(W) \in Nat \ {0} /\ Len(text) \in Nat
              /\ S + Len(W) = Len(text) + 1
            BY <1>3, <1>5
        <2>2. \A p \in 1 .. Len(W) : text[S + p - 1] = W[p]
            BY <1>3, <1>5 DEF Setting
        <2> HIDE DEF S, W
        <2>3. \A p \in 1 .. Len(W) : S + p - 1 <= Len(text)
            BY <2>1
        <2> QED
            BY <1>1, <1>2, <1>5, <2>1, <2>2, <2>3 DEF S, W
    <1> QED
        BY <1>1, <1>4, <1>5 DEF Setting

LEMMA NotQuoted ==
    ASSUME NEW v \in Seq(Char), ~ NeedsQuotes(v)
    PROVE  /\ Len(v) > 0
           /\ \A i \in 1 .. Len(v) : v[i] \notin {"space", "single", "backslash"}
BY DEF NeedsQuotes, Special

\* What the driver finds next, as the invariant of its reading says.
LEMMA NextAt ==
    ASSUME InputsInv, call.cmd = "install", name # "none",
           stage \in {"value", "plain", "quoted"}
    PROVE  LET v == LoadConf(name)
               n == Len(settings[name])
               end == Starts(name) + Len(Written(name))
           IN  /\ n \in 0 .. Len(v) /\ settings[name] = SubSeq(v, 1, n)
               /\ pos \in Nat /\ pos <= Len(text) + 1
               /\ stage = "value" =>
                      n = 0 /\ pos = Starts(name) /\ pos <= Len(text)
               /\ (stage = "value" /\ NeedsQuotes(v)) => This = "single"
               /\ (stage = "value" /\ ~ NeedsQuotes(v)) => Len(v) > 0 /\ This = v[1]
               /\ stage = "plain" => n > 0 /\ ~ NeedsQuotes(v) /\ pos = Starts(name) + n
               /\ (stage = "plain" /\ n < Len(v)) => pos <= Len(text) /\ This = v[n + 1]
               /\ (stage = "plain" /\ n = Len(v)) => pos = end
               /\ stage = "quoted" => NeedsQuotes(v) /\ pos = Starts(name) + Place(v, n) + 1
               /\ (stage = "quoted" /\ n < Len(v) /\ v[n + 1] \in Special) =>
                      pos < Len(text) /\ This = "backslash" /\ text[pos + 1] = v[n + 1]
               /\ (stage = "quoted" /\ n < Len(v) /\ v[n + 1] \notin Special) =>
                      pos <= Len(text) /\ This = v[n + 1]
               /\ (stage = "quoted" /\ n = Len(v)) =>
                      pos <= Len(text) /\ This = "single" /\ pos + 1 = end
    <1> DEFINE v == LoadConf(name)
               n == Len(settings[name])
               s == Starts(name)
               W == Written(name)
    <1>1. /\ v \in Seq(Char) /\ s \in Nat /\ Len(text) \in Nat /\ Len(W) \in Nat \ {0}
          /\ \A p \in 1 .. Len(W) : s + p - 1 <= Len(text) /\ text[s + p - 1] = W[p]
          /\ s + Len(W) <= Len(text) + 1
        BY ValueAt DEF Setting
    <1>2. /\ n \in 0 .. Len(v) /\ settings[name] = SubSeq(v, 1, n)
          /\ stage = "value" => n = 0 /\ pos = s
          /\ stage = "plain" => ~ NeedsQuotes(v) /\ n > 0 /\ pos = s + n
          /\ stage = "quoted" => NeedsQuotes(v) /\ pos = s + Place(v, n) + 1
        BY DEF InputsInv, DriverOK, ReadingOK
    <1>3. n \in Nat /\ Len(v) \in Nat /\ n <= Len(v)
        BY <1>1, <1>2
    <1>4. /\ ~ NeedsQuotes(v) => W = v /\ Len(v) > 0
          /\ NeedsQuotes(v) => /\ Len(W) = Place(v, Len(v)) + 2 /\ W[1] = "single"
                               /\ W[Place(v, Len(v)) + 2] = "single"
                               /\ \A p \in 1 .. Place(v, Len(v)) : W[p + 1] = Escaped(v)[p]
        BY <1>1, ConninfoAt, NotQuoted DEF Written
    <1> HIDE DEF v, n, s, W
    <1>5. CASE stage = "value"
        <2>1. pos \in Nat /\ pos <= Len(text) /\ This = W[1]
            BY <1>1, <1>2, <1>5 DEF This
        <2>2. pos <= Len(text) + 1
            BY <1>1, <2>1
        <2> QED
            BY <1>2, <1>4, <1>5, <2>1, <2>2 DEF v, n, s, W
    <1>6. CASE stage = "plain"
        <2>1. ~ NeedsQuotes(v) /\ W = v /\ pos = s + n /\ pos \in Nat /\ n > 0
            BY <1>1, <1>2, <1>3, <1>4, <1>6
        <2>2. n < Len(v) => pos <= Len(text) /\ This = v[n + 1]
            <3> SUFFICES ASSUME n < Len(v)
                         PROVE  pos <= Len(text) /\ This = v[n + 1]
                OBVIOUS
            <3>1. n + 1 \in 1 .. Len(W) /\ s + (n + 1) - 1 = pos
                BY <1>1, <1>3, <2>1
            <3> QED
                BY <1>1, <2>1, <3>1 DEF This
        <2>3. pos <= Len(text) + 1
            BY <1>1, <1>3, <2>1
        <2> QED
            BY <1>2, <1>6, <2>1, <2>2, <2>3 DEF v, n, s, W
    <1>7. CASE stage = "quoted"
        <2>1. NeedsQuotes(v) /\ pos = s + Place(v, n) + 1
            BY <1>2, <1>7
        <2>2. /\ Place(v, n) \in Nat /\ Place(v, n + 1) \in Nat /\ Place(v, Len(v)) \in Nat
              /\ Place(v, n + 1) = Place(v, n) + IF v[n + 1] \in Special THEN 2 ELSE 1
            <3>1. n \in Nat /\ n + 1 \in Nat /\ Len(v) \in Nat
                BY <1>3
            <3>2. Place(v, n) \in Nat /\ Place(v, n + 1) \in Nat /\ Place(v, Len(v)) \in Nat
                BY <3>1, PlaceType
            <3>3. Place(v, n + 1) = Place(v, n) + IF v[n + 1] \in Special THEN 2 ELSE 1
                BY <3>1, PlaceNext
            <3> QED
                BY <3>2, <3>3
        <2>3. pos \in Nat
            BY <1>1, <2>1, <2>2
        <2>4. n < Len(v) =>
                  /\ Place(v, n + 1) \in 1 .. Place(v, Len(v))
                  /\ Escaped(v)[Place(v, n + 1)] = v[n + 1]
                  /\ v[n + 1] \in Special => Escaped(v)[Place(v, n + 1) - 1] = "backslash"
            <3>1. n < Len(v) => n + 1 \in 1 .. Len(v)
                BY <1>3
            <3> QED
                BY <1>1, <3>1, EscapedAt
        <2>5. \A p \in 1 .. Place(v, Len(v)) :
                  s + p <= Len(text) /\ text[s + p] = Escaped(v)[p]
            <3> SUFFICES ASSUME NEW p \in 1 .. Place(v, Len(v))
                         PROVE  s + p <= Len(text) /\ text[s + p] = Escaped(v)[p]
                OBVIOUS
            <3>1. p + 1 \in 1 .. Len(W) /\ s + (p + 1) - 1 = s + p
                BY <1>1, <1>4, <2>1, <2>2
            <3>2. W[p + 1] = Escaped(v)[p]
                BY <1>4, <2>1
            <3> QED
                BY <1>1, <3>1, <3>2
        <2>6. ASSUME n < Len(v), v[n + 1] \in Special
              PROVE  pos < Len(text) /\ This = "backslash" /\ text[pos + 1] = v[n + 1]
            <3>1. /\ pos = s + (Place(v, n + 1) - 1) /\ pos + 1 = s + Place(v, n + 1)
                  /\ Place(v, n + 1) - 1 \in 1 .. Place(v, Len(v))
                <4>1. Place(v, n + 1) = Place(v, n) + 2 /\ Place(v, n + 1) <= Place(v, Len(v))
                    BY <2>2, <2>4, <2>6
                <4>2. Place(v, n + 1) \in Nat \ {0} /\ Place(v, Len(v)) \in Nat /\ s \in Nat
                    BY <1>1, <2>2, <4>1
                <4> DEFINE a == Place(v, n)  b == Place(v, n + 1)  c == Place(v, Len(v))
                <4>3. /\ a \in Nat /\ b \in Nat /\ c \in Nat /\ s \in Nat
                      /\ pos = s + a + 1 /\ b = a + 2 /\ b <= c
                    BY <2>1, <2>2, <4>1, <4>2
                <4> HIDE DEF a, b, c
                <4>4. pos = s + (b - 1) /\ pos + 1 = s + b /\ b - 1 \in 1 .. c
                    BY <4>3
                <4> QED
                    BY <4>4 DEF a, b, c
            <3>2. pos + 1 <= Len(text) /\ text[pos + 1] = v[n + 1] /\ text[pos] = "backslash"
                BY <2>4, <2>5, <2>6, <3>1
            <3> QED
                BY <1>1, <2>3, <3>2 DEF This
        <2>7. ASSUME n < Len(v), v[n + 1] \notin Special
              PROVE  pos <= Len(text) /\ This = v[n + 1]
            <3>1. pos = s + Place(v, n + 1)
                BY <1>1, <2>1, <2>2, <2>7
            <3> QED
                BY <2>4, <2>5, <2>7, <3>1 DEF This
        <2>8. ASSUME n = Len(v)
              PROVE  pos <= Len(text) /\ This = "single" /\ pos + 1 = s + Len(W)
            <3>1. /\ pos = s + Len(W) - 1 /\ Len(W) \in 1 .. Len(W)
                  /\ W[Len(W)] = "single" /\ pos + 1 = s + Len(W)
                <4>1. Place(v, n) = Place(v, Len(v))
                    BY <2>8
                <4>2. Len(W) = Place(v, n) + 2 /\ W[Place(v, n) + 2] = "single"
                    BY <1>4, <2>1, <4>1
                <4>3. pos = s + Place(v, n) + 1 /\ Place(v, n) \in Nat /\ s \in Nat
                    BY <1>1, <2>1, <2>2
                <4> QED
                    BY <4>2, <4>3
            <3> QED
                BY <1>1, <3>1 DEF This
        <2>9. pos <= Len(text) + 1
            <3>1. n < Len(v) \/ n = Len(v)
                BY <1>3
            <3> QED
                BY <1>1, <2>3, <2>6, <2>7, <2>8, <3>1
        <2> QED
            BY <1>2, <1>7, <2>1, <2>3, <2>6, <2>7, <2>8, <2>9 DEF v, n, s, W
    <1> QED
        BY <1>5, <1>6, <1>7

\* A step that keeps to what the driver has read of the setting it is at.
LEMMA ReadOn ==
    ASSUME InputsInv, call.cmd = "install", name # "none",
           UNCHANGED <<call, text, kv, name>>,
           NEW n \in 0 .. Len(LoadConf(name)),
           DOMAIN settings' = DOMAIN settings,
           settings'[name] = SubSeq(LoadConf(name), 1, n),
           name = "dbname" => settings'["password"] = settings["password"],
           stage' \in {"keyword", "plain", "quoted", "connect"},
           stage' = "plain" =>
               ~ NeedsQuotes(LoadConf(name)) /\ n > 0 /\ pos' = Starts(name) + n,
           stage' = "quoted" =>
               NeedsQuotes(LoadConf(name)) /\ pos' = Starts(name) + Place(LoadConf(name), n) + 1,
           stage' = "keyword" =>
               /\ n = Len(LoadConf(name))
               /\ LET end == Starts(name) + Len(Written(name))
                  IN  pos' \in end .. IF name = "password" THEN end + 1 ELSE end,
           stage' = "connect" => n = Len(LoadConf(name)) /\ name = "dbname"
    PROVE  DriverOK'
    <1>1. /\ ConnectionString' = ConnectionString /\ name \in Setting
          /\ LoadConf(name)' = LoadConf(name) /\ Starts(name)' = Starts(name)
          /\ LoadConf("password")' = LoadConf("password")
        BY StringFrame DEF InputsInv, Setting
    <1>2. LoadConf(name) \in Seq(Char) /\ n \in Nat /\ n <= Len(LoadConf(name))
        BY <1>1, LoadConfType
    <1>3. Len(settings'[name]) = n
        BY <1>2
    <1>4. ReadingOK'
        BY <1>1, <1>2, <1>3 DEF ReadingOK, Written
    <1> QED
        BY <1>1, <1>4 DEF DriverOK, InputsInv

\* A character more of the value.
LEMMA TakeOn ==
    ASSUME InputsInv, call.cmd = "install", name # "none",
           Len(settings[name]) < Len(LoadConf(name)),
           Len(settings[name]) \in Nat,
           settings[name] = SubSeq(LoadConf(name), 1, Len(settings[name])),
           Take(LoadConf(name)[Len(settings[name]) + 1])
    PROVE  /\ DOMAIN settings' = DOMAIN settings
           /\ settings'[name] = SubSeq(LoadConf(name), 1, Len(settings[name]) + 1)
           /\ name = "dbname" => settings'["password"] = settings["password"]
    <1>1. name \in DOMAIN settings /\ name \in Setting
        BY DEF InputsInv, DriverOK, Setting
    <1>2. LoadConf(name) \in Seq(Char)
        BY <1>1, LoadConfType
    <1>3. settings'[name] = Append(settings[name], LoadConf(name)[Len(settings[name]) + 1])
        BY <1>1 DEF Take
    <1>4. settings'[name] = SubSeq(LoadConf(name), 1, Len(settings[name]) + 1)
        BY <1>2, <1>3, PrefixNext
    <1> QED
        BY <1>1, <1>4 DEF Take

LEMMA ValueStep ==
    ASSUME InputsInv, call.cmd = "install", stage = "value", Driver
    PROVE  DriverOK'
    <1> DEFINE v == LoadConf(name)
    <1>1. name # "none"
        BY DEF InputsInv, DriverOK
    <1>2. /\ Len(settings[name]) = 0 /\ settings[name] = SubSeq(v, 1, 0)
          /\ pos = Starts(name) /\ pos \in Nat /\ pos <= Len(text)
          /\ NeedsQuotes(v) => This = "single"
          /\ ~ NeedsQuotes(v) => Len(v) > 0 /\ This = v[1]
        BY <1>1, NextAt
    <1>3. name \in Setting /\ v \in Seq(Char) /\ Len(v) \in Nat /\ Len(text) \in Nat
        BY <1>1, ValueAt
    <1>4. UNCHANGED <<call, text, kv>>
        BY DriverFrame
    <1>5. ~ (ReadKeyword \/ ReadEnd)
        BY <1>2, <1>3, NotQuoted DEF ReadKeyword, ReadEnd, Reads
    <1>6. CASE NeedsQuotes(v)
        <2>1. ReadQuote
            BY <1>2, <1>5, <1>6 DEF Driver, ReadSpace, ReadEscape, ReadCharacter, Reads
        <2>2. /\ stage' = "quoted" /\ pos' = Starts(name) + 1
              /\ settings' = settings /\ name' = name
            BY <1>2, <2>1 DEF ReadQuote, Reads
        <2>3. Place(v, 0) = 0 /\ 0 \in 0 .. Len(v)
            BY <1>3, PlaceZero
        <2>4. pos' = Starts(name) + Place(v, 0) + 1
            BY <1>2, <2>2, <2>3
        <2> QED
            BY <1>1, <1>2, <1>4, <1>6, <2>2, <2>3, <2>4, ReadOn
    <1>7. CASE ~ NeedsQuotes(v)
        <2>1. This \notin {"space", "single", "backslash"} /\ Len(v) > 0 /\ This = v[1]
            BY <1>2, <1>3, <1>7, NotQuoted
        <2>2. ReadCharacter
            BY <1>5, <2>1 DEF Driver, ReadSpace, ReadQuote, ReadEscape
        <2>3. /\ stage' = "plain" /\ pos' = Starts(name) + 1 /\ name' = name /\ Take(v[0 + 1])
            BY <1>2, <2>1, <2>2 DEF ReadCharacter, Reads
        <2>4. /\ DOMAIN settings' = DOMAIN settings
              /\ settings'[name] = SubSeq(v, 1, 0 + 1)
              /\ name = "dbname" => settings'["password"] = settings["password"]
            BY <1>1, <1>2, <2>1, <2>3, TakeOn
        <2>5. 1 \in 0 .. Len(v)
            BY <1>3, <2>1
        <2> QED
            BY <1>1, <1>4, <1>7, <2>3, <2>4, <2>5, ReadOn
    <1> QED
        BY <1>6, <1>7

LEMMA PlainStep ==
    ASSUME InputsInv, call.cmd = "install", stage = "plain", Driver
    PROVE  DriverOK'
    <1> DEFINE v == LoadConf(name)
               n == Len(settings[name])
               end == Starts(name) + Len(Written(name))
    <1>1. name # "none"
        BY DEF InputsInv, DriverOK
    <1>2. /\ n \in 0 .. Len(v) /\ settings[name] = SubSeq(v, 1, n)
          /\ pos \in Nat /\ pos <= Len(text) + 1 /\ n > 0 /\ ~ NeedsQuotes(v) /\ pos = Starts(name) + n
          /\ n < Len(v) => pos <= Len(text) /\ This = v[n + 1]
          /\ n = Len(v) => pos = end
        BY <1>1, NextAt
    <1>3. /\ name \in Setting /\ v \in Seq(Char) /\ Len(v) \in Nat /\ Len(text) \in Nat
          /\ name = "dbname" => end = Len(text) + 1
          /\ name = "password" => end + 1 <= Len(text) /\ text[end] = "space"
          /\ Starts(name) \in Nat
        BY <1>1, ValueAt
    <1>4. UNCHANGED <<call, text, kv>>
        BY DriverFrame
    <1>5. CASE n < Len(v)
        <2>1. This \notin {"space", "single", "backslash"} /\ pos <= Len(text) /\ This = v[n + 1]
            <3>1. n + 1 \in 1 .. Len(v)
                BY <1>2, <1>3, <1>5
            <3> QED
                BY <1>2, <1>3, <1>5, <3>1, NotQuoted
        <2>2. ~ ReadEnd
            BY <1>2, <1>3, <2>1 DEF ReadEnd
        <2>3. ReadCharacter
            BY <2>1, <2>2 DEF Driver, ReadSpace, ReadKeyword, ReadQuote, ReadEscape, Reads
        <2>4. stage' = "plain" /\ pos' = pos + 1 /\ name' = name /\ Take(v[n + 1])
            BY <2>1, <2>3 DEF ReadCharacter, Reads
        <2>5. /\ DOMAIN settings' = DOMAIN settings /\ settings'[name] = SubSeq(v, 1, n + 1)
              /\ name = "dbname" => settings'["password"] = settings["password"]
            BY <1>1, <1>2, <1>5, <2>4, TakeOn
        <2>6. n + 1 \in 0 .. Len(v) /\ n + 1 > 0 /\ pos' = Starts(name) + (n + 1)
            <3>1. n \in Nat /\ n + 1 <= Len(v)
                BY <1>2, <1>3, <1>5
            <3>2. pos' = (Starts(name) + n) + 1
                BY <1>2, <2>4
            <3>3. (Starts(name) + n) + 1 = Starts(name) + (n + 1)
                BY <1>3, <3>1
            <3> QED
                BY <1>3, <3>1, <3>2, <3>3
        <2> QED
            BY <1>1, <1>2, <1>4, <2>4, <2>5, <2>6, ReadOn
    <1>6. CASE n = Len(v) /\ name = "password"
        <2>1. pos = end /\ pos < Len(text) /\ This = "space"
            BY <1>2, <1>3, <1>6 DEF This
        <2>2. ReadSpace
            BY <1>2, <1>3, <2>1 DEF Driver, ReadKeyword, ReadQuote, ReadEscape, ReadCharacter, ReadEnd, Reads
        <2>3. stage' = "keyword" /\ pos' = end + 1 /\ name' = name /\ settings' = settings
            BY <2>1, <2>2 DEF ReadSpace, Reads
        <2>4. pos' \in end .. end + 1
            BY <1>2, <2>1, <2>3
        <2> QED
            BY <1>1, <1>2, <1>4, <1>6, <2>3, <2>4, ReadOn
    <1>7. CASE n = Len(v) /\ name = "dbname"
        <2>1. pos = Len(text) + 1
            BY <1>2, <1>3, <1>7
        <2>2. ReadEnd
            BY <1>3, <2>1 DEF Driver, ReadSpace, ReadKeyword, ReadQuote, ReadEscape, ReadCharacter, Reads
        <2>3. stage' = "connect" /\ name' = name /\ settings' = settings
            BY <1>3, <2>1, <2>2 DEF ReadEnd
        <2> QED
            BY <1>1, <1>2, <1>4, <1>7, <2>3, ReadOn
    <1>8. n < Len(v) \/ n = Len(v)
        BY <1>2, <1>3
    <1> QED
        BY <1>3, <1>5, <1>6, <1>7, <1>8 DEF Setting

LEMMA QuotedStep ==
    ASSUME InputsInv, call.cmd = "install", stage = "quoted", Driver
    PROVE  DriverOK'
    <1> DEFINE v == LoadConf(name)
               n == Len(settings[name])
               end == Starts(name) + Len(Written(name))
    <1>1. name # "none"
        BY DEF InputsInv, DriverOK
    <1>2. /\ n \in 0 .. Len(v) /\ settings[name] = SubSeq(v, 1, n) /\ pos \in Nat
          /\ NeedsQuotes(v) /\ pos = Starts(name) + Place(v, n) + 1
          /\ (n < Len(v) /\ v[n + 1] \in Special) =>
                 pos < Len(text) /\ This = "backslash" /\ text[pos + 1] = v[n + 1]
          /\ (n < Len(v) /\ v[n + 1] \notin Special) => pos <= Len(text) /\ This = v[n + 1]
          /\ n = Len(v) => pos <= Len(text) /\ This = "single" /\ pos + 1 = end
        BY <1>1, NextAt
    <1>3. /\ name \in Setting /\ v \in Seq(Char) /\ Len(v) \in Nat /\ Len(text) \in Nat
          /\ Starts(name) \in Nat /\ Len(Written(name)) \in Nat
        BY <1>1, ValueAt
    <1>4. UNCHANGED <<call, text, kv>>
        BY DriverFrame
    <1>5. ~ (ReadSpace \/ ReadKeyword)
        BY DEF ReadSpace, ReadKeyword, Reads
    <1>6. Place(v, n) \in Nat /\ Place(v, n + 1) = Place(v, n) + IF v[n + 1] \in Special THEN 2 ELSE 1
        <2>1. n \in Nat
            BY <1>2, <1>3
        <2>2. Place(v, n) \in Nat
            BY <2>1, PlaceType
        <2>3. Place(v, n + 1) = Place(v, n) + IF v[n + 1] \in Special THEN 2 ELSE 1
            BY <2>1, PlaceNext
        <2> QED
            BY <2>2, <2>3
    <1>7. CASE n < Len(v)
        <2>1. n + 1 \in 0 .. Len(v)
            BY <1>2, <1>3, <1>7
        <2>2. CASE v[n + 1] \in Special
            <3>1. pos < Len(text) /\ This = "backslash" /\ text[pos + 1] = v[n + 1]
                BY <1>2, <1>7, <2>2
            <3>2. ReadEscape
                BY <1>2, <1>3, <1>5, <3>1 DEF Driver, ReadQuote, ReadCharacter, ReadEnd, Reads
            <3>3. stage' = "quoted" /\ pos' = pos + 2 /\ name' = name /\ Take(v[n + 1])
                BY <3>1, <3>2 DEF ReadEscape
            <3>4. /\ DOMAIN settings' = DOMAIN settings /\ settings'[name] = SubSeq(v, 1, n + 1)
                  /\ name = "dbname" => settings'["password"] = settings["password"]
                BY <1>1, <1>2, <1>7, <3>3, TakeOn
            <3>5. pos' = Starts(name) + Place(v, n + 1) + 1
                BY <1>2, <1>3, <1>6, <2>2, <3>3
            <3> QED
                BY <1>1, <1>2, <1>4, <2>1, <3>3, <3>4, <3>5, ReadOn
        <2>3. CASE v[n + 1] \notin Special
            <3>1. pos <= Len(text) /\ This = v[n + 1] /\ This \notin {"single", "backslash"}
                BY <1>2, <1>7, <2>3 DEF Special
            <3>2. ReadCharacter
                BY <1>2, <1>3, <1>5, <3>1 DEF Driver, ReadQuote, ReadEscape, ReadEnd, Reads
            <3>3. stage' = "quoted" /\ pos' = pos + 1 /\ name' = name /\ Take(v[n + 1])
                BY <3>1, <3>2 DEF ReadCharacter, Reads
            <3>4. /\ DOMAIN settings' = DOMAIN settings /\ settings'[name] = SubSeq(v, 1, n + 1)
                  /\ name = "dbname" => settings'["password"] = settings["password"]
                BY <1>1, <1>2, <1>7, <3>3, TakeOn
            <3>5. pos' = Starts(name) + Place(v, n + 1) + 1
                BY <1>2, <1>3, <1>6, <2>3, <3>3
            <3> QED
                BY <1>1, <1>2, <1>4, <2>1, <3>3, <3>4, <3>5, ReadOn
        <2> QED
            BY <2>2, <2>3
    <1>8. CASE n = Len(v)
        <2>1. pos <= Len(text) /\ This = "single" /\ pos + 1 = end
            BY <1>2, <1>8
        <2>2. ReadQuote
            BY <1>2, <1>3, <1>5, <2>1 DEF Driver, ReadEscape, ReadCharacter, ReadEnd, Reads
        <2>3. stage' = "keyword" /\ pos' = end /\ name' = name /\ settings' = settings
            BY <2>1, <2>2 DEF ReadQuote, Reads
        <2>4. pos' \in end .. IF name = "password" THEN end + 1 ELSE end
            BY <1>3, <2>3
        <2> QED
            BY <1>1, <1>2, <1>4, <1>8, <2>3, <2>4, ReadOn
    <1>9. n < Len(v) \/ n = Len(v)
        BY <1>2, <1>3
    <1> QED
        BY <1>7, <1>8, <1>9

LEMMA KeywordStep ==
    ASSUME InputsInv, call.cmd = "install", stage = "keyword", Driver
    PROVE  DriverOK'
    <1>1. UNCHANGED <<call, text, kv>> /\ name \in Setting \cup {"none"}
        BY DriverFrame DEF InputsInv
    <1>2. /\ ConnectionString' = ConnectionString /\ text = ConnectionString
          /\ \A k \in Setting : LoadConf(k)' = LoadConf(k) /\ Starts(k)' = Starts(k)
        BY <1>1, StringFrame DEF InputsInv, DriverOK
    <1>3. ~ (ReadQuote \/ ReadEscape \/ ReadCharacter)
        BY DEF ReadQuote, ReadEscape, ReadCharacter, Reads
    <1>4. LoadConf("password") \in Seq(Char) /\ LoadConf("dbname") \in Seq(Char)
        BY LoadConfType DEF Setting
    <1>5. /\ Starts("password") = 2 /\ Starts("dbname") = Len(Written("password")) + 4
          /\ Len(Written("password")) \in Nat /\ Len(text) \in Nat /\ Len(text) > 0
          /\ text[1] = "password"
        BY <1>2, <1>4, ConnectionStringAt
    <1>6. ASSUME NEW k \in Setting, ReadKeyword, This = k, pos + 1 = Starts(k),
                 k = "password" => DOMAIN settings = {},
                 k = "dbname" => /\ DOMAIN settings = {"password"}
                                 /\ settings["password"] = LoadConf("password")
          PROVE  DriverOK'
        <2>1. /\ stage' = "value" /\ name' = k /\ pos' = Starts(k)
              /\ settings' = Assigned(settings, k, <<>>)
            BY <1>6 DEF ReadKeyword, Reads
        <2>2. /\ DOMAIN settings' = DOMAIN settings \cup {k} /\ settings'[k] = <<>>
              /\ k = "dbname" => settings'["password"] = settings["password"]
            BY <1>6, <2>1 DEF Assigned
        <2>3. LoadConf(k) \in Seq(Char)
            BY LoadConfType
        <2>4. Len(<<>>) = 0 /\ <<>> = SubSeq(LoadConf(k), 1, 0) /\ 0 \in 0 .. Len(LoadConf(k))
            BY <2>3, SubSeqEmpty
        <2>5. ReadingOK'
            BY <1>2, <2>1, <2>2, <2>4 DEF ReadingOK
        <2> QED
            BY <1>1, <1>2, <1>6, <2>1, <2>2, <2>5 DEF DriverOK, Setting
    <1>7. CASE name = "none"
        <2>1. pos = 1 /\ settings = <<>> /\ DOMAIN settings = {}
            BY <1>7 DEF InputsInv, DriverOK
        <2>2. This = "password" /\ pos <= Len(text) /\ pos + 1 = Starts("password")
            BY <1>5, <2>1 DEF This
        <2>3. ReadKeyword
            BY <1>3, <1>5, <2>1, <2>2 DEF Driver, ReadSpace, ReadEnd, Reads
        <2> QED
            BY <1>6, <2>1, <2>2, <2>3 DEF Setting
    <1>8. CASE name # "none"
        <2> DEFINE end == Starts(name) + Len(Written(name))
        <2>1. /\ name = "dbname" => end = Len(text) + 1
              /\ name = "password" => /\ end + 1 <= Len(text) /\ end + 2 = Starts("dbname")
                                      /\ text[end] = "space" /\ text[end + 1] = "dbname"
              /\ Starts(name) \in Nat /\ Len(Written(name)) \in Nat
            BY <1>8, ValueAt
        <2>2. /\ Len(settings[name]) = Len(LoadConf(name)) /\ Len(settings[name]) \in 0 .. Len(LoadConf(name))
              /\ settings[name] = SubSeq(LoadConf(name), 1, Len(LoadConf(name)))
              /\ pos \in end .. IF name = "password" THEN end + 1 ELSE end
            BY <1>8 DEF InputsInv, DriverOK, ReadingOK, Written
        <2>3. CASE name = "password" /\ pos = end
            <3>1. This = "space" /\ pos < Len(text)
                BY <1>5, <2>1, <2>3 DEF This
            <3>2. ReadSpace
                BY <1>3, <1>5, <2>1, <2>3, <3>1 DEF Driver, ReadKeyword, ReadEnd, Reads
            <3>3. stage' = "keyword" /\ pos' = end + 1 /\ name' = name /\ settings' = settings
                BY <2>3, <3>2 DEF ReadSpace, Reads
            <3>4. pos' \in end .. end + 1
                BY <2>1, <3>3
            <3> QED
                BY <1>1, <1>8, <2>2, <2>3, <3>3, <3>4, ReadOn
        <2>4. CASE name = "password" /\ pos = end + 1
            <3>1. This = "dbname" /\ pos <= Len(text) /\ pos + 1 = Starts("dbname")
                BY <1>5, <2>1, <2>4 DEF This
            <3>2. ReadKeyword
                BY <1>3, <1>5, <2>1, <2>4, <3>1 DEF Driver, ReadSpace, ReadEnd, Reads
            <3>3. settings["password"] = LoadConf("password")
                BY <1>4, <2>2, <2>4, SubSeqFull
            <3>4. DOMAIN settings = {"password"}
                BY <2>4 DEF InputsInv, DriverOK
            <3> QED
                BY <1>6, <3>1, <3>2, <3>3, <3>4 DEF Setting
        <2>5. CASE name = "dbname"
            <3>1. pos = Len(text) + 1
                BY <1>5, <2>1, <2>2, <2>5
            <3>2. ReadEnd
                BY <1>3, <1>5, <3>1 DEF Driver, ReadSpace, ReadKeyword, Reads
            <3>3. stage' = "connect" /\ name' = name /\ settings' = settings
                BY <1>5, <3>1, <3>2 DEF ReadEnd
            <3> QED
                BY <1>1, <1>8, <2>2, <2>5, <3>3, ReadOn
        <2>6. name \in Setting /\ (name = "password" => pos = end \/ pos = end + 1)
            BY <1>1, <1>8, <2>1, <2>2
        <2> QED
            BY <2>3, <2>4, <2>5, <2>6 DEF Setting
    <1> QED
        BY <1>7, <1>8

LEMMA DriverStep ==
    ASSUME InputsInv, [Next]_vars
    PROVE  DriverOK'
    <1>0. call.cmd \in {"emit", "install"}
        BY CallIs DEF InputsInv
    <1>1. CASE call.cmd = "emit"
        <2>1. call' = call
            BY DEF Next, ReturnAtOnce, Build, MergeArg, DsnOfEnv, OpenFile, ScanLine, ScanFails,
                   DsnOfFile, Incomplete, Connect, Driver, ReadSpace, ReadKeyword, ReadQuote,
                   ReadEscape, ReadCharacter, ReadEnd, vars
        <2> QED
            BY <1>1, <2>1 DEF DriverOK
    <1>2. CASE call.cmd = "install"
        <2>1. CASE Driver
            <3>1. stage \in {"keyword", "value", "plain", "quoted"}
                BY <2>1 DEF Driver, ReadSpace, ReadKeyword, ReadQuote, ReadEscape,
                            ReadCharacter, ReadEnd, Reads
            <3> QED
                BY <1>2, <2>1, <3>1, KeywordStep, ValueStep, PlainStep, QuotedStep
        <2>2. CASE Connect
            <3>1. /\ stage = "scan" /\ stage' = "keyword" /\ pos' = 1 /\ text' = ConnectionString
                  /\ UNCHANGED <<call, kv, settings, name>>
                BY <2>2 DEF Connect, AllRead, Opens
            <3>2. settings = <<>> /\ name = "none"
                BY <1>2, <3>1 DEF InputsInv, DriverOK
            <3>3. ConnectionString' = ConnectionString
                BY <3>1, StringFrame
            <3> QED
                BY <3>1, <3>2, <3>3 DEF DriverOK
        <2>3. CASE OpenFile \/ ScanLine \/ ScanFails
            <3>1. /\ stage \in {"start", "build", "scan"} /\ stage' = "scan"
                  /\ UNCHANGED <<call, settings, name>>
                BY <2>3 DEF OpenFile, ScanLine, ScanFails, AllRead, Reads
            <3>2. settings = <<>> /\ name = "none"
                BY <1>2, <3>1 DEF InputsInv, DriverOK
            <3> QED
                BY <3>1, <3>2 DEF DriverOK
        <2>4. CASE ReturnAtOnce \/ Build \/ MergeArg \/ DsnOfEnv \/ DsnOfFile
            BY <1>2, <2>4 DEF ReturnAtOnce, Build, MergeArg, DsnOfEnv, DsnOfFile, Reads, AllRead,
                              InputsInv, WayOK
        <2>6. CASE Incomplete
            <3>1. stage = "scan" /\ stage' = "incomplete" /\ UNCHANGED <<call, settings, name>>
                BY <2>6 DEF Incomplete, AllRead
            <3>2. settings = <<>> /\ name = "none"
                BY <1>2, <3>1 DEF InputsInv, DriverOK
            <3> QED
                BY <3>1, <3>2 DEF DriverOK
        <2>5. CASE UNCHANGED vars
            <3>1. UNCHANGED <<call, stage, text, pos, kv, settings, name>>
                BY <2>5 DEF vars
            <3>2. /\ ConnectionString' = ConnectionString
                  /\ \A k \in Setting : LoadConf(k)' = LoadConf(k) /\ Starts(k)' = Starts(k)
                BY <3>1, StringFrame
            <3>3. name # "none" => (ReadingOK' <=> ReadingOK)
                BY <3>1, <3>2 DEF ReadingOK, InputsInv
            <3>4. DriverOK
                BY DEF InputsInv
            <3> QED
                BY <3>1, <3>2, <3>3, <3>4 DEF DriverOK, Setting
        <2> QED
            BY <2>1, <2>2, <2>3, <2>4, <2>5, <2>6 DEF Next
    <1> QED
        BY <1>0, <1>1, <1>2

\* The settings stay what they were when install looked at them.
LEMMA CompleteStep ==
    ASSUME InputsInv, [Next]_vars
    PROVE  CompleteOK'
    <1> USE DEF InputsInv, WayOK, CompleteOK
    <1>0. call.cmd \in {"emit", "install"}
        BY CallIs
    <1>1. CASE Incomplete \/ Connect
        <2>1. UNCHANGED <<call, kv>>
            BY <1>1 DEF Incomplete, Connect
        <2>2. \A k \in Setting : LoadConf(k)' = LoadConf(k)
            BY <2>1, StringFrame
        <2> QED
            BY <1>1, <2>1, <2>2 DEF Incomplete, Connect
    <1>2. CASE Driver \/ UNCHANGED vars
        <2>1. UNCHANGED <<call, kv>>
            BY <1>2, DriverFrame
        <2>2. \A k \in Setting : LoadConf(k)' = LoadConf(k)
            BY <2>1, StringFrame
        <2>3. /\ stage' = "incomplete" => stage = "incomplete"
              /\ stage' \in {"keyword", "value", "plain", "quoted", "connect"} =>
                     stage = stage' \/ stage \in {"keyword", "value", "plain", "quoted"}
            BY <1>2 DEF Driver, ReadSpace, ReadKeyword, ReadQuote, ReadEscape, ReadCharacter,
                        ReadEnd, Reads, vars
        <2> QED
            BY <2>1, <2>2, <2>3
    <1>3. CASE ReturnAtOnce \/ Build \/ MergeArg \/ DsnOfEnv \/ DsnOfFile
        BY <1>0, <1>3 DEF ReturnAtOnce, Build, MergeArg, DsnOfEnv, DsnOfFile, Reads, AllRead
    <1>4. CASE OpenFile \/ ScanLine \/ ScanFails
        BY <1>4 DEF OpenFile, ScanLine, ScanFails, Reads
    <1> QED
        BY <1>1, <1>2, <1>3, <1>4 DEF Next

\* Whatever a command is called with and finds, the invariant of its reading holds.
THEOREM InputsCorrect == Spec => []InputsInv
    <1>1. Init => InputsInv
        BY InitInv
    <1>2. InputsInv /\ [Next]_vars => InputsInv'
        BY WayStep, MergedStep, GatheredStep, SourceStep, CompleteStep, DriverStep DEF InputsInv
    <1> QED
        BY <1>1, <1>2, PTL DEF Spec

----------------------------------------------------------------------------
(***************************************************************************)
(* What the invariant says of a command that has ended.                    *)
(***************************************************************************)

LEMMA LastPairIs ==
    ASSUME NEW s, s \in Seq(ToSet(s)), NEW k
    PROVE  /\ \A i \in 1 .. Len(s) : LastOf(s, Len(s), i, k) => LastPair(s, k) = {s[i]}
           /\ (\A i \in 1 .. Len(s) : ~ Says(s, i, k)) => LastPair(s, k) = {}
    <1>1. DOMAIN s = 1 .. Len(s) /\ Len(s) \in Nat
        OBVIOUS
    <1>2. ASSUME NEW i \in 1 .. Len(s), NEW j \in 1 .. Len(s),
                 LastOf(s, Len(s), i, k), LastOf(s, Len(s), j, k)
          PROVE  i = j
        <2>1. i < j \/ j < i \/ i = j
            OBVIOUS
        <2> QED
            BY <1>1, <1>2, <2>1 DEF LastOf
    <1>3. ASSUME NEW i \in 1 .. Len(s), LastOf(s, Len(s), i, k)
          PROVE  LastPair(s, k) = {s[i]}
        <2>1. {j \in DOMAIN s : LastOf(s, Len(s), j, k)} = {i}
            BY <1>1, <1>2, <1>3
        <2> QED
            BY <2>1 DEF LastPair
    <1>4. ASSUME \A i \in 1 .. Len(s) : ~ Says(s, i, k)
          PROVE  LastPair(s, k) = {}
        <2>1. {j \in DOMAIN s : LastOf(s, Len(s), j, k)} = {}
            BY <1>1, <1>4 DEF LastOf
        <2> QED
            BY <2>1 DEF LastPair
    <1> QED
        BY <1>3, <1>4

LEMMA MinOfSet ==
    ASSUME NEW S \in SUBSET (1 .. 4), NEW n \in S
    PROVE  Min(S) \in 1 .. n
    <1>1. \E a \in S : \A x \in S : a <= x
        OBVIOUS
    <1>2. Min(S) \in S /\ \A x \in S : Min(S) <= x
        BY <1>1 DEF Min
    <1>3. Min(S) \in 1 .. 4 /\ n \in 1 .. 4 /\ Min(S) <= n
        BY <1>2
    <1> HIDE DEF Min
    <1> QED
        BY <1>3

\* The event of emit is what its arguments say, for any arguments.
THEOREM EventBuilt == Spec => []EventAsAsked
    <1>1. InputsInv => EventAsAsked
        <2> SUFFICES ASSUME InputsInv, call.cmd = "emit", stage \in Ended,
                            ~ call.disabled, call.usable
                     PROVE  /\ DOMAIN event = DOMAIN AutoFields \cup Named(call.given, Len(call.given))
                            /\ \A f \in DOMAIN event :
                                   LET asked == LastPair(call.given, f)
                                   IN  IF asked = {} THEN event[f] = AutoFields[f]
                                       ELSE event[f] \in {a.value : a \in asked}
                            /\ LastPair(call.given, "session_id") = {} =>
                                   \A n \in call.set : event["session_id"] \in 1 .. n
            BY DEF EventAsAsked
        <2> DEFINE s == call.given
        <2>1. s \in Seq(ToSet(s)) /\ Len(s) \in Nat /\ call.set \subseteq 1 .. 4
            BY CallIs DEF InputsInv
        <2>2. /\ DOMAIN event = DOMAIN AutoFields \cup Named(s, Len(s))
              /\ \A f \in DOMAIN event :
                     \/ \E i \in 1 .. Len(s) : LastOf(s, Len(s), i, f) /\ event[f] = s[i].value
                     \/ /\ f \in DOMAIN AutoFields /\ event[f] = AutoFields[f]
                        /\ \A i \in 1 .. Len(s) : ~ Says(s, i, f)
            BY DEF InputsInv, MergedOK, Ended
        <2>3. ASSUME NEW f \in DOMAIN event
              PROVE  \/ \E a : LastPair(s, f) = {a} /\ event[f] = a.value
                     \/ LastPair(s, f) = {} /\ event[f] = AutoFields[f]
            <3>1. CASE \E i \in 1 .. Len(s) : LastOf(s, Len(s), i, f) /\ event[f] = s[i].value
                BY <2>1, <3>1, LastPairIs
            <3>2. CASE /\ event[f] = AutoFields[f]
                       /\ \A i \in 1 .. Len(s) : ~ Says(s, i, f)
                BY <2>1, <3>2, LastPairIs
            <3> QED
                BY <2>2, <3>1, <3>2
        <2>4. ASSUME LastPair(s, "session_id") = {}, NEW n \in call.set
              PROVE  event["session_id"] \in 1 .. n
            <3>1. "session_id" \in DOMAIN event /\ AutoFields["session_id"] = SessionID
                BY <2>2 DEF AutoFields
            <3>2. event["session_id"] = SessionID
                BY <2>3, <2>4, <3>1
            <3>3. SessionID = Min(call.set)
                BY <2>4 DEF SessionID
            <3> QED
                BY <2>1, <2>4, <3>2, <3>3, MinOfSet
        <2>5. ASSUME NEW f \in DOMAIN event
              PROVE  IF LastPair(s, f) = {} THEN event[f] = AutoFields[f]
                     ELSE event[f] \in {a.value : a \in LastPair(s, f)}
            BY <2>3
        <2> QED
            BY <2>2, <2>4, <2>5
    <1> QED
        BY <1>1, InputsCorrect, PTL

\* kv is what the user means, for what the environment leaves open.
LEMMA MeantIs ==
    ASSUME InputsInv, Legible, FileRead, NEW k \in Key, call.env[k] = <<>>
    PROVE  /\ k \in DOMAIN kv => {l.means : l \in LastPair(call.content, k)} = {kv[k]}
           /\ k \notin DOMAIN kv => {l.means : l \in LastPair(call.content, k)} = {}
           /\ Meant(k) = {l.means : l \in LastPair(call.content, k)} \ {<<>>}
    <1> DEFINE s == call.content
    <1>1. s \in Seq(ToSet(s)) /\ Len(s) \in Nat
        BY CallIs DEF InputsInv
    <1>2. /\ DOMAIN kv = Named(s, Len(s))
          /\ \A j \in DOMAIN kv : \E i \in 1 .. Len(s) :
                 LastOf(s, Len(s), i, j) /\ kv[j] = s[i].means
        BY DEF InputsInv, GatheredOK, Gathered
    <1>3. Meant(k) = {l.means : l \in LastPair(s, k)} \ {<<>>}
        BY DEF Meant
    <1>4. ASSUME k \in DOMAIN kv
          PROVE  {l.means : l \in LastPair(s, k)} = {kv[k]}
        <2>1. PICK i \in 1 .. Len(s) : LastOf(s, Len(s), i, k) /\ kv[k] = s[i].means
            BY <1>2, <1>4
        <2>2. LastPair(s, k) = {s[i]}
            BY <1>1, <2>1, LastPairIs
        <2> QED
            BY <2>1, <2>2
    <1>5. ASSUME k \notin DOMAIN kv
          PROVE  {l.means : l \in LastPair(s, k)} = {}
        <2>1. \A i \in 1 .. Len(s) : ~ Says(s, i, k)
            BY <1>2, <1>5 DEF Named, Says
        <2>2. LastPair(s, k) = {}
            BY <1>1, <2>1, LastPairIs
        <2> QED
            BY <2>2
    <1> QED
        BY <1>3, <1>4, <1>5

\* emit connects with the DSN that is meant, or is silent without one.
THEOREM EmitFindsDsn == Spec => []SilentWithoutDsn
    <1>1. InputsInv => SilentWithoutDsn
        <2> SUFFICES ASSUME InputsInv, call.cmd = "emit", stage \in Ended, Legible, ~ BlankDsn
                     PROVE  IF call.disabled \/ ~ call.usable \/ Meant("dsn") = {}
                            THEN stage = "silent"
                            ELSE stage = "connect" /\ settings.dsn \in Meant("dsn")
            BY DEF SilentWithoutDsn
        <2>1. /\ stage \in {"silent", "connect"}
              /\ stage = "connect" => ~ call.disabled /\ call.usable
              /\ call.disabled \in BOOLEAN /\ call.usable \in BOOLEAN
            BY CallIs DEF InputsInv, WayOK, Ended
        <2>2. CASE call.disabled \/ ~ call.usable
            BY <2>1, <2>2
        <2>3. CASE ~ call.disabled /\ call.usable /\ call.env["dsn"] # <<>>
            <3>1. Meant("dsn") = {call.env["dsn"]}
                BY <2>3 DEF Meant
            <3>2. stage = "connect" /\ settings["dsn"] = call.env["dsn"]
                BY <2>1, <2>3 DEF InputsInv, SourceOK
            <3> QED
                BY <2>3, <3>1, <3>2
        <2>4. CASE ~ call.disabled /\ call.usable /\ call.env["dsn"] = <<>>
            <3>1. FileRead /\ "dsn" \in Key
                BY <2>1, <2>4 DEF FileRead, Key
            <3>4. <<>> \notin {l.means : l \in LastPair(call.content, "dsn")}
                BY <2>4 DEF BlankDsn
            <3>2. /\ "dsn" \in DOMAIN kv => Meant("dsn") = {kv["dsn"]}
                  /\ "dsn" \notin DOMAIN kv => Meant("dsn") = {}
                BY <2>4, <3>1, <3>4, MeantIs
            <3>3. /\ stage = "silent" => "dsn" \notin DOMAIN kv
                  /\ stage = "connect" => "dsn" \in DOMAIN kv /\ settings["dsn"] = kv["dsn"]
                BY <2>4 DEF InputsInv, SourceOK
            <3> QED
                BY <2>1, <2>4, <3>2, <3>3
        <2> QED
            BY <2>2, <2>3, <2>4
    <1> QED
        BY <1>1, InputsCorrect, PTL

\* What install goes on with is what is meant, if that is anything.
LEMMA LoadConfMeant ==
    ASSUME InputsInv, Legible, FileRead, NEW k \in Setting
    PROVE  Meant(k) = {LoadConf(k)} \ {<<>>}
    <1>1. k \in Key
        BY DEF Key
    <1>2. CASE call.env[k] # <<>>
        BY <1>2 DEF LoadConf, Meant
    <1>3. CASE call.env[k] = <<>> /\ k \in DOMAIN kv
        <2>1. Meant(k) = {kv[k]} \ {<<>>}
            BY <1>1, <1>3, MeantIs
        <2> QED
            BY <1>3, <2>1 DEF LoadConf
    <1>4. CASE call.env[k] = <<>> /\ k \notin DOMAIN kv
        <2>1. Meant(k) = {}
            BY <1>1, <1>4, MeantIs
        <2> QED
            BY <1>4, <2>1 DEF LoadConf
    <1> QED
        BY <1>2, <1>3, <1>4

\* The driver of install reads what is meant, for values of any characters and
\* any length, however db.conf spells them; without one of them it has nothing
\* to read.
THEOREM ValuesArrive == Spec => []SettingsArrive
    <1>1. InputsInv => SettingsArrive
        <2> SUFFICES ASSUME InputsInv, call.cmd = "install", stage \in Ended, Legible
                     PROVE  IF \E k \in Setting : Meant(k) = {}
                            THEN stage = "incomplete" /\ settings = <<>>
                            ELSE /\ stage = "connect"
                                 /\ \A k \in Setting : settings[k] \in Meant(k)
            BY DEF SettingsArrive
        <2>1. stage \in {"incomplete", "connect"}
            BY DEF InputsInv, WayOK, DriverOK, Ended
        <2>2. \A k \in Setting : Meant(k) = {LoadConf(k)} \ {<<>>}
            <3>1. FileRead
                BY <2>1 DEF FileRead
            <3> QED
                BY <3>1, LoadConfMeant
        <2>3. CASE stage = "incomplete"
            <3>1. settings = <<>>
                BY <2>3 DEF InputsInv, DriverOK
            <3>2. \E k \in Setting : LoadConf(k) = <<>>
                BY <2>3 DEF InputsInv, CompleteOK
            <3> QED
                BY <2>2, <2>3, <3>1, <3>2
        <2>4. CASE stage = "connect"
            <3>1. name = "dbname" /\ ReadingOK /\ settings["password"] = LoadConf("password")
                BY <2>4 DEF InputsInv, DriverOK, Setting
            <3>2. settings["dbname"] = LoadConf("dbname")
                <4>1. settings["dbname"] = SubSeq(LoadConf("dbname"), 1, Len(LoadConf("dbname")))
                    BY <2>4, <3>1 DEF ReadingOK
                <4>2. LoadConf("dbname") \in Seq(Char)
                    BY LoadConfType DEF Setting
                <4> QED
                    BY <4>1, <4>2, SubSeqFull
            <3>3. \A k \in Setting : settings[k] = LoadConf(k)
                BY <3>1, <3>2 DEF Setting
            <3>4. \A k \in Setting : LoadConf(k) # <<>>
                BY <2>4 DEF InputsInv, CompleteOK
            <3> QED
                BY <2>2, <2>4, <3>3, <3>4
        <2> QED
            BY <2>1, <2>3, <2>4
    <1> QED
        BY <1>1, InputsCorrect, PTL
============================================================================
