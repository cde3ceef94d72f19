------------------------------- MODULE Lines -------------------------------
(***************************************************************************)
(* The lines a spool file holds and the size rule that decides how many of *)
(* them it may keep: totalBytes and the overflow loop of Append in         *)
(* internal/spool/spool.go.  A line is one JSON event; the content of the  *)
(* line is abstracted to its identity and to its size on disk.             *)
(***************************************************************************)
EXTENDS Naturals, Sequences, FiniteSets, SequencesExt

CONSTANTS
    Line,       \* the event lines that processes may emit
    Size,       \* Size[l]: bytes of line l on disk, its newline included
    MaxBytes    \* the size cap of the spool file (maxBytes)

ASSUME SizeAssumption == Size \in [Line -> Nat \ {0}]

\* New replaces a cap that is not positive by DefaultMaxBytes, and Default
\* ignores an AUTOSPEC_DB_SPOOL_MAX_BYTES that is not a positive number.
ASSUME CapAssumption == MaxBytes \in Nat \ {0}

----------------------------------------------------------------------------

\* The bytes the given lines take in the file, as a set: byte b of line i.
\* Counting this set is the sum of the lines' sizes, and is a definition
\* without recursion.
Bytes(lines) == UNION {{i} \X (1 .. Size[lines[i]]) : i \in DOMAIN lines}

TotalBytes(lines) == Cardinality(Bytes(lines))

\* The condition of the loop that drops the oldest line: more than one line
\* and more bytes than the cap allows.
Overflows(lines) == Len(lines) > 1 /\ TotalBytes(lines) > MaxBytes

\* The lines of s from position k on.
From(s, k) == SubSeq(s, k, Len(s))

\* m is what is left of s after some turns of the overflow loop: a suffix, and
\* every line before it had to go.
PartlyTrimmed(s, m) ==
    \E k \in 1 .. Len(s) :
        m = From(s, k) /\ \A j \in 1 .. (k - 1) : Overflows(From(s, j))

\* k is where the overflow loop stops on s: the lines from k on stay, and
\* from no earlier position could they have stayed.
IsCut(s, k) ==
    /\ k \in 1 .. Len(s)
    /\ ~ Overflows(From(s, k))
    /\ \A j \in 1 .. (k - 1) : Overflows(From(s, j))

\* What is left of s when oldest lines are dropped until the rest fits.
Newest(s) == From(s, CHOOSE k \in 1 .. Len(s) : IsCut(s, k))
============================================================================
