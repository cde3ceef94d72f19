------------------------------- MODULE Usage -------------------------------
(***************************************************************************)
(* The view model_token_usage (migrations/006_model_token_usage.sql) over  *)
(* the events that the pipeline delivers, for one mission and one model.   *)
(* PostgreSQL sums bigints without overflow; a text that is no bigint      *)
(* raises, and the whole query with it.                                    *)
(***************************************************************************)
EXTENDS Pipeline

CONSTANTS
    Tokens,     \* Tokens[e]: the token count in the payload of e
    Bits        \* the width of a bigint

\* An event without mission_id or model is not in DOMAIN Tokens.  A count that
\* is missing or has anything but digits in it is not a number.
ASSUME TokensAssumption ==
    /\ DOMAIN Tokens \subseteq Line
    /\ \A e \in DOMAIN Tokens : Tokens[e] \in [digits : BOOLEAN, number : Nat]
ASSUME BitsAssumption == Bits \in Nat \ {0}

\* where payload ? 'mission_id' and payload ? 'model'
Rows == {i \in DOMAIN raw : raw[i] \in DOMAIN Tokens}

\* text::bigint raises on a number that does not fit.
FitsBigint(n) == n < 2 ^ (Bits - 1)

\* case when ... ~ '^[0-9]+$' then ...::bigint end, where sum leaves out nulls
Count(e) == IF Tokens[e].digits THEN Tokens[e].number ELSE 0

\* A sum is the number of the single tokens that it sums.
Tokenwise(i, n) == {i} \X (1 .. n)

InputTokens == Cardinality(UNION {Tokenwise(i, Count(raw[i])) : i \in Rows})

----------------------------------------------------------------------------

\* A single bad event can never break every read (006_model_token_usage.sql:
\* 12-14).
UsageReadable ==
    \A i \in Rows : Tokens[raw[i]].digits => FitsBigint(Tokens[raw[i]].number)

\* At most one event of each event_uuid, and one if an event with it was emitted, does
\* not wait in the spool and was not given up.
Representatives ==
    {S \in SUBSET Line :
        /\ \A e, f \in S : Uuid[e] = Uuid[f] => e = f
        /\ \A e \in Line :
               cmd[e] = "done" /\ e \notin ToSet(file) \cup overflowed \cup unspooled \cup poisoned
               => \E f \in S : Uuid[f] = Uuid[e]}

\* The tokens of the events of S.
TokensOf(S) == Cardinality(UNION {Tokenwise(e, Count(e)) : e \in S \cap DOMAIN Tokens})

\* The sum counts the tokens of no event_uuid twice, and those of every event_uuid
\* once of which an event was emitted, does not wait and was not given up, however
\* often that event was sent, timed out, commits late and was replayed
\* (006_model_token_usage.sql:14-15, 001_events_raw.sql:41-43).
UsageExact == \E S \in Representatives : InputTokens = TokensOf(S)
============================================================================
