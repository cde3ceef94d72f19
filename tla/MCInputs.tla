------------------------------ MODULE MCInputs ------------------------------
(***************************************************************************)
(* Values of up to three characters, among them all that quoting is about.   *)
(***************************************************************************)
EXTENDS Inputs

Chars == {"x", "space", "single", "backslash", "double", "a", "e", "y"}

Text == UNION {[1 .. n -> {"x", "space", "single", "backslash", "double"}] : n \in 0 .. 3}

Pair(k, v, t) == [kind |-> "pair", key |-> k, left |-> <<k>>, means |-> v, value |-> t]
Export(k, v, t) == [Pair(k, v, t) EXCEPT !.left = <<"export", k>>]
Note == [kind |-> "note"]
Long == [kind |-> "long"]
Arg(f, v) == [kind |-> "pair", key |-> f, value |-> v]

Env(k, v) == [j \in Key |-> IF j = k THEN v ELSE <<>>]

\* install: a password of any characters, from db.conf or from the environment,
\* before a database whose name has a space in it; the password may be empty, and
\* the database missing.
InstallCalls ==
    LET base == [cmd |-> "install", env |-> Env("dsn", <<>>), set |-> {},
                 disabled |-> FALSE, usable |-> TRUE, content |-> <<>>, given |-> <<>>]
        rest == <<Note, Pair("dbname", <<"a", "space">>, <<"single", "a", "space", "single">>)>>
    IN  UNION {
            {[base EXCEPT !.content = <<Pair("password", v, t)>> \o rest] : t \in Spellings(v)}
            \cup {[base EXCEPT !.env = Env("password", v),
                               !.content = <<Pair("password", <<"x">>, <<"x">>)>> \o rest]}
            : v \in Text}
        \cup {[base EXCEPT !.content = <<Long>> \o rest],
              [base EXCEPT !.content = <<Pair("password", <<"x">>, <<"x">>)>>]}

\* emit: a DSN in the environment or none, twice in db.env, once behind a line
\* that is too long, or not at all; and arguments that override each other.
EmitCalls ==
    LET file == Pair("dsn", <<"x">>, <<"x">>)
        again == Export("dsn", <<"y">>, <<"single", "y", "single">>)
        none == Pair("dsn", <<>>, <<>>)
    IN  [cmd : {"emit"}, env : {Env("dsn", v) : v \in {<<>>, <<"e">>}},
         set : {{}, {1}, {2, 4}}, disabled : BOOLEAN,
         usable : BOOLEAN, content : {<<>>, <<Note>>, <<none>>, <<file, again>>, <<Long, file>>, <<file, Long, again>>},
         given : {<<>>, <<Note>>, <<Arg("kind", "k")>>,
                  <<Arg("session_id", 9), Note, Arg("step", "s"), Arg("session_id", 8)>>}]

Calls == InstallCalls \cup EmitCalls
=============================================================================
