------------------------------- MODULE Inputs -------------------------------
(***************************************************************************)
(* What the commands make of their environment, files and arguments.       *)
(* emit builds its event (internal/payload) and looks for its DSN; install *)
(* reads db.conf (internal/config) and puts its settings into a connection *)
(* string (internal/db), which the driver takes apart again.  A value is a *)
(* sequence of characters here, because quoting is what can go wrong.      *)
(* The characters it is about have names: "space", "single", "double", ... *)
(***************************************************************************)
EXTENDS Naturals, Sequences, FiniteSets, SequencesExt

CONSTANTS
    Char,   \* the characters of values
    Call    \* the calls of the two commands, with all that they find

ASSUME CharAssumption == {"space", "single", "double", "backslash"} \subseteq Char

\* Of the settings: two of db.conf, and the one that emit needs of db.env.
Setting == {"password", "dbname"}
Key == Setting \cup {"dsn"}

\* The value v has neither space nor a pair of quotes at its ends.
Bare(v) ==
    LET ends == {v[i] : i \in {1, Len(v)} \cap DOMAIN v}
    IN  "space" \notin ends /\ (Len(v) < 2 \/ ends \notin {{"single"}, {"double"}})

Around(t) == {t, <<"space">> \o t, t \o <<"space">>}

\* How a user may write the value v in a file: in quotes of either kind, or as
\* it is if it is bare; with space around.
Spellings(v) ==
    LET quoted == {<<q>> \o v \o <<q>> : q \in {"single", "double"}}
    IN  UNION {Around(t) : t \in quoted \cup (IF Bare(v) THEN {v} ELSE {})}

\* env: values of the variables, empty if not set; set: which variables of
\* sessionEnvChain are; content: lines of the file; given: arguments of emit.
\* A line that the scanner refuses, of 64 KiB or more, is "long"; a comment, a
\* blank line and one without "=" are "note".  A name may stand behind "export".
\* usable: the flags and the kind of emit are as they should be.
ASSUME CallAssumption ==
    \A c \in Call :
        /\ c.cmd \in {"emit", "install"}
        /\ c.env \in [Key -> Seq(Char)] /\ c.set \subseteq 1 .. 4
        /\ c.disabled \in BOOLEAN /\ c.usable \in BOOLEAN
        /\ c.content \in Seq(ToSet(c.content)) /\ c.given \in Seq(ToSet(c.given))
        /\ \A l \in ToSet(c.content) :
               \/ l.kind \in {"note", "long"}
               \/ /\ l.kind = "pair" /\ l.key \in Key
                  /\ l.means \in Seq(Char) /\ l.value \in Spellings(l.means)
                  /\ l.left \in {<<l.key>>, <<"export", l.key>>}
        /\ \A a \in ToSet(c.given) : a.kind \in {"pair", "note"}

VARIABLES
    call,       \* the call
    stage,      \* where the command or, for the connection string, the driver is
    text,       \* the arguments, lines or characters that it reads
    pos,        \* which of them is the next
    kv,         \* what was read of the file
    event,      \* the event that emit builds
    settings,   \* what the command connects with
    name        \* the keyword whose value the driver reads

vars == <<call, stage, text, pos, kv, event, settings, name>>

Ended == {"silent", "connect", "refused", "incomplete"}
Stage == {"start", "build", "scan", "keyword", "value", "plain", "quoted"} \cup Ended

Init ==
    /\ call \in Call
    /\ stage = "start"
    /\ text = <<>> /\ pos = 1
    /\ kv = <<>> /\ event = <<>> /\ settings = <<>>
    /\ name = "none"

----------------------------------------------------------------------------

\* The next argument, line or character.
This == text[pos]

\* This step reads it.
Reads(here) == stage = here /\ pos <= Len(text) /\ pos' = pos + 1 /\ UNCHANGED text

AllRead(here) == stage = here /\ pos > Len(text)

Opens(s) == text' = s /\ pos' = 1

\* m[k] = v
Assigned(m, k, v) == [x \in DOMAIN m \cup {k} |-> IF x = k THEN v ELSE m[x]]

\* AUTOSPEC_DB_DISABLE is set, or the arguments are of no use.
ReturnAtOnce ==
    /\ stage = "start" /\ call.cmd = "emit" /\ (call.disabled \/ ~ call.usable)
    /\ stage' = "silent"
    /\ UNCHANGED <<call, text, pos, kv, event, settings, name>>

\* Mutation of SessionID: the chain is searched from its end.
LastHarness == IF call.set = {} THEN 0 ELSE Max(call.set)

\* The first variable of sessionEnvChain that is set, or the parent's pid (0).
SessionID == IF call.set = {} THEN 0 ELSE Min(call.set)

AutoFields ==
    [f \in {"schema", "event_uuid", "kind", "ts", "session_id", "host"} |->
        IF f = "session_id" THEN SessionID ELSE "auto"]

Build ==
    /\ stage = "start" /\ call.cmd = "emit" /\ ~ call.disabled /\ call.usable
    /\ stage' = "build"
    /\ Opens(call.given)
    /\ event' = AutoFields
    /\ UNCHANGED <<call, kv, settings, name>>

\* Mutation of MergeArg: the arguments do not override what is there.
MergeArgBelow ==
    /\ Reads("build")
    /\ event' = IF This.kind = "note" \/ This.key \in DOMAIN event THEN event
                ELSE Assigned(event, This.key, This.value)
    /\ UNCHANGED <<call, stage, kv, settings, name>>

\* A k=v argument, which may override what is there, or one without "=".
MergeArg ==
    /\ Reads("build")
    /\ event' = IF This.kind = "note" THEN event
                ELSE Assigned(event, This.key, This.value)
    /\ UNCHANGED <<call, stage, kv, settings, name>>

----------------------------------------------------------------------------

\* A DSN in the environment wins, and the file is not opened.
DsnOfEnv ==
    /\ AllRead("build") /\ call.env.dsn # <<>>
    /\ stage' = "connect"
    /\ settings' = [dsn |-> call.env.dsn]
    /\ UNCHANGED <<call, text, pos, kv, event, name>>

OpenFile ==
    /\ \/ AllRead("build") /\ call.env.dsn = <<>>
       \/ stage = "start" /\ call.cmd = "install"
    /\ stage' = "scan"
    /\ Opens(call.content)
    /\ UNCHANGED <<call, kv, event, settings, name>>

\* strings.TrimSpace
Trimmed(v) ==
    LET ink == {i \in DOMAIN v : v[i] # "space"}
    IN  IF ink = {} THEN <<>> ELSE SubSeq(v, Min(ink), Max(ink))

\* One pair of quotes around the value goes.
Unquoted(v) ==
    IF Len(v) >= 2 /\ v[1] = v[Len(v)] /\ v[1] \in {"single", "double"}
    THEN SubSeq(v, 2, Len(v) - 1) ELSE v

\* Mutation of NameOf: "export" is not cut off.
FirstWord(left) == Head(left)

NameOf(left) == Last(left)

\* Mutation of ScanLine: the first line wins.
ScanLineBelow ==
    /\ Reads("scan") /\ This.kind # "long"
    /\ kv' = IF This.kind = "note" \/ NameOf(This.left) \in DOMAIN kv THEN kv
             ELSE Assigned(kv, NameOf(This.left), Unquoted(Trimmed(This.value)))
    /\ UNCHANGED <<call, stage, event, settings, name>>

ScanLine ==
    /\ Reads("scan") /\ This.kind # "long"
    /\ kv' = IF This.kind = "note" THEN kv
             ELSE Assigned(kv, NameOf(This.left), Unquoted(Trimmed(This.value)))
    /\ UNCHANGED <<call, stage, event, settings, name>>

\* The scanner gives up, and nobody asks it for an error.
ScanFails ==
    /\ stage = "scan" /\ pos <= Len(text) /\ This.kind = "long"
    /\ pos' = Len(text) + 1
    /\ UNCHANGED <<call, stage, text, kv, event, settings, name>>

\* The file of emit has a DSN, be it an empty one, or emit is a silent no-op.
DsnOfFile ==
    /\ AllRead("scan") /\ call.cmd = "emit"
    /\ IF "dsn" \in DOMAIN kv
       THEN stage' = "connect" /\ settings' = [dsn |-> kv["dsn"]]
       ELSE stage' = "silent" /\ UNCHANGED settings
    /\ UNCHANGED <<call, text, pos, kv, event, name>>

\* Mutation of LoadConf: the file wins.
FileWins(k) == IF k \in DOMAIN kv THEN kv[k] ELSE call.env[k]

\* A variable of the environment always wins, unless it is empty.
LoadConf(k) ==
    IF call.env[k] # <<>> THEN call.env[k]
    ELSE IF k \in DOMAIN kv THEN kv[k] ELSE <<>>

\* What has to be escaped within quotes.
Special == {"single", "backslash"}

\* Mutation of Place: the escapes for quotes are escaped themselves.
PlaceTwice(v, i) ==
    i + Cardinality({j \in 1 .. i : v[j] \in Special}) + Cardinality({j \in 1 .. i : v[j] = "single"})

\* Where the i-th character of v is, when each special one has a backslash before it.
Place(v, i) == i + Cardinality({j \in 1 .. i : v[j] \in Special})

Escaped(v) ==
    [p \in 1 .. Place(v, Len(v)) |->
        IF \E i \in DOMAIN v : Place(v, i) = p
        THEN v[CHOOSE i \in DOMAIN v : Place(v, i) = p] ELSE "backslash"]

NeedsQuotes(v) == v = <<>> \/ \E i \in DOMAIN v : v[i] \in Special \cup {"space"}

\* Only values that need it are put in quotes.
EscapeConninfo(v) ==
    IF NeedsQuotes(v) THEN <<"single">> \o Escaped(v) \o <<"single">> ELSE v

ConnectionString ==
    <<"password">> \o EscapeConninfo(LoadConf("password")) \o <<"space">>
    \o <<"dbname">> \o EscapeConninfo(LoadConf("dbname"))

\* install refuses to go on without a setting, one line per setting in the code.
Incomplete ==
    /\ AllRead("scan") /\ call.cmd = "install"
    /\ \E k \in Setting : LoadConf(k) = <<>>
    /\ stage' = "incomplete"
    /\ UNCHANGED <<call, text, pos, kv, event, settings, name>>

\* Connect composes the connection string, of settings that are all there.
Connect ==
    /\ AllRead("scan") /\ call.cmd = "install"
    /\ \A k \in Setting : LoadConf(k) # <<>>
    /\ stage' = "keyword"
    /\ Opens(ConnectionString)
    /\ UNCHANGED <<call, kv, event, settings, name>>

----------------------------------------------------------------------------
(***************************************************************************)
(* The driver, which reads a connection string by the rules of libpq.  A   *)
(* keyword and its "=" are one character of the string.                    *)
(***************************************************************************)

Take(c) == settings' = [settings EXCEPT ![name] = Append(@, c)]

ReadSpace ==
    /\ stage \in {"keyword", "value", "plain"} /\ Reads(stage) /\ This = "space"
    /\ stage' = IF stage = "plain" THEN "keyword" ELSE stage
    /\ UNCHANGED <<call, kv, event, settings, name>>

ReadKeyword ==
    /\ Reads("keyword") /\ This # "space"
    /\ IF This \in Setting
       THEN /\ stage' = "value"
            /\ name' = This
            /\ settings' = Assigned(settings, This, <<>>)
       ELSE stage' = "refused" /\ UNCHANGED <<name, settings>>
    /\ UNCHANGED <<call, kv, event>>

ReadQuote ==
    /\ stage \in {"value", "quoted"} /\ Reads(stage) /\ This = "single"
    /\ stage' = IF stage = "value" THEN "quoted" ELSE "keyword"
    /\ UNCHANGED <<call, kv, event, settings, name>>

\* A backslash takes the next character, whatever it is.
ReadEscape ==
    /\ stage \in {"value", "plain", "quoted"}
    /\ pos < Len(text) /\ This = "backslash"
    /\ pos' = pos + 2
    /\ Take(text[pos + 1])
    /\ stage' = IF stage = "quoted" THEN stage ELSE "plain"
    /\ UNCHANGED <<call, text, kv, event, name>>

ReadCharacter ==
    /\ \/ Reads("quoted") /\ This \notin {"single", "backslash"} /\ UNCHANGED stage
       \/ Reads("plain") /\ This \notin {"space", "backslash"} /\ UNCHANGED stage
       \/ Reads("value") /\ This \notin {"space", "single", "backslash"} /\ stage' = "plain"
    /\ Take(This)
    /\ UNCHANGED <<call, kv, event, name>>

ReadEnd ==
    /\ stage \in {"keyword", "value", "plain", "quoted"}
    /\ \/ pos > Len(text)
       \/ pos = Len(text) /\ This = "backslash"
    /\ stage' = IF pos > Len(text) /\ stage # "quoted" THEN "connect" ELSE "refused"
    /\ UNCHANGED <<call, text, pos, kv, event, settings, name>>

Driver ==
    ReadSpace \/ ReadKeyword \/ ReadQuote \/ ReadEscape \/ ReadCharacter \/ ReadEnd

Next ==
    \/ ReturnAtOnce \/ Build \/ MergeArg \/ DsnOfEnv \/ OpenFile
    \/ ScanLine \/ ScanFails \/ DsnOfFile \/ Incomplete \/ Connect \/ Driver

Spec == Init /\ [][Next]_vars

----------------------------------------------------------------------------

Says(s, i, k) == s[i].kind = "pair" /\ s[i].key = k

\* The i-th of s is the last pair with the key k among the first n of s.
LastOf(s, n, i, k) ==
    i \in 1 .. n /\ Says(s, i, k) /\ \A j \in i + 1 .. n : ~ Says(s, j, k)

\* The keys of the pairs among the first n of s.
Named(s, n) == {s[i].key : i \in {j \in 1 .. n : s[j].kind = "pair"}}

\* The last pair of s with the key k, as a set.
LastPair(s, k) == {s[i] : i \in {j \in DOMAIN s : LastOf(s, Len(s), j, k)}}

\* Bound: a line of 64 KiB ends the reading of a file, and no property speaks
\* about what is behind it.
Legible == \A l \in ToSet(call.content) : l.kind # "long"

\* Each command goes its own way through the stages, and emit only with reason.
WayOK ==
    /\ call.cmd = "emit" =>
        /\ stage \in {"start", "build", "scan", "silent", "connect"}
        /\ stage \notin {"start", "silent"} => ~ call.disabled /\ call.usable
        /\ stage = "scan" => call.env["dsn"] = <<>>
    /\ call.cmd = "install" => stage \notin {"build", "silent"}

\* Each field is as the last of the arguments read so far says, or of emit itself.
MergedOK ==
    LET n == IF stage = "build" THEN pos - 1 ELSE Len(call.given)
    IN  (call.cmd = "emit" /\ stage # "start" /\ ~ call.disabled /\ call.usable) =>
            /\ stage = "build" => text = call.given /\ pos \in 1 .. Len(text) + 1
            /\ DOMAIN event = DOMAIN AutoFields \cup Named(call.given, n)
            /\ \A f \in DOMAIN event :
                   \/ \E i \in 1 .. n : LastOf(call.given, n, i, f) /\ event[f] = call.given[i].value
                   \/ /\ f \in DOMAIN AutoFields /\ event[f] = AutoFields[f]
                      /\ \A i \in 1 .. n : ~ Says(call.given, i, f)

\* kv is what the first n lines mean.
Gathered(n) ==
    Legible =>
        /\ DOMAIN kv = Named(call.content, n)
        /\ \A k \in DOMAIN kv : \E i \in 1 .. n :
               LastOf(call.content, n, i, k) /\ kv[k] = call.content[i].means

\* The command has read the file, or would have if its DSN were not given.
FileRead ==
    /\ stage \notin {"start", "build", "scan"}
    /\ call.cmd = "emit" => ~ call.disabled /\ call.usable /\ call.env["dsn"] = <<>>

GatheredOK ==
    /\ DOMAIN kv \subseteq Key /\ \A k \in DOMAIN kv : kv[k] \in Seq(Char)
    /\ stage \in {"start", "build"} => kv = <<>>
    /\ stage = "scan" =>
        text = call.content /\ pos \in 1 .. Len(text) + 1 /\ Gathered(pos - 1)
    /\ FileRead => Gathered(Len(call.content))

\* emit has the DSN of the environment or else of the file, if there is one.
SourceOK ==
    LET found == call.env["dsn"] # <<>> \/ "dsn" \in DOMAIN kv
    IN  call.cmd = "emit" =>
            /\ stage = "silent" => call.disabled \/ ~ call.usable \/ ~ found
            /\ stage = "connect" =>
                /\ found
                /\ settings["dsn"] = IF call.env["dsn"] # <<>> THEN call.env["dsn"] ELSE kv["dsn"]

\* Where the value of the setting k starts in the connection string.
Starts(k) ==
    IF k = "password" THEN 2 ELSE Len(EscapeConninfo(LoadConf("password"))) + 4

\* The driver is where it has read as much of the value as it holds.
ReadingOK ==
    LET v == LoadConf(name)
        n == Len(settings[name])
        end == Starts(name) + Len(EscapeConninfo(v))
    IN  /\ n \in 0 .. Len(v) /\ settings[name] = SubSeq(v, 1, n)
        /\ stage = "value" => n = 0 /\ pos = Starts(name)
        /\ stage = "plain" => ~ NeedsQuotes(v) /\ n > 0 /\ pos = Starts(name) + n
        /\ stage = "quoted" => NeedsQuotes(v) /\ pos = Starts(name) + Place(v, n) + 1
        /\ stage = "keyword" => n = Len(v) /\ pos \in end .. IF name = "password" THEN end + 1 ELSE end
        /\ stage = "connect" => n = Len(v)

DriverOK ==
    LET driven == stage \in {"keyword", "value", "plain", "quoted", "connect"}
    IN  call.cmd = "install" =>
            /\ stage # "refused"
            /\ driven => text = ConnectionString
            /\ (~ driven \/ name = "none") => settings = <<>> /\ name = "none"
            /\ (driven /\ name = "none") => stage = "keyword" /\ pos = 1
            /\ name = "password" => DOMAIN settings = {"password"} /\ stage # "connect"
            /\ name = "dbname" =>
                DOMAIN settings = Setting /\ settings["password"] = LoadConf("password")
            /\ name # "none" => ReadingOK

\* install goes on to connect only with settings that are all there.
CompleteOK ==
    call.cmd = "install" =>
        /\ stage = "incomplete" => \E k \in Setting : LoadConf(k) = <<>>
        /\ stage \in {"keyword", "value", "plain", "quoted", "connect"} =>
               \A k \in Setting : LoadConf(k) # <<>>

\* The inductive invariant.
InputsInv ==
    /\ call \in Call /\ stage \in Stage /\ name \in Setting \cup {"none"}
    /\ WayOK /\ MergedOK /\ GatheredOK /\ SourceOK /\ CompleteOK /\ DriverOK

\* What the user wants k to be, if anything: nothing behind the "=" is nothing.
Meant(k) ==
    IF call.env[k] # <<>> THEN {call.env[k]}
    ELSE {l.means : l \in LastPair(call.content, k)} \ {<<>>}

\* The environment has no DSN, and the last line of db.env for it has nothing
\* behind the "=".  EmitDSN takes that for a DSN (config.go:138-152) and emit connects
\* with an empty string, where README.md:73 and emit.go:46 promise a no-op.
BlankDsn ==
    /\ call.env["dsn"] = <<>>
    /\ \E l \in LastPair(call.content, "dsn") : l.means = <<>>

\* The event has all fields that emit adds by itself, and of each field what
\* the last argument for it says (payload.go:50-53).
EventAsAsked ==
    (call.cmd = "emit" /\ stage \in Ended /\ ~ call.disabled /\ call.usable) =>
        /\ DOMAIN event = DOMAIN AutoFields \cup Named(call.given, Len(call.given))
        /\ \A f \in DOMAIN event :
               LET asked == LastPair(call.given, f)
               IN  IF asked = {} THEN event[f] = AutoFields[f]
                   ELSE event[f] \in {a.value : a \in asked}
        /\ LastPair(call.given, "session_id") = {} =>
               \A n \in call.set : event["session_id"] \in 1 .. n

\* emit connects with the DSN that its user means, and is silent if and only if
\* it is disabled or has none, but for a line for the DSN with nothing in it
\* (config.go:145-153, emit.go:46-50).
SilentWithoutDsn ==
    (call.cmd = "emit" /\ stage \in Ended /\ Legible /\ ~ BlankDsn) =>
        IF call.disabled \/ ~ call.usable \/ Meant("dsn") = {} THEN stage = "silent"
        ELSE stage = "connect" /\ settings.dsn \in Meant("dsn")

\* When the user gives every setting, what the driver of install reads from the
\* connection string are those values, whatever characters they have and however
\* db.conf spells them; when one is missing or empty, however that is spelled,
\* install refuses and does not connect (config.go:76-136, install.go:70-91, db.go:30-43).
SettingsArrive ==
    (call.cmd = "install" /\ stage \in Ended /\ Legible) =>
        IF \E k \in Setting : Meant(k) = {} THEN stage = "incomplete" /\ settings = <<>>
        ELSE stage = "connect" /\ \A k \in Setting : settings[k] \in Meant(k)
============================================================================
