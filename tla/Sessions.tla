------------------------------ MODULE Sessions ------------------------------
(***************************************************************************)
(* The session views over the events that the pipeline delivers: sessions  *)
(* and stalled_sessions of migrations/002_views.sql and                    *)
(* 003_sessions_last_host.sql, as the command sessions                     *)
(* (cmd/autospec-db/sessions.go) shows them.  The views know an event by   *)
(* the time of its arrival, received_at; the module keeps the order in     *)
(* which events were emitted beside them, so that the two can be compared. *)
(*                                                                         *)
(* raw is in the order of received_at, but for a statement that commits    *)
(* after its client gave up: its received_at may be earlier than its place.*)
(* That event has been handed to the spool by then, and no property below  *)
(* speaks about the place of such an event.                                *)
(***************************************************************************)
EXTENDS Pipeline

CONSTANTS
    Payload     \* Payload[e]: the fields of e that the views select

\* "null" stands for a field that the payload does not have.
ASSUME PayloadAssumption ==
    Payload \in [Line -> [session_id : STRING, kind : STRING, host : STRING, step : STRING]]

VARIABLES
    emitted,    \* history: the events in the order in which they were built
    spooled,    \* history: events that were handed to the spool
    overtaken,  \* history: events on their way when another one was built
    window      \* the rows and the events that are older than the threshold

sessionVars == <<emitted, spooled, overtaken, window>>

Session == {Payload[e].session_id : e \in Line}

SessionsTypeOK ==
    /\ PipelineTypeOK
    /\ emitted \in Seq(Line)
    /\ spooled \subseteq Line
    /\ overtaken \subseteq Line
    /\ window \in [rows : 0 .. Len(raw), events : 0 .. Len(emitted)]

SessionsInit ==
    /\ Init
    /\ emitted = <<>>
    /\ spooled = {}
    /\ overtaken = {}
    /\ window = [rows |-> 0, events |-> 0]

----------------------------------------------------------------------------
(***************************************************************************)
(* The views.                                                              *)
(***************************************************************************)

\* group by session_id
RowsOf(s) == {i \in DOMAIN raw : Payload[raw[i]].session_id = s}

\* The rows that "filter (where payload->>field is not null)" leaves.
With(s, field) == {i \in RowsOf(s) : Payload[raw[i]][field] # "null"}

\* Mutation of LastRow: "order by received_at" without desc.
FirstRow(s, field) == Min(With(s, field))

\* (array_agg(... order by received_at desc) filter ...)[1], for a session
\* that has such a row.
LastRow(s, field) == Max(With(s, field))

\* bool_or(kind = ...)
Has(s, kind) == \E i \in RowsOf(s) : Payload[raw[i]].kind = kind

\* What the command sessions prints in its last column.
State(s) ==
    IF Has(s, "session.terminal") THEN "terminal"
    ELSE IF Has(s, "session.parked") THEN "parked" ELSE "active"

\* last_seen_at < now() - threshold
Silent(s) == \A i \in RowsOf(s) : i <= window.rows

\* Mutation of Stalled: a session that has no step is left out.
StalledWithStep ==
    {s \in Session : With(s, "step") # {} /\ State(s) = "active" /\ Silent(s)}

\* The sessions that stalled_sessions returns.
Stalled == {s \in Session : RowsOf(s) # {} /\ State(s) = "active" /\ Silent(s)}

----------------------------------------------------------------------------

\* This step builds the event e, or hands it to the spool.
Emits(e) == cmd[e] = "start" /\ cmd'[e] = "connect"
Spools(e) == arg[e] # e /\ arg'[e] = e

\* e is built and may still reach the server other than from the spool.
OnItsWay(e) == cmd[e] \in {"connect", "ingest"} \/ e \in inflight

\* The threshold passes, and nothing else happens meanwhile.  Bound: once, as
\* only the last time counts and any state may come before it.
Pass ==
    /\ window = [rows |-> 0, events |-> 0]
    /\ window' = [rows |-> Len(raw), events |-> Len(emitted)]
    /\ window' # window
    /\ overtaken' = overtaken \cup {e \in Line : OnItsWay(e)}
    /\ UNCHANGED <<vars, emitted, spooled>>

EmitOrDrain ==
    /\ Next
    /\ \/ \E e \in Line :
            /\ Emits(e)
            /\ emitted' = Append(emitted, e)
            /\ overtaken' = overtaken \cup
                   {f \in Line : OnItsWay(f) /\ Payload[f].session_id = Payload[e].session_id}
       \/ ~ (\E e \in Line : Emits(e)) /\ UNCHANGED <<emitted, overtaken>>
    /\ spooled' = spooled \cup {e \in Line : Spools(e)}
    /\ UNCHANGED window

SessionsNext == EmitOrDrain \/ Pass

SessionsSpec == SessionsInit /\ [][SessionsNext]_<<vars, sessionVars>>

----------------------------------------------------------------------------

\* Events that may reach the server after later ones.
Late == spooled \cup overtaken

\* The place of e among the emitted events.
Place(e) == CHOOSE n \in DOMAIN emitted : emitted[n] = e

\* The views show of each session the host and the step that it emitted last, as
\* far as it arrived; only an event that went through the spool, or was still on
\* its way when the next one was emitted, can take the place of a later one
\* (002_views.sql:15-20, 003_sessions_last_host.sql:9-20).
LastShown ==
    \A s \in Session, field \in {"host", "step"} :
        With(s, field) # {} =>
            LET shown == raw[LastRow(s, field)]
            IN  \/ shown \in Late
                \/ \A i \in With(s, field) : Place(raw[i]) <= Place(shown)

\* An active session that does not count as stalled has emitted an event within
\* the threshold, or an event of it arrived late (002_views.sql:31-39).
AliveEmits ==
    \A s \in Session :
        (RowsOf(s) # {} /\ State(s) = "active" /\ s \notin Stalled) =>
            \E n \in DOMAIN emitted :
                /\ Payload[emitted[n]].session_id = s
                /\ n > window.events \/ emitted[n] \in Late

----------------------------------------------------------------------------
(***************************************************************************)
(* The inductive invariant.                                                *)
(***************************************************************************)

SameSession(e, f) == Payload[e].session_id = Payload[f].session_id

\* An event is built once, before it can be anywhere else.
Built ==
    /\ \A m, n \in DOMAIN emitted : emitted[m] = emitted[n] => m = n
    /\ \A e \in Line :
        /\ cmd[e] = "start" => e \notin ToSet(emitted)
        /\ OnItsWay(e) \/ e \in spooled \cup ToSet(raw) => e \in ToSet(emitted)

\* e is in the spool, or a process has it in a copy, or is about to append it.
InSpool(e) ==
    e \in ToSet(file) \/ \E p \in Proc : e \in ToSet(mem[p]) \/ arg[p] = e

Handed == \A e \in Line : InSpool(e) => e \in spooled

\* An event on its way that is not late is the last one of its session, and was
\* built within the threshold.
InTurn ==
    \A n \in DOMAIN emitted :
        OnItsWay(emitted[n]) /\ emitted[n] \notin Late =>
            /\ n > window.events
            /\ \A m \in DOMAIN emitted : SameSession(emitted[m], emitted[n]) => m <= n

\* A row that is not late comes after all rows of events that were built before.
RowsInOrder ==
    \A i, j \in DOMAIN raw : \A m, n \in DOMAIN emitted :
        /\ i < j /\ SameSession(raw[i], raw[j]) /\ raw[j] \notin Late
        /\ emitted[m] = raw[i] /\ emitted[n] = raw[j]
        => m <= n

\* A row within the threshold that is not late was built within the threshold.
RowsInWindow ==
    \A i \in DOMAIN raw, n \in DOMAIN emitted :
        i > window.rows /\ emitted[n] = raw[i] /\ raw[i] \notin Late => n > window.events

SessionsInv ==
    /\ SessionsTypeOK
    /\ Built
    /\ Handed
    /\ InTurn
    /\ RowsInOrder
    /\ RowsInWindow
============================================================================
