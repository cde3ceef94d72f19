------------------------------- MODULE Server -------------------------------
(***************************************************************************)
(* The telemetry server as its clients see it: the table events_raw with   *)
(* its unique index on event_uuid and the function ingest of               *)
(* migrations/001_events_raw.sql, reached through db.Ingest                *)
(* (internal/db/db.go).  PostgreSQL itself is modelled by what these       *)
(* clients rely on: one ingest is atomic, a client that gives up does not  *)
(* learn whether its statement commits, and a server that is reachable may *)
(* still refuse every statement.                                           *)
(***************************************************************************)
EXTENDS Lines

\* An event is identified with the line that carries it.
CONSTANTS
    Uuid,       \* Uuid[e]: its event_uuid, which k=v arguments may set
    BadData,    \* the events that the server can never store
    Healths     \* the states that the server goes through in this instance

ASSUME UuidAssumption == DOMAIN Uuid = Line
ASSUME BadDataAssumption == BadData \subseteq Line
ASSUME HealthAssumption ==
    /\ "up" \in Healths
    /\ Healths \subseteq {"up", "refusing", "down"}

VARIABLES
    raw,        \* the rows of events_raw, in the order of their ids
    health,     \* "up"; "refusing": any statement gets a PgError; "down"
    inflight    \* events whose client gave up and whose statement still runs

serverVars == <<raw, health, inflight>>

ServerTypeOK ==
    /\ raw \in Seq(Line)
    /\ health \in Healths
    /\ inflight \subseteq Line

ServerInit ==
    /\ raw = <<>>
    /\ health = "up"
    /\ inflight = {}

----------------------------------------------------------------------------

\* A row with the event_uuid of e exists, its own or another event's.
Stored(e) == \E i \in DOMAIN raw : Uuid[raw[i]] = Uuid[e]

\* Mutation of Insert: no "on conflict do nothing" and no unique index.
InsertAlways(e) == raw' = Append(raw, e)

\* insert ... on conflict (event_uuid) do nothing
Insert(e) == raw' = IF Stored(e) THEN raw ELSE Append(raw, e)

\* db.Ingest returns nil.
IngestOk(e) ==
    /\ health = "up"
    /\ e \notin BadData
    /\ Insert(e)
    /\ UNCHANGED <<health, inflight>>

\* db.Ingest returns a PgError (IsServerError): the statement failed and left
\* no row, because of the event or because of the state the server is in.
IngestRefused(e) ==
    /\ health = "refusing" \/ (health = "up" /\ e \in BadData)
    /\ UNCHANGED serverVars

\* db.Ingest returns another error, a timeout or a lost connection: the
\* statement never arrived, or it is still running at the server.
IngestLost(e) ==
    /\ \/ UNCHANGED inflight
       \/ /\ health = "up" /\ e \notin BadData
          /\ inflight' = inflight \cup {e}
    /\ UNCHANGED <<raw, health>>

\* A connection is accepted by any server that is not down.
Reachable == health # "down"

----------------------------------------------------------------------------

\* A statement whose client is gone commits after all ...
LateCommit(e) ==
    /\ e \in inflight
    /\ inflight' = inflight \ {e}
    /\ Insert(e)
    /\ UNCHANGED health

\* ... or is cancelled.
LateCancel(e) ==
    /\ e \in inflight
    /\ inflight' = inflight \ {e}
    /\ UNCHANGED <<raw, health>>

\* The server stops, comes back, loses the ingest function, is not migrated
\* yet, becomes read-only, runs out of disk, ...
HealthChange(h) ==
    /\ h # health
    /\ health' = h
    /\ UNCHANGED <<raw, inflight>>

ServerStep ==
    \/ \E e \in Line : LateCommit(e) \/ LateCancel(e)
    \/ \E h \in Healths : HealthChange(h)

----------------------------------------------------------------------------

\* No event_uuid has two rows, however often an event is sent
\* (events_raw_event_uuid_uidx and "on conflict do nothing",
\* 001_events_raw.sql:17-19 and 41-43).
StoredOnce ==
    \A i, j \in DOMAIN raw : Uuid[raw[i]] = Uuid[raw[j]] => i = j
============================================================================
