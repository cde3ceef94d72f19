------------------------------- MODULE Schema -------------------------------
(***************************************************************************)
(* The migration files of the repository as Migrate sees them: the objects *)
(* that their statements make or replace, in the order of the statements.  *)
(* What a view selects is abstracted to the file its definition is from.   *)
(***************************************************************************)
EXTENDS Naturals, Sequences, TLC

EventsRaw == <<"schema", "events_raw", "event_uuid_uidx", "kind_received_idx",
               "session_idx", "host_idx", "ingest", "ingest_revoked">>
Views == <<"sessions", "stalled_sessions", "stalled", "features">>
SessionsLastHost == <<"sessions">>
ResilienceEvents == <<"resilience_events", "resilience_session">>
MissionCorrelation == <<"mission_events", "mission_idx", "execution_idx">>
ModelTokenUsage == <<"model_token_usage">>

MissionCorrelationDown == <<"mission_idx", "execution_idx", "mission_events">>
ModelTokenUsageDown == <<"model_token_usage">>

\* In the order of their names, 001 to 006.
Migrations == <<EventsRaw, Views, SessionsLastHost, ResilienceEvents,
                MissionCorrelation, ModelTokenUsage>>

\* The two files that have a rollback.
Rollbacks == 5 :> MissionCorrelationDown @@ 6 :> ModelTokenUsageDown
============================================================================
