----------------------------- MODULE MCSessions -----------------------------
(***************************************************************************)
(* One session that emits two or three events, which it also counts tokens *)
(* with; the spool holds two lines, and the emits themselves drain it.  Of *)
(* three events the second is one that the server refuses.                 *)
(***************************************************************************)
EXTENDS Sessions, Usage, TLC

CONSTANTS e1, e2, e3

Two == {e1, e2}
Three == {e1, e2, e3}
NoDrainer == {}

UnitSize == [l \in Line |-> 1]
\* An emit drains two lines at most.
EmitLimits == [p \in Proc |-> 2]

\* The first two events carry the same event_uuid.
SharedUuid == [l \in Line |-> IF l = e2 THEN e1 ELSE l]
OwnUuid == [l \in Line |-> l]

Event(kind, host, step) ==
    [session_id |-> "s", kind |-> kind, host |-> host, step |-> step]

\* The session moves from home to the office.
Payloads ==
    [l \in Line |-> CASE l = e1 -> Event("heartbeat", "home", "null")
                      [] l = e2 -> Event("step", "office", "plan")
                      [] OTHER  -> Event("session.terminal", "office", "end")]

\* Counts that show which events were summed and how often, and one that no
\* bigint holds.
PowersOfFour ==
    e1 :> [digits |-> TRUE, number |-> 1] @@ e2 :> [digits |-> TRUE, number |-> 4]
    @@ e3 :> [digits |-> TRUE, number |-> 16]
OneTooLong ==
    e1 :> [digits |-> FALSE, number |-> 0] @@ e2 :> [digits |-> TRUE, number |-> 8]
============================================================================
