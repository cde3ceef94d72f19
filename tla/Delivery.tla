------------------------------ MODULE Delivery ------------------------------
(***************************************************************************)
(* What emit and drain together promise of events: one is stored at most   *)
(* once, it may wait on the machine until it is stored, and whoever loses  *)
(* it knows that and why.  Nothing is said here of processes, locks,       *)
(* copies, timeouts or the state of the server.                            *)
(***************************************************************************)
EXTENDS Naturals, Sequences

CONSTANTS
    Event,
    Id          \* Id[e]: the event_uuid of e

VARIABLES
    rows,       \* the stored events, in the order in which they arrived
    waiting,    \* the events that wait on the machine
    lost,       \* the events that were given up for a reason
    returned    \* the events whose emit has returned

vars == <<rows, waiting, lost, returned>>

Init ==
    /\ rows = <<>>
    /\ waiting = {}
    /\ lost = {}
    /\ returned = {}

Stored(e) == \E i \in DOMAIN rows : Id[rows[i]] = Id[e]

\* A row comes at any time, also long after everybody has given up waiting
\* for it, but only one for each event_uuid; and no row goes.
Store(e) ==
    /\ ~ Stored(e)
    /\ rows' = Append(rows, e)
    /\ UNCHANGED <<waiting, lost, returned>>

\* What stops waiting is stored or is known to be lost.
NoneForgotten == \A e \in waiting \ waiting' : Stored(e) \/ e \in lost

\* The event starts to wait, once and before its emit returns; others may make
\* room for it.
Park(e) ==
    /\ e \notin returned \cup waiting
    /\ e \in waiting'
    /\ waiting' \subseteq waiting \cup {e}
    /\ NoneForgotten
    /\ UNCHANGED <<rows, lost, returned>>

Clear ==
    /\ waiting' \subseteq waiting
    /\ NoneForgotten
    /\ UNCHANGED <<rows, lost, returned>>

\* Only an event that waits or is still in the hands of its emit can be lost:
\* what is stored and off the machine is nobody's to lose.
Lose(e) ==
    /\ e \in waiting \/ e \notin returned
    /\ lost' = lost \cup {e}
    /\ UNCHANGED <<rows, waiting, returned>>

\* The emit returns, and leaves its event somewhere.
Return(e) ==
    /\ e \notin returned
    /\ returned' = returned \cup {e}
    /\ lost' \in {lost, lost \cup {e}}
    /\ Stored(e) \/ e \in waiting \cup lost'
    /\ UNCHANGED <<rows, waiting>>

Next ==
    \/ \E e \in Event : Store(e) \/ Park(e) \/ Lose(e) \/ Return(e)
    \/ Clear

Spec == Init /\ [][Next]_vars
=============================================================================
