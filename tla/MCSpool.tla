------------------------------ MODULE MCSpool ------------------------------
(***************************************************************************)
(* A small spool for TLC: two processes, one of which limits and times its *)
(* drains (as emit does), the other not (as the drain command does), and   *)
(* lines of which the long one is over the cap by itself.                  *)
(***************************************************************************)
EXTENDS Spool, TLC

CONSTANTS p1, p2, short, middle, long

MCProc == {p1, p2}
MCLine == {short, middle, long}
MCSize == short :> 1 @@ middle :> 2 @@ long :> 6
MCMaxLines == p1 :> 1 @@ p2 :> 0
MCTimed == {p1}
============================================================================
