----------------------------- MODULE MCPipeline -----------------------------
(***************************************************************************)
(* Small pipelines for TLC: two emit processes and one drain command on a  *)
(* machine whose spool holds one line or two.                              *)
(***************************************************************************)
EXTENDS Pipeline, TLC

CONSTANTS e1, e2, d

Two == {e1, e2}
OneDrainer == {d}
TwoAndDrainer == Two \cup OneDrainer

UnitSize == [l \in Line |-> 1]
\* emit drains one line at a time here, the drain command all of them.
EmitLimits == [p \in Proc |-> IF p \in Line THEN 1 ELSE 0]

OwnUuid == [l \in Line |-> l]
============================================================================
