---------------------------- MODULE MCPolicyOrder ----------------------------
(* Instances of PolicyOrder for TLC: a census of a drop and an allow, which *)
(* a commit may reorder or halve.                                           *)
EXTENDS PolicyOrder

CONSTANTS drop, allow

Rows == {drop, allow}
Lists == {<<drop, allow>>, <<allow, drop>>, <<allow>>}
=============================================================================
