--------------------------- MODULE MCBulkDispatch ---------------------------
(* Servers for TLC: one that grants bulk requests, one that grants smaller  *)
(* ones, one that grants none; a session ends and the next one is of any.   *)
EXTENDS BulkDispatch

Roomy  == [age |-> 3, allow |-> TRUE, max |-> 2]
Tight  == [age |-> 3, allow |-> TRUE, max |-> 1]
Single == [age |-> 0, allow |-> FALSE, max |-> 1]

MCPolicies == {Roomy, Tight, Single}
MCSkew == -1
=============================================================================
