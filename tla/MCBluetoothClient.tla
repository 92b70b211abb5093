--------------------------- MODULE MCBluetoothClient ---------------------------
(***************************************************************************)
(* BluetoothClient for TLC: the default policy, with two attempts, and the *)
(* policy of the charging current limit.                                   *)
(***************************************************************************)
EXTENDS BluetoothClient

MCDefault ==
  [timeout |-> 1, max_attempts |-> 2, minimum_update_interval |-> 0,
   dispatch_timeout |-> None, requires_same_connection |-> FALSE]
MCSetpoint ==
  [timeout |-> 1, max_attempts |-> 1, minimum_update_interval |-> 1,
   dispatch_timeout |-> 1, requires_same_connection |-> TRUE]
MCPolicies == {MCDefault, MCSetpoint}
===============================================================================
