--------------------------- MODULE MCCommandExecutor ---------------------------
(***************************************************************************)
(* CommandExecutor for TLC where waiting is the question: the setpoint has *)
(* one attempt and a dispatch deadline, the switch two attempts and none,  *)
(* and no field an interval.                                               *)
(***************************************************************************)
EXTENDS CommandExecutor, TLC

Setpoint == "setpoint"

MCValuesOf == [f \in Fields |-> Values]

MCUnlimited ==
  [f \in Fields |->
     IF f = Setpoint
       THEN [timeout |-> 1, max_attempts |-> 1, minimum_update_interval |-> 0,
             dispatch_timeout |-> 1, requires_same_connection |-> TRUE]
       ELSE [timeout |-> 1, max_attempts |-> 2, minimum_update_interval |-> 0,
             dispatch_timeout |-> None, requires_same_connection |-> FALSE]]
MCUnlimitedPolicies == {MCUnlimited[f] : f \in Fields}
MCNoIntervals == [s \in Devices \X Fields |-> 0]
===============================================================================
