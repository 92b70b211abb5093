----------------------------- MODULE MCCommandPath -----------------------------
(***************************************************************************)
(* CommandPath for TLC.  As in the code, a setpoint's dispatch timeout and *)
(* the pause before a reconnect are equal.                                 *)
(***************************************************************************)
EXTENDS CommandPath, TLC

Setpoint == "setpoint"

MCValuesOf == [f \in Fields |-> Values]

MCDefault ==
  [timeout |-> 1, max_attempts |-> 2, minimum_update_interval |-> 0,
   dispatch_timeout |-> None, requires_same_connection |-> FALSE]
MCPolicy ==
  [f \in Fields |->
     IF f = Setpoint
       THEN [timeout |-> 1, max_attempts |-> 1, minimum_update_interval |-> 1,
             dispatch_timeout |-> 2, requires_same_connection |-> TRUE]
       ELSE MCDefault]
\* The selections of packs are written once: retries are a command's here.
MCSingle == [MCDefault EXCEPT !.max_attempts = 1]
MCPolicies == {MCPolicy[f] : f \in Fields} \cup {MCSingle}
MCConfigured == [s \in {Device} \X Fields |-> 0]

Symmetry == Permutations(Calls)
===============================================================================
