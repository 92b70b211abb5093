---------------------------- MODULE MCSettingOrder ----------------------------
(***************************************************************************)
(* CommandExecutor and SettingOrder for TLC.  The setpoint is the AC300's  *)
(* charging current limit: one attempt, a dispatch deadline, an interval   *)
(* that the configuration raises.  The switch is any other field: the      *)
(* default policy, here with two attempts.                                 *)
(***************************************************************************)
EXTENDS SettingOrder, TLC

CONSTANTS SetpointValues, SwitchValues

Setpoint == "setpoint"
Switch   == "switch"

MCValues == SetpointValues \cup SwitchValues
MCValuesOf ==
  [f \in Fields |-> IF f = Setpoint THEN SetpointValues ELSE SwitchValues]

MCPolicy ==
  [f \in Fields |->
     IF f = Setpoint
       THEN [timeout |-> 1, max_attempts |-> 1, minimum_update_interval |-> 1,
             dispatch_timeout |-> 1, requires_same_connection |-> TRUE]
       ELSE [timeout |-> 1, max_attempts |-> 2, minimum_update_interval |-> 0,
             dispatch_timeout |-> None, requires_same_connection |-> FALSE]]
MCPolicies == {MCPolicy[f] : f \in Fields}
MCConfigured == [s \in Devices \X Fields |-> IF s[2] = Setpoint THEN 2 ELSE 0]

\* The register and the last command of one field are recorded.
OfSetpoint == {s \in Scopes : s[2] = Setpoint}
OfSwitch   == {s \in Scopes : s[2] = Switch}

Symmetry ==
  Permutations(Calls) \cup Permutations(SetpointValues) \cup Permutations(SwitchValues)
===============================================================================
