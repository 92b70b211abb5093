CONSTANTS
  None = None
  Calls = {t1, t2, t3}
  Devices = {d1}
  Fields = {"setpoint", "switch"}
  SetpointValues = {v1, v2}
  SwitchValues = {on}
  Values <- MCValues
  ValuesOf <- MCValuesOf
  Outcomes = {"response", "timeout"}
  Policy <- MCPolicy
  Policies <- MCPolicies
  Configured <- MCConfigured
  Watched <- OfSetpoint
SYMMETRY Symmetry
SPECIFICATION OrderSpec
INVARIANTS
  TypeOK
  OneCallPerDevice
  NothingLeaked
  LastSetpointWins
PROPERTIES
  AttemptSpacing
  StatusTellsAttempt
  NoLateDispatch
  ReplayIsLastVerdict
  EndsWithResult
  AppliedMeansSet
