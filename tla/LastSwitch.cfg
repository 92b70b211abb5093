CONSTANTS
  None = None
  Calls = {t1, t2, t3}
  Devices = {d1}
  Fields = {"switch"}
  SetpointValues = {}
  SwitchValues = {v1, v2}
  Values <- MCValues
  ValuesOf <- MCValuesOf
  Outcomes = {"response", "timeout"}
  Policy <- MCPolicy
  Policies <- MCPolicies
  Configured <- MCConfigured
  Watched <- OfSwitch
SYMMETRY Symmetry
SPECIFICATION OrderSpec
INVARIANT LastSwitchWins
