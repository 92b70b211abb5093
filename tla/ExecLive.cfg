CONSTANTS
  None = None
  Calls = {t1, t2}
  Devices = {d1, d2}
  Fields = {"setpoint", "switch"}
  Values = {v1}
  ValuesOf <- MCValuesOf
  Outcomes = {"invalid", "unexpected"}
  Policy <- MCUnlimited
  Policies <- MCUnlimitedPolicies
  Configured <- MCNoIntervals
SPECIFICATION FairSpec
PROPERTIES
  EveryCommandEnds
  DeadlineIsKept
  WaitsOnlyForOwnDevice
