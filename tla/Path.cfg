CONSTANTS
  None = None
  Calls = {t1, t2}
  NowaitCalls = {n1}
  Device = d1
  Fields = {"setpoint", "switch"}
  Values = {v1}
  ValuesOf <- MCValuesOf
  Policy <- MCPolicy
  Configured <- MCConfigured
  Policies <- MCPolicies
  DefaultPolicy <- MCSingle
  ConnectDelay = 1
  ReconnectDelay = 2
  Notices = {"response"}
SYMMETRY Symmetry
SPECIFICATION PathSpec
PROPERTIES
  KeepsExecutor
  WrittenInWindow
  WrittenOnItsConnection
