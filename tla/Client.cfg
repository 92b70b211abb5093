CONSTANTS
  None = None
  Calls = {c1, c2}
  NowaitCalls = {n1}
  Policies <- MCPolicies
  DefaultPolicy <- MCDefault
  ConnectDelay = 1
  ReconnectDelay = 1
SPECIFICATION TimerSpec
INVARIANTS
  ClientTypeOK
  NoUnexpectedState
PROPERTIES
  KeepsContract
  CleanConnection
  EveryCallSettled
  DeadlineSettles
