CONSTANTS
  None = None
  Calls = {c1, r1}
  ReadCall = r1
  NowaitCalls = {}
  Policies <- MCPolicies
  DefaultPolicy <- MCDefault
  ConnectDelay = 1
  ReconnectDelay = 2
  Function <- MCFunction
  Size <- MCSize
  ExceptionSize = 1
  Window = 1
  MaxAir = 4
SPECIFICATION FramedSpec
PROPERTY QuietBeforeAccepted
