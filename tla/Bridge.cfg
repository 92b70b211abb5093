CONSTANTS
  None = None
  Devices = {d1}
  Commands = {c1, c2}
  Target <- MCTarget
  MaxLinks = 3
  MaxStates = 1
CHECK_DEADLOCK FALSE
SPECIFICATION BridgeFairSpec
INVARIANTS
  BridgeTypeOK
  OneLossPerConnection
PROPERTIES
  ResultsInOrder
  AnsweredOrLost
