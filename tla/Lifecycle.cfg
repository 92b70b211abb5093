CONSTANTS
  None = None
  Devices = {d1, d2}
  Unusable = {d2}
  Commands = {c1}
  MaxSignals = 1
  MaxBroken = 1
SPECIFICATION LifecycleSpec
CHECK_DEADLOCK FALSE
INVARIANTS
  LifecycleTypeOK
  NothingPending
  DisconnectsInPeace
PROPERTIES
  OnlyMqttOutlives
