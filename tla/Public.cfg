CONSTANTS
  None = None
  Documents <- MCDocuments
  CommandLines <- MCCommandLines
  Casefold <- MCCasefold
  Payloads <- MCPayloads
  MaxPacks = 2
  Watched = "AA:01"
SPECIFICATION InterfaceFairSpec
CHECK_DEADLOCK FALSE
INVARIANTS
  InterfaceTypeOK
  OnlyLongNumberRaises
  LegalRequests
  LimitIsOptIn
  ControlsWork
PROPERTIES
  AnnouncedIsFed
