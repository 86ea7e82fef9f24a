CONSTANTS
  Devices = {d1, d2, d3}
  MaxChange = 4
  MaxError = 2
SPECIFICATION FairSpec
INVARIANTS
  TypeOK
  NoLostChange
PROPERTY PublishesLatest
CHECK_DEADLOCK FALSE
