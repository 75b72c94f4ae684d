\* A session whose screen does not change.
CONSTANTS
  Monitor = {"left"}
  MinRate = 4
  DefaultRate = 6
  Ceilings = {4, 6}
  Scales = {1}
  Congested = 1
  MaxQueue = 2
  MaxCopies = 0
SPECIFICATION MlLiveSpec
PROPERTY StaticScreenStaysAlive
CHECK_DEADLOCK FALSE
