\* Two transfers of a file of three chunks, over two sessions; a write may fail on either side.
CONSTANTS
  MaxId = 2
  MaxSession = 2
  Size = 3
  SourceLen = {3}
  Window = 1
  AckEvery = 2
  QueueLow = 2
  MayFail = {"hostWrite", "localWrite"}
SPECIFICATION FtLiveSpec
INVARIANTS FilesIntact DoneMeansComplete InFlightBounded
PROPERTIES ImplementsCopy TransferEnds
CHECK_DEADLOCK FALSE
