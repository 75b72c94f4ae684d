\* One session, and two transfers of which a write on the controller may fail.
CONSTANTS
  MaxId = 2
  MaxSession = 1
  Size = 2
  SourceLen = {2}
  Window = 1
  AckEvery = 2
  QueueLow = 2
  MayFail = {"localWrite"}
SPECIFICATION FtSpec
INVARIANTS TransfersReliably
CHECK_DEADLOCK FALSE
