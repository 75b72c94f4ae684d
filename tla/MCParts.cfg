CONSTANTS
  Monitor = {"left", "right"}
  MinRate = 4
  DefaultRate = 6
  Ceilings = {4, 5}
  Scales = {2}
  Congested = 1
  MaxQueue = 2
  MaxCopies = 1
  WinSession = {"s1", "s2"}
  Process = {"p1", "p2"}
  Desktop = {"default", "winlogon"}
  Home = "default"
  Output = {0, 1}
  AnyOutput = {0, 1}
  Room = 1
  MaxProbes = 1
  Password = {"p", "q"}
  FrameSizes <- FS
  MaxBatch = 3
  Lifetime = 6
  MinInterval = 2
  SetupTime = 2
  MaxNonce = 4
  Calling = {"c1", "c2"}
  Hosting = {"h1"}
  Attempt = {"a1", "a2"}
  Key = {"k1", "k2", "k3"}
  Limit = 2
  WindowLen = 2
  MaxKeys = 1
SPECIFICATION PartsSpec
INVARIANTS EncoderFits LocalRestored NoEcho NothingLeftBehind NothingOutlives ConfirmedAgree FramesArrive AllocationLives NothingLeftOpen  AtMostTwice
PROPERTIES ImplementsChannel RateRecovers ConsoleIsServed PictureFollows PanelAnswers DeadSocketIsCutOff
VIEW WithoutOut
CHECK_DEADLOCK FALSE
