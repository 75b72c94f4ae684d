\* Two requests, no rotation of the code.
CONSTANTS
  SessionId = {s1, s2}
  HasPermanent = FALSE
  MaxCode = 1
SPECIFICATION Spec
PROPERTIES RequestIsAnswered StopIsHeeded
CHECK_DEADLOCK FALSE
