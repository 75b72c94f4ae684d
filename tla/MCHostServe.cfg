\* Two requests; a permanent password is set; the code is rotated once at most.
CONSTANTS
  SessionId = {s1, s2}
  HasPermanent = TRUE
  MaxCode = 2
SPECIFICATION Spec
INVARIANTS ConsentGiven OneCapture NoRequestForgotten CodeOnDisplay
PROPERTY ImplementsHost
SYMMETRY Symmetry
CONSTRAINT ShortInbox
VIEW WithoutLateRotate
CHECK_DEADLOCK FALSE
