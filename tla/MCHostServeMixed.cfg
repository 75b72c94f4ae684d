\* The smallest instance in which the claim fails.
CONSTANTS
  SessionId = {s1, s2}
  HasPermanent = TRUE
  MaxCode = 1
SPECIFICATION Spec
INVARIANTS ServesWhatItAccepted
CHECK_DEADLOCK FALSE
