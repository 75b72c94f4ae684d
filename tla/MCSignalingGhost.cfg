\* The smallest instance in which the claim fails.
CONSTANTS
  d1 = d1
  d2 = d2
  Device = {d1, d2}
  Conn = {c1, c2}
  SessionId = {s1}
  Group = {g1}
  WakesFor <- MCWakesFor
  MaxInbound = 1
  Blocked <- MCBlocked
  MaxCalls = 1
SPECIFICATION SSpec
INVARIANTS OnlineIsReachable
