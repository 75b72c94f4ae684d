\* Two machines and two sockets, one session id, at most two lookups in progress.
CONSTANTS
  d1 = d1
  d2 = d2
  Device = {d1, d2}
  Conn = {c1, c2}
  SessionId = {s1}
  Group = {g1}
  WakesFor <- MCWakesFor
  MaxInbound = 1
  Blocked <- MCBlocked
  MaxCalls = 2
SPECIFICATION SSpec
INVARIANTS STypeOK SlotMatchesSocket OpenSocketHoldsItsRole BlockedNeverPaired
SYMMETRY Symmetry
VIEW WithoutOut
