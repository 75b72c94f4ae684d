\* Two machines, three sockets, two session ids, room for one session per host.
CONSTANTS
  Device = {d1, d2}
  Conn = {c1, c2, c3}
  SessionId = {s1, s2}
  Group = {g1}
  WakesFor <- MCWakesFor
  MaxInbound = 1
SPECIFICATION Spec
INVARIANTS HeldAreLive HostHoldsSession InboundBounded AuditBalanced
PROPERTIES TrafficStaysInside EndIsAnnounced ImplementsBroker
SYMMETRY Symmetry
VIEW WithoutOut
CHECK_DEADLOCK FALSE
