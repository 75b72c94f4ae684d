--------------------------- MODULE SessionBroker ----------------------------
(***************************************************************************)
(* What the rendezvous service promises, without sockets, slots or frames: *)
(* the life of a session.  A session is asked for once, of a host that is  *)
(* reachable and has room; it may be accepted once; it ends once and never *)
(* comes back; and it does not outlive the reachability of its host.       *)
(***************************************************************************)
EXTENDS Naturals, FiniteSets

CONSTANTS Device, SessionId, MaxInbound

VARIABLES
  phase,       \* session -> "unborn", "pending", "ready" or "over"
  hostOf,      \* session in progress -> the device it asks for
  reachable    \* the devices that accept connections

bvars == <<phase, hostOf, reachable>>

InProgress == {s \in SessionId : phase[s] \in {"pending", "ready"}}
Load(d) == {s \in InProgress : hostOf[s] = d}

BInit ==
  /\ phase = [s \in SessionId |-> "unborn"]
  /\ hostOf = [s \in {} |-> {}]
  /\ reachable = {}

Ask(s, d) ==
  /\ phase[s] = "unborn" /\ d \in reachable /\ Cardinality(Load(d)) < MaxInbound
  /\ phase' = [phase EXCEPT ![s] = "pending"]
  /\ hostOf' = [t \in InProgress \cup {s} |-> IF t = s THEN d ELSE hostOf[t]]
  /\ UNCHANGED reachable

Accept(s) ==
  /\ phase[s] = "pending"
  /\ phase' = [phase EXCEPT ![s] = "ready"]
  /\ UNCHANGED <<hostOf, reachable>>

\* The sessions T end, and devices may start or stop accepting connections: T has every
\* session of a device that stops.
End(T) ==
  /\ reachable' \in SUBSET Device
  /\ \A d \in reachable \ reachable' : Load(d) \subseteq T
  /\ phase' = [s \in SessionId |-> IF s \in T THEN "over" ELSE phase[s]]
  /\ hostOf' = [s \in InProgress \ T |-> hostOf[s]]

BNext ==
  \/ \E s \in SessionId, d \in Device : Ask(s, d)
  \/ \E s \in SessionId : Accept(s)
  \/ \E T \in SUBSET InProgress : End(T)

BSpec == BInit /\ [][BNext]_bvars
=============================================================================
