------------------------------ MODULE Registry ------------------------------
(***************************************************************************)
(* The rendezvous registry of the signaling server                         *)
(* (server/src/signaling/registry.ts): which device roles are online, over *)
(* which socket, and which remote-control sessions are being paired.       *)
(*                                                                         *)
(* The code is a class with two Maps.  Both are modelled as partial        *)
(* functions: DOMAIN slot is the set of roles that are online and DOMAIN   *)
(* session the set of sessions that exist.  Every method runs to           *)
(* completion on the single Node.js thread, so every method is one action. *)
(***************************************************************************)
EXTENDS Naturals, FiniteSets, Sequences

CONSTANTS
  Device,      \* public device ids
  Conn,        \* sockets (the Connection objects handed to the registry)
  SessionId,   \* what makeSessionId can return; randomUUID never repeats
  Group,       \* wake-on-LAN groups: a (WAN address, account) pair
  WakesFor,    \* <<socket, role>> -> the groups a registration of the role over the
               \* socket helps: the socket fixes the address, the device the account,
               \* and the client whether it announces canWake
  MaxInbound   \* maxInboundPerHost

ASSUME MaxInboundAssumption == MaxInbound \in Nat

VARIABLES
  slot,        \* role -> its SlotEntry, for the roles that are online
  session,     \* id -> its Session, for the sessions that exist
  issued,      \* the session ids handed out so far
  hooks,       \* id -> the audit hooks called for it, in order
  out          \* what the last call sent, and which sockets it closed

vars == <<slot, session, issued, hooks, out>>

Kind == {"host", "controller"}
Role == Device \X Kind

\* The role a target has to hold to be connected to.
Host(d) == <<d, "host">>

(***************************************************************************)
(* A SlotEntry: its socket and the ids of the sessions it takes part in.   *)
(* A Session: who asked, who is asked, and whether the host has accepted.  *)
(***************************************************************************)
SlotEntry == [conn : Conn, sessions : SUBSET SessionId]
Session   == [controller : Role, host : Device, status : {"pending", "ready"}]

\* The Map operations of the code: set, delete.
Put(f, x, v)   == [y \in DOMAIN f \cup {x} |-> IF y = x THEN v ELSE f[y]]
Without(f, S)  == [y \in DOMAIN f \ S |-> f[y]]

Online(r) == r \in DOMAIN slot
Live(s)   == s \in DOMAIN session

\* The two ends of a session; one role when a host slot controls itself.
Sides(s) == {session[s].controller, Host(session[s].host)}

\* A frame that concerns session s, to the socket of each online role in R.
Frames(R, type, s) ==
  {[to |-> slot[r].conn, type |-> type, sid |-> s] : r \in {q \in R : Online(q)}}

\* The socket that a new registration of role r over socket c pushes out.
Replaced(r, c) ==
  {[to |-> slot[q].conn, type |-> "close"] :
      q \in {p \in {r} : Online(p) /\ slot[p].conn # c}}

-----------------------------------------------------------------------------
(***************************************************************************)
(* teardown: forget the sessions T, take each out of the slots of its      *)
(* sides, call onSessionEnd for the accepted ones, and tell every side     *)
(* that is online except the role that caused it.                          *)
(***************************************************************************)
\* Faulty variant: only the role that acts lets go of the session.
ReleasedOnlyByActor(sl, T, actor) ==
  [r \in DOMAIN sl |->
     [sl[r] EXCEPT !.sessions = @ \ {s \in T : r \in Sides(s) /\ r = actor}]]

\* The slots sl, once the sessions T are taken out of the slots of their sides.
Released(sl, T, actor) ==
  [r \in DOMAIN sl |->
     [sl[r] EXCEPT !.sessions = @ \ {s \in T : r \in Sides(s)}]]

\* Faulty variant: the end of a request that was never accepted is recorded too.
EndsForAll(T) ==
  [s \in SessionId |-> IF s \in T THEN Append(hooks[s], "end") ELSE hooks[s]]

Ended(T) ==
  [s \in SessionId |->
     IF s \in T /\ session[s].status = "ready"
     THEN Append(hooks[s], "end")
     ELSE hooks[s]]

\* Faulty variant: the wrong side is told.
NoticesToActor(T, actor) ==
  UNION {Frames(Sides(s) \cap {actor}, "session_close", s) : s \in T}

Notices(T, actor) ==
  UNION {Frames(Sides(s) \ {actor}, "session_close", s) : s \in T}

Forget(T) == session' = Without(session, T) /\ hooks' = Ended(T)

-----------------------------------------------------------------------------
(***************************************************************************)
(* online: the role gets a new slot entry; the sessions of a slot that was *)
(* there are inherited, its socket is closed when it is another one.       *)
(***************************************************************************)
\* Faulty variant: a new registration starts with an empty list.
InheritsNothing(sl, r) == {}

Inherited(sl, r) == IF r \in DOMAIN sl THEN sl[r].sessions ELSE {}

\* The slots sl, once role r is registered over socket c.
Registered(sl, r, c) ==
  Put(sl, r, [conn |-> c, sessions |-> Inherited(sl, r)])

GoOnline(r, c) ==
  /\ slot' = Registered(slot, r, c)
  /\ out' = Replaced(r, c)
  /\ UNCHANGED <<session, issued, hooks>>

(***************************************************************************)
(* offline: the role goes, if its slot still belongs to socket c, and so   *)
(* does every session of the slot.  The slot is deleted before teardown    *)
(* looks for the sides.                                                    *)
(***************************************************************************)
\* Faulty variant: the socket is not compared.
VacateAnyOwner(r, c) == Online(r)

MayVacate(r, c) == Online(r) /\ slot[r].conn = c

\* Faulty variant: requests that wait for an answer are kept.
LosesAccepted(r) == {s \in slot[r].sessions \cap DOMAIN session : session[s].status = "ready"}

Lost(r) == slot[r].sessions \cap DOMAIN session

Vacated(r) == Released(Without(slot, {r}), Lost(r), r)

GoOffline(r, c) ==
  /\ MayVacate(r, c)
  /\ slot' = Vacated(r)
  /\ Forget(Lost(r))
  /\ out' = Notices(Lost(r), r)
  /\ UNCHANGED issued

(***************************************************************************)
(* What the register handler does when its socket holds a role already:    *)
(* offline for the old role, then online for the new one, with no await in *)
(* between (ws/signaling.ts, 90-97).                                       *)
(***************************************************************************)
Reidentify(old, r, c) ==
  /\ MayVacate(old, c)
  /\ slot' = Registered(Vacated(old), r, c)
  /\ Forget(Lost(old))
  /\ out' = Notices(Lost(old), old) \cup Replaced(r, c)
  /\ UNCHANGED issued

-----------------------------------------------------------------------------
(***************************************************************************)
(* requestConnect: the target has to be online as a host and below its     *)
(* capacity.  The session id goes into the host's slot, and into the slot  *)
(* the request comes from if there is one.                                 *)
(***************************************************************************)
\* Faulty variant: <= for <.
HasRoomOffByOne(t) == Cardinality(slot[Host(t)].sessions) <= MaxInbound

HasRoom(t) == Cardinality(slot[Host(t)].sessions) < MaxInbound

Holders(from, t) == {from, Host(t)}

\* The slot table once session s is added to the slots of the roles H.
Joined(H, s) ==
  [r \in DOMAIN slot |->
     IF r \in H THEN [slot[r] EXCEPT !.sessions = @ \cup {s}] ELSE slot[r]]

RequestConnect(from, t) ==
  \E s \in SessionId \ issued :
    /\ Online(Host(t)) /\ HasRoom(t)
    /\ issued' = issued \cup {s}
    /\ session' = Put(session, s, [controller |-> from, host |-> t, status |-> "pending"])
    /\ slot' = Joined(Holders(from, t), s)
    /\ out' = Frames({Host(t)}, "incoming_request", s)
    /\ UNCHANGED hooks

(***************************************************************************)
(* acceptConnect: only the session's host, only once.  Both sides get      *)
(* connect_ready with their role; onSessionStart is called.                *)
(***************************************************************************)
MayAccept(s, by) ==
  /\ Live(s)
  /\ by = Host(session[s].host)
  /\ session[s].status = "pending"

AcceptConnect(s, by) ==
  /\ MayAccept(s, by)
  /\ session' = [session EXCEPT ![s].status = "ready"]
  /\ hooks' = [hooks EXCEPT ![s] = Append(@, "start")]
  /\ out' = Frames(Sides(s), "connect_ready", s)
  /\ UNCHANGED <<slot, issued>>

\* End session s at the wish of role by; the controller's socket also gets extra.
EndSession(s, by, extra) ==
  /\ slot' = Released(slot, {s}, by)
  /\ Forget({s})
  /\ out' = Notices({s}, by) \cup extra
  /\ UNCHANGED issued

\* rejectConnect: the host, whatever the status; the controller gets connect_err.
RejectConnect(s, by) ==
  /\ Live(s) /\ by = Host(session[s].host)
  /\ EndSession(s, by, Frames({session[s].controller}, "connect_err", s))

(***************************************************************************)
(* peerSlotOf: the slot on the other side of the session, for the role     *)
(* that speaks.  The controller's side is looked at first, which decides   *)
(* when one host slot is both sides.                                       *)
(***************************************************************************)
\* Faulty variant: any other role will do.
PeerIsAnySide(s, by) == {r \in Role : Online(r) /\ r # by}

PeerOf(s, by) ==
  {r \in Role : /\ Online(r)
                /\ \/ by = session[s].controller /\ r = Host(session[s].host)
                   \/ /\ by # session[s].controller
                      /\ by = Host(session[s].host)
                      /\ r = session[s].controller}

\* relaySignal: an opaque frame, to the peer's socket.
RelaySignal(s, by) ==
  /\ Live(s) /\ PeerOf(s, by) # {}
  /\ out' = Frames(PeerOf(s, by), "signal", s)
  /\ UNCHANGED <<slot, session, issued, hooks>>

\* closeSession: a side whose peer has a slot.
CloseSession(s, by) ==
  /\ Live(s) /\ PeerOf(s, by) # {}
  /\ EndSession(s, by, {})

(***************************************************************************)
(* dispatchWake: one wake_dispatch to every device other than the target   *)
(* that has a helper of the target's group g online, to its host socket    *)
(* when that is one and to its controller socket otherwise.                *)
(***************************************************************************)
Helps(r, g) == Online(r) /\ g \in WakesFor[<<slot[r].conn, r>>]

HelperOf(d, g) ==
  IF Helps(Host(d), g) THEN {Host(d)}
  ELSE {r \in {<<d, "controller">>} : Helps(r, g)}

Wakers(t, g) == UNION {HelperOf(d, g) : d \in Device \ {t}}

DispatchWake(t, g) ==
  /\ out' = {[to |-> slot[r].conn, type |-> "wake_dispatch", dev |-> r[1]] : r \in Wakers(t, g)}
  /\ UNCHANGED <<slot, session, issued, hooks>>

-----------------------------------------------------------------------------
Init ==
  /\ slot = <<>>
  /\ session = <<>>
  /\ issued = {}
  /\ hooks = [s \in SessionId |-> <<>>]
  /\ out = {}

Next ==
  \/ \E r \in Role, c \in Conn : GoOnline(r, c)
  \/ \E r \in Role, c \in Conn : GoOffline(r, c)
  \/ \E old, r \in Role, c \in Conn : Reidentify(old, r, c)
  \/ \E from \in Role, t \in Device : RequestConnect(from, t)
  \/ \E s \in SessionId, by \in Role : AcceptConnect(s, by)
  \/ \E s \in SessionId, by \in Role : RejectConnect(s, by)
  \/ \E s \in SessionId, by \in Role : RelaySignal(s, by)
  \/ \E s \in SessionId, by \in Role : CloseSession(s, by)
  \/ \E t \in Device, g \in Group : DispatchWake(t, g)

Spec == Init /\ [][Next]_vars

-----------------------------------------------------------------------------
Message ==
  [to : Conn, type : {"close"}]
    \cup [to : Conn, sid : SessionId,
          type : {"incoming_request", "connect_ready", "connect_err", "signal", "session_close"}]
    \cup [to : Conn, type : {"wake_dispatch"}, dev : Device]

\* The types of the five variables; an online role and a live session have full records.
TypeOK ==
  /\ DOMAIN slot \subseteq Role
  /\ slot \in [DOMAIN slot -> SlotEntry]
  /\ DOMAIN session \subseteq SessionId
  /\ session \in [DOMAIN session -> Session]
  /\ issued \subseteq SessionId
  /\ hooks \in [SessionId -> Seq({"start", "end"})]
  /\ out \subseteq Message

\* A slot only lists sessions that exist and that it is a side of: a registration that
\* inherited the sessions of the one it replaced keeps no entry for one that has ended.
HeldAreLive ==
  \A r \in DOMAIN slot : \A s \in slot[r].sessions : Live(s) /\ r \in Sides(s)

\* A session exists only while the role it asks for is online, and that role's slot
\* counts it: nothing that exists escapes the capacity check or the teardown of offline.
HostHoldsSession ==
  \A s \in DOMAIN session :
    /\ Online(Host(session[s].host))
    /\ s \in slot[Host(session[s].host)].sessions

Inbound(d) == {s \in DOMAIN session : session[s].host = d}

\* The documented limit ("max simultaneous inbound sessions per host") holds whatever the
\* order of requests, replacements, role changes and closings.
InboundBounded == \A d \in Device : Cardinality(Inbound(d)) <= MaxInbound

\* The audit hooks of a session are balanced: one start when it is accepted, one end when
\* an accepted session goes, nothing at all for a request that was never accepted.
AuditBalanced ==
  \A s \in SessionId :
    hooks[s] \in IF Live(s)
                 THEN {IF session[s].status = "ready" THEN <<"start">> ELSE <<>>}
                 ELSE {<<>>, <<"start", "end">>}

\* What a call sends about a session goes to sockets of that session's two sides only;
\* looked up before the call for a session that ends in it, after it for a new one.
TrafficStaysInside ==
  [][\A m \in out' :
       m.type \notin {"close", "wake_dispatch"} =>
         \/ /\ Live(m.sid)
            /\ \E r \in Sides(m.sid) : Online(r) /\ slot[r].conn = m.to
         \/ /\ Live(m.sid)'
            /\ \E r \in Sides(m.sid)' : Online(r)' /\ slot'[r].conn = m.to]_vars

\* A session never disappears behind the back of a side that is online: whatever ends it
\* (a close, a rejection, a lost socket, a change of role), all sides are told but the one
\* that caused it, and a side that goes offline is the one that did.
EndIsAnnounced ==
  [][\A s \in DOMAIN session \ DOMAIN session' :
       \E actor \in Sides(s) : \A r \in Sides(s) \ {actor} :
         Online(r) => /\ Online(r)'
                      /\ [to |-> slot[r].conn, type |-> "session_close", sid |-> s] \in out']_vars

\* A wake-up reaches every helping machine once: a machine that is online in both roles,
\* over two sockets, is not asked to send the packet twice.
OneWakePerDevice ==
  [][\A m, n \in out' :
       m.type = "wake_dispatch" /\ n.type = "wake_dispatch" /\ m.dev = n.dev => m = n]_vars

-----------------------------------------------------------------------------
(***************************************************************************)
(* The registry as an implementation of the session broker.  A session     *)
(* that was issued and is not in the table any more is over.               *)
(***************************************************************************)
Phase == [s \in SessionId |-> IF Live(s) THEN session[s].status
                              ELSE IF s \in issued THEN "over" ELSE "unborn"]

Broker == INSTANCE SessionBroker WITH
            phase     <- Phase,
            hostOf    <- [s \in DOMAIN session |-> session[s].host],
            reachable <- {d \in Device : Online(Host(d))}

\* Whatever the sequence of calls, the registry keeps the broker's promises about the
\* life of a session: see SessionBroker.
ImplementsBroker == Broker!BSpec
=============================================================================
