----------------------------- MODULE Signaling ------------------------------
(***************************************************************************)
(* The WebSocket endpoint of the signaling server                          *)
(* (server/src/ws/signaling.ts) on top of the registry.                    *)
(*                                                                         *)
(* Node.js runs one handler at a time, but the handlers of register,       *)
(* connect_request and wake await a database lookup: between the lookup    *)
(* and the rest of the handler any other message, on this socket or        *)
(* another, and any close event may be handled.  A call in progress is an  *)
(* element of calls; its second half is an action of its own, which reads  *)
(* the socket's identity when it runs, as the code does.  The other        *)
(* messages are handled without an await.                                  *)
(*                                                                         *)
(* A message the endpoint or the registry refuses changes no state, it is  *)
(* only answered; such steps stutter and are left out.  So are the answers *)
(* to the sender (register_ok, connect_err, wake_result, presence_state).  *)
(***************************************************************************)
EXTENDS Registry

CONSTANTS
  Blocked,     \* <<target, controller>> pairs that the targets' lists refuse
  MaxCalls     \* bound of the model: lookups in progress at any one time

VARIABLES
  sock,        \* socket -> "open", "closing" (close or terminate was called) or "closed"
  ident,       \* socket -> the role it registered last; no entry before that
  calls,       \* socket -> its calls that wait for the database
  alive,       \* the sockets that answered since the last heartbeat
  hung         \* the sockets whose peer vanished without closing

socketVars == <<sock, ident, calls, alive, hung>>
svars == <<vars, socketVars>>

Call == [type : {"register"}, role : Role] \cup [type : {"connect", "wake"}, target : Device]

InProgress == UNION {{c} \X calls[c] : c \in Conn}

\* The ws library hands over messages until the close event, also after close().
CanReceive(c) == sock[c] # "closed" /\ c \notin hung

HasRole(c) == c \in DOMAIN ident

-----------------------------------------------------------------------------
\* The first half of a handler: the lookup is under way.
Begin(c, call) ==
  /\ CanReceive(c)
  /\ Cardinality(InProgress) < MaxCalls
  /\ calls' = [calls EXCEPT ![c] = @ \cup {call}]
  /\ UNCHANGED <<vars, sock, ident, alive, hung>>

ReceiveRegister(c, r) == Begin(c, [type |-> "register", role |-> r])

ReceiveConnect(c, t) == HasRole(c) /\ Begin(c, [type |-> "connect", target |-> t])

ReceiveWake(c, t) == HasRole(c) /\ Begin(c, [type |-> "wake", target |-> t])

Answered(c, call) == calls' = [calls EXCEPT ![c] = @ \ {call}]

\* Faulty variant: sockets are forgotten when they are closed.
ClosingForgotten(C) == [c \in Conn \ C |-> sock[c]]

\* close() on the sockets C: nothing happens to one that is closing or closed already.
Closing(C) == [c \in Conn |-> IF c \in C /\ sock[c] = "open" THEN "closing" ELSE sock[c]]

-----------------------------------------------------------------------------
(***************************************************************************)
(* The second half of register.                                            *)
(***************************************************************************)
\* The lookup failed, or the device or its secret is wrong: the socket is closed.
RegisterFails(c, call) ==
  /\ call \in calls[c] /\ call.type = "register"
  /\ Answered(c, call)
  /\ sock' = Closing({c})
  /\ UNCHANGED <<vars, ident, alive, hung>>

\* Faulty variant: a socket that registers again is not taken out of its old slot.
ForgetsOldRole(c) == {}

\* The role this socket has to give up before it registers another.
OldRole(c) == {r \in Role : HasRole(c) /\ ident[c] = r /\ MayVacate(r, c)}

\* The socket becomes r: its old role, if the registry still has it, goes first.
Registers(c, call) ==
  /\ call \in calls[c] /\ call.type = "register"
  /\ Answered(c, call)
  /\ IF OldRole(c) = {}
     THEN GoOnline(call.role, c)
     ELSE \E old \in OldRole(c) : Reidentify(old, call.role, c)
  /\ ident' = Put(ident, c, call.role)
  /\ sock' = Closing({m.to : m \in {n \in out' : n.type = "close"}})
  /\ UNCHANGED <<alive, hung>>

(***************************************************************************)
(* The second half of connect_request.  The target's lists and the request *)
(* are both about the identity the socket has now.                         *)
(***************************************************************************)
\* Faulty variant: the lists are not consulted.
AllowsAnyone(c, t) == TRUE

Allowed(c, t) == <<t, ident[c][1]>> \notin Blocked

\* Refused by the target's lists, or the lookup failed (the check fails closed).
ConnectDenied(c, call) ==
  /\ call \in calls[c] /\ call.type = "connect"
  /\ Answered(c, call)
  /\ UNCHANGED <<vars, sock, ident, alive, hung>>

Connects(c, call) ==
  /\ call \in calls[c] /\ call.type = "connect"
  /\ Allowed(c, call.target)
  /\ Answered(c, call)
  /\ RequestConnect(ident[c], call.target)
  /\ UNCHANGED <<sock, ident, alive, hung>>

\* The second half of wake; the target's group is what the database knows of it.
WakeFails(c, call) ==
  /\ call \in calls[c] /\ call.type = "wake"
  /\ Answered(c, call)
  /\ UNCHANGED <<vars, sock, ident, alive, hung>>

Wakes(c, call) ==
  /\ call \in calls[c] /\ call.type = "wake"
  /\ Answered(c, call)
  /\ \E g \in Group : DispatchWake(call.target, g)
  /\ UNCHANGED <<sock, ident, alive, hung>>

-----------------------------------------------------------------------------
(***************************************************************************)
(* Messages handled at once, on behalf of the role of the socket.  The     *)
(* registry knows the role only: it does not ask whether the socket still  *)
(* owns the slot.                                                          *)
(***************************************************************************)
Receives(c) == CanReceive(c) /\ HasRole(c) /\ UNCHANGED socketVars

ReceiveAccept(c, s) == Receives(c) /\ AcceptConnect(s, ident[c])
ReceiveReject(c, s) == Receives(c) /\ RejectConnect(s, ident[c])
ReceiveSignal(c, s) == Receives(c) /\ RelaySignal(s, ident[c])
ReceiveClose(c, s)  == Receives(c) /\ CloseSession(s, ident[c])

-----------------------------------------------------------------------------
\* The close event: the socket's role goes offline if its slot is still this socket's.
HoldsSlot(c) == HasRole(c) /\ MayVacate(ident[c], c)

OnClose(c) ==
  /\ sock' = [sock EXCEPT ![c] = "closed"]
  /\ IF HoldsSlot(c) THEN GoOffline(ident[c], c) ELSE UNCHANGED vars
  /\ UNCHANGED <<ident, calls, alive, hung>>

\* The peer closes, or the connection is reset.
PeerCloses(c) == sock[c] = "open" /\ c \notin hung /\ OnClose(c)

\* The closing handshake ends, or times out.
CloseCompletes(c) == sock[c] = "closing" /\ OnClose(c)

\* The peer's machine vanishes: no close, no pong, no message.
PeerHangs(c) ==
  /\ sock[c] = "open" /\ hung' = hung \cup {c}
  /\ UNCHANGED <<vars, sock, ident, calls, alive>>

Pong(c) ==
  /\ CanReceive(c) /\ c \notin alive /\ alive' = alive \cup {c}
  /\ UNCHANGED <<vars, sock, ident, calls, hung>>

(***************************************************************************)
(* The heartbeat timer: a socket that did not answer the last ping is      *)
(* terminated, the others get a new ping.                                  *)
(***************************************************************************)
\* Faulty variant: no socket is ever found dead.
NeverStale == {}

Stale == Conn \ alive

Heartbeat ==
  /\ sock' = Closing(Stale)
  /\ alive' = {}
  /\ UNCHANGED <<vars, ident, calls, hung>>

-----------------------------------------------------------------------------
SInit ==
  /\ Init
  /\ sock = [c \in Conn |-> "open"]
  /\ ident = <<>>
  /\ calls = [c \in Conn |-> {}]
  /\ alive = Conn
  /\ hung = {}

Resumes(c) ==
  \E call \in calls[c] :
    \/ RegisterFails(c, call)
    \/ Registers(c, call)
    \/ ConnectDenied(c, call)
    \/ Connects(c, call)
    \/ WakeFails(c, call)
    \/ Wakes(c, call)

SNext ==
  \/ \E c \in Conn, r \in Role : ReceiveRegister(c, r)
  \/ \E c \in Conn, t \in Device : ReceiveConnect(c, t) \/ ReceiveWake(c, t)
  \/ \E c \in Conn : Resumes(c)
  \/ \E c \in Conn, s \in SessionId :
       \/ ReceiveAccept(c, s)
       \/ ReceiveReject(c, s)
       \/ ReceiveSignal(c, s)
       \/ ReceiveClose(c, s)
  \/ \E c \in Conn : PeerCloses(c) \/ CloseCompletes(c) \/ PeerHangs(c) \/ Pong(c)
  \/ Heartbeat

(***************************************************************************)
(* The event loop lets no timer or event wait for ever: the heartbeat      *)
(* fires, the close event of a socket that is being closed comes (ws waits *)
(* 30 s for the peer at most), and a database lookup ends, well or badly.  *)
(* Peers owe nothing.                                                      *)
(***************************************************************************)
Fairness ==
  /\ WF_svars(Heartbeat)
  /\ \A c \in Conn : WF_svars(CloseCompletes(c)) /\ WF_svars(Resumes(c))

SSpec == SInit /\ [][SNext]_svars /\ Fairness

-----------------------------------------------------------------------------
\* The types of the registry and of the sockets; every call in progress is a known message.
STypeOK ==
  /\ TypeOK
  /\ sock \in [Conn -> {"open", "closing", "closed"}]
  /\ DOMAIN ident \subseteq Conn
  /\ ident \in [DOMAIN ident -> Role]
  /\ calls \in [Conn -> SUBSET Call]
  /\ alive \subseteq Conn
  /\ hung \subseteq Conn

\* Every slot belongs to the socket that says so: whatever order the lookups of several
\* register messages on one socket end in, the socket keeps one role, the last one, and
\* leaves no slot behind under an earlier identity.
SlotMatchesSocket ==
  \A r \in DOMAIN slot : HasRole(slot[r].conn) /\ ident[slot[r].conn] = r

\* A registered socket that is not being closed is the one its role is reached through:
\* no late close of a replaced socket and no change of role takes its slot away.
OpenSocketHoldsItsRole ==
  \A c \in Conn :
    sock[c] = "open" /\ HasRole(c) => MayVacate(ident[c], c)

\* Nobody the target's lists refuse gets a session, although the lookup is awaited and
\* the socket may have changed its identity in the meantime.
BlockedNeverPaired ==
  \A s \in DOMAIN session : <<session[s].host, session[s].controller[1]>> \notin Blocked

\* A closing socket takes its presence with it: the step in which a socket becomes
\* closed leaves no slot that points to it.
CloseClearsPresence ==
  [][\A c \in Conn : sock[c] # "closed" /\ sock'[c] = "closed" =>
       \A r \in DOMAIN slot' : slot'[r].conn # c]_svars

\* "Dead sockets are cut off" (the heartbeat's comment): a role whose peer vanished goes
\* offline, unless a lookup of that socket was still in progress.
DeadSocketIsCutOff ==
  \A c \in Conn :
    (c \in hung /\ calls[c] = {} /\ sock[c] # "closed") ~> (\A r \in DOMAIN slot : slot[r].conn # c)

\* "Online = one can connect to it = the host slot is registered" (isOnline): a role that
\* is online is reached through a socket that is not closed.
OnlineIsReachable == \A r \in DOMAIN slot : sock[slot[r].conn] # "closed"

\* "Take the role offline and tear down the sessions of this role" (offline): a session
\* does not exist while the role that asked for it is offline.
NoSessionWithoutController == \A s \in DOMAIN session : Online(session[s].controller)
=============================================================================
