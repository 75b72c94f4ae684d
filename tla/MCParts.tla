------------------------------- MODULE MCParts ------------------------------
(***************************************************************************)
(* Nine components that share no state, checked in one run: the first      *)
(* state chooses one, and the others stay in an initial state of theirs,   *)
(* where none of what their fairness is about can happen (the signaling    *)
(* endpoint's fairness is stated for its part).  The media loop is         *)
(* explored twice: its pictures without a change of the machine, and the   *)
(* machine (clipboard, overlay, input lock) without an encoder.  The two   *)
(* share the thread's phases and the length of the queue only.  The worker *)
(* likewise: its capture while desktops and permission change, and its     *)
(* overlay and input lock while they stay.  Of the signaling endpoint,     *)
(* whose safety has a run of its own, one machine is explored that is host *)
(* and controller at once, over two sockets, with one lookup at a time.    *)
(***************************************************************************)
EXTENDS MediaLoop, Supervisor, Worker, Establish, Relay, Panel, WebController, RateLimit

VARIABLES
  part,
  srvSlot, srvSession, srvIssued, srvHooks, srvOut,         \* the registry,
  srvSock, srvIdent, srvCalls, srvAlive, srvHung            \* and its sockets

FS == <<2, 1>>

Machine == {"m"}
Socket  == {"k1", "k2"}

\* The server: the machine announces canWake as a host.
Sg == INSTANCE Signaling WITH
  Device <- Machine, Conn <- Socket, SessionId <- {"id"}, Group <- {"g"},
  WakesFor <- [x \in Socket \X (Machine \X {"host", "controller"}) |->
                 IF x[2][2] = "host" THEN {"g"} ELSE {}],
  MaxInbound <- 1, Blocked <- {}, MaxCalls <- 1,
  slot <- srvSlot, session <- srvSession, issued <- srvIssued, hooks <- srvHooks, out <- srvOut,
  sock <- srvSock, ident <- srvIdent, calls <- srvCalls, alive <- srvAlive, hung <- srvHung

\* srvOut is written by every call of the registry and read by none: the states are told apart
\* without it.
srvState ==
  <<srvSlot, srvSession, srvIssued, srvHooks, srvSock, srvIdent, srvCalls, srvAlive, srvHung>>

srvVars  == <<srvState, srvOut>>

WithoutOut ==
  <<part, mlVars, svVars, wkVars, esVars, rlVars, pnVars, wcVars, rtVars, srvState>>
partVars == <<WithoutOut, srvOut>>

Part ==
  {"media", "machine", "service", "worker", "controls", "establish", "relay", "panel", "web",
   "limiter", "endpoint"}

\* Every part but p stays as it is.
OnlyMoves(p) ==
  /\ IF p \in {"media", "machine"} THEN TRUE ELSE UNCHANGED mlVars
  /\ IF p = "service" THEN TRUE ELSE UNCHANGED svVars
  /\ IF p \in {"worker", "controls"} THEN TRUE ELSE UNCHANGED wkVars
  /\ IF p = "establish" THEN TRUE ELSE UNCHANGED esVars
  /\ IF p = "relay" THEN TRUE ELSE UNCHANGED rlVars
  /\ IF p = "panel" THEN TRUE ELSE UNCHANGED pnVars
  /\ IF p = "web" THEN TRUE ELSE UNCHANGED wcVars
  /\ IF p = "limiter" THEN TRUE ELSE UNCHANGED rtVars
  /\ IF p = "endpoint" THEN TRUE ELSE UNCHANGED srvVars

\* The parts that have several initial states start in one of them unless they are chosen.
PartsInit ==
  /\ part \in Part
  /\ MlInit /\ SvInit /\ WkInit /\ EsInit /\ RlInit /\ PnInit /\ WcInit /\ RtInit /\ Sg!SInit
  /\ part \notin {"worker", "controls"} => job = "stream" /\ inputDesktop = Home
  /\ part # "establish" =>
       /\ passwordOf = [s \in Side |-> CHOOSE p \in Password : TRUE]
       /\ peerFp = [s \in Side |-> Peer(s)]

PartsNext ==
  /\ UNCHANGED part
  /\ \/ part = "media" /\ MlNext /\ UNCHANGED <<clip, machine>> /\ OnlyMoves("media")
     \/ /\ part = "machine" /\ MlNext /\ UNCHANGED <<encoder, snapshot, params, rate>>
        /\ OnlyMoves("machine")
     \/ part = "service" /\ SvNext /\ OnlyMoves("service")
     \/ part = "worker" /\ WkNext /\ UNCHANGED <<curtain, keys>> /\ OnlyMoves("worker")
     \/ part = "controls" /\ WkNext /\ UNCHANGED around /\ OnlyMoves("controls")
     \/ part = "establish" /\ EsNext /\ OnlyMoves("establish")
     \/ part = "relay" /\ RlNext /\ OnlyMoves("relay")
     \/ part = "panel" /\ PnNext /\ OnlyMoves("panel")
     \/ part = "web" /\ WcNext /\ OnlyMoves("web")
     \/ part = "limiter" /\ RtNext /\ OnlyMoves("limiter")
     \/ part = "endpoint" /\ Sg!SNext /\ OnlyMoves("endpoint")

\* The endpoint's fairness (Signaling), in its part: elsewhere the heartbeat does not beat.
EndpointFair ==
  /\ WF_srvVars(part = "endpoint" /\ Sg!Heartbeat)
  /\ \A c \in Socket :
       /\ WF_srvVars(part = "endpoint" /\ Sg!CloseCompletes(c))
       /\ WF_srvVars(part = "endpoint" /\ Sg!Resumes(c))

PartsSpec ==
  PartsInit /\ [][PartsNext]_partVars /\ MlFair /\ SvFair /\ WkFair /\ PnFair /\ EndpointFair

\* "Dead sockets are cut off" (the heartbeat's comment): a role whose peer vanished goes
\* offline, unless a lookup of that socket was still in progress.
DeadSocketIsCutOff == Sg!DeadSocketIsCutOff
=============================================================================
