---------------------------- MODULE WebController ---------------------------
(***************************************************************************)
(* The controller in a browser (ui platform/web.ts) and the page around it *)
(* (App.tsx).  Every connect makes a socket, a timer and a promise, and    *)
(* later a peer connection and a channel; their callbacks run one at a     *)
(* time, in whatever order the events come.  The page shows one session,   *)
(* which any attempt's onClose takes away.                                 *)
(*                                                                         *)
(* A browser delivers no message over a socket or channel that is being    *)
(* closed; a socket that is closed while it connects gives an error first. *)
(* The channel keeps its order: nothing of the session comes before the    *)
(* host's part of the handshake, so the deferred messages are none.        *)
(***************************************************************************)

CONSTANT Attempt    \* bound of the model: the calls of connect

ASSUME WebAssumption == "none" \notin Attempt

VARIABLES
  socket,      \* ws; "aborting" if it is closed while it connects
  timer,       \* the timeout is set
  peerConn,    \* pc: "applying" while the offer is awaited
  webChannel,  \* channel
  phase,       \* of the messages on it
  promise,     \* ready; settled once it is "resolved" or "rejected"
  endedBy,     \* what called fail or disconnect first
  shown,       \* session, of the page
  awaited,     \* connecting, of the page: the attempt of its doConnect
  started      \* startedRef: a picture was seen

links  == <<socket, timer, peerConn, webChannel, phase>>
page   == <<shown, awaited, started>>
wcVars == <<links, promise, endedBy, page>>

-----------------------------------------------------------------------------
Nil == "none"

IsSettled(a) == promise[a] # "pending"

Delivers(a) == webChannel[a] = "open" /\ phase[a] = "media"

SocketGoes(a, s) == socket' = [socket EXCEPT ![a] = s]

\* close, of a socket in each state.
ClosesSocket(a) ==
  SocketGoes(a, CASE socket[a] = "connecting" -> "aborting"
                  [] socket[a] = "open" -> "closing"
                  [] OTHER -> socket[a])

\* close, of a channel or a connection, if there is one.
Shut(f, a) == [f EXCEPT ![a] = IF @ = Nil THEN Nil ELSE "closed"]

\* Faulty variant: the peer connection is left to the garbage collector.
ClosesChannelOnly(a) == webChannel' = Shut(webChannel, a) /\ UNCHANGED peerConn

ClosesConnection(a) == webChannel' = Shut(webChannel, a) /\ peerConn' = Shut(peerConn, a)

Blames(a, cause) == endedBy' = [endedBy EXCEPT ![a] = IF @ = Nil THEN cause ELSE @]

\* The page's onClose: whatever session it shows, it shows none any more.  It is also called
\* for an attempt that was rejected, whose timer is still set or whose socket gives an error:
\* then a later attempt's session goes, and stays open.
TellsPage(a) == shown' = Nil /\ started' = FALSE /\ UNCHANGED awaited

Rejects(a) ==
  /\ promise' = [promise EXCEPT ![a] = "rejected"]
  /\ awaited' = Nil /\ UNCHANGED <<shown, started>>

(***************************************************************************)
(* fail, but for the socket: the promise is rejected, with which the       *)
(* page's doConnect is over; or, if it was settled, the page is told that  *)
(* its session has ended.  The timer is not touched.                       *)
(***************************************************************************)
Fail(a, cause) ==
  /\ ClosesConnection(a) /\ Blames(a, cause)
  /\ IF IsSettled(a)
     THEN TellsPage(a) /\ UNCHANGED promise
     ELSE Rejects(a)

FailAndClose(a, cause) == Fail(a, cause) /\ ClosesSocket(a)

-----------------------------------------------------------------------------
(***************************************************************************)
(* The page.                                                               *)
(***************************************************************************)
\* doConnect: there is a form for it while no session is shown and none is awaited.
DoConnect(a) ==
  /\ shown = Nil /\ awaited = Nil /\ promise[a] = "none"
  /\ promise' = [promise EXCEPT ![a] = "pending"]
  /\ SocketGoes(a, "connecting")
  /\ timer' = [timer EXCEPT ![a] = TRUE]
  /\ awaited' = a /\ started' = FALSE
  /\ UNCHANGED <<peerConn, webChannel, phase, endedBy, shown>>

\* disconnect of the session's handle: by the page's button, or its watchdog.
WebDisconnect(a) ==
  /\ shown = a
  /\ timer' = [timer EXCEPT ![a] = FALSE]
  /\ ClosesConnection(a) /\ ClosesSocket(a) /\ Blames(a, "page")
  /\ shown' = Nil /\ started' = FALSE
  /\ UNCHANGED <<phase, promise, awaited>>

\* The first picture, of whichever attempt: there is one canvas.
OnFrame(a) ==
  /\ Delivers(a) /\ shown # Nil /\ ~started /\ started' = TRUE
  /\ UNCHANGED <<links, promise, endedBy, shown, awaited>>

\* Four seconds without a picture, after the first.
Watchdog(a) == started /\ WebDisconnect(a)

-----------------------------------------------------------------------------
(***************************************************************************)
(* The timer and the socket.                                               *)
(***************************************************************************)
TimerFires(a) ==
  /\ timer[a] /\ timer' = [timer EXCEPT ![a] = FALSE]
  /\ FailAndClose(a, "timer") /\ UNCHANGED phase

\* onopen registers, and register_ok asks for the session: neither is remembered.
SocketOpens(a) ==
  /\ socket[a] = "connecting" /\ SocketGoes(a, "open")
  /\ UNCHANGED <<timer, peerConn, webChannel, phase, promise, endedBy, page>>

\* register_err, connect_err, the peer's end, and session_close, which is heeded only before
\* the promise is settled.
Refused(a, type) ==
  /\ socket[a] = "open"
  /\ type = "session_close" => ~IsSettled(a)
  /\ FailAndClose(a, "signaling") /\ UNCHANGED <<timer, phase>>

\* onerror, and the onclose after it, which finds the promise settled.
SocketError(a) ==
  /\ socket[a] \in {"connecting", "open", "aborting"}
  /\ Fail(a, "signaling") /\ SocketGoes(a, "closed") /\ UNCHANGED <<timer, phase>>

\* onclose, of a socket that was closed in order.
SocketCloses(a) ==
  /\ socket[a] \in {"open", "closing"} /\ SocketGoes(a, "closed")
  /\ IF IsSettled(a)
     THEN UNCHANGED <<peerConn, webChannel, promise, endedBy, page>>
     ELSE Fail(a, "signaling")
  /\ UNCHANGED <<timer, phase>>

-----------------------------------------------------------------------------
(***************************************************************************)
(* The peer connection and its channel.                                    *)
(***************************************************************************)
PeerGoes(a, from, to) ==
  /\ peerConn[a] = from /\ peerConn' = [peerConn EXCEPT ![a] = to]
  /\ UNCHANGED <<socket, timer, webChannel, phase, promise, endedBy, page>>

PeerMade(a) == socket[a] = "open" /\ PeerGoes(a, "none", "fresh")

\* The offer is applied and answered, with awaits; if it is refused nothing more happens.
Offer(a)  == socket[a] = "open" /\ PeerGoes(a, "fresh", "applying")
AnswerSent(a) == PeerGoes(a, "applying", "answered")

\* The host's channel is open.
ChannelStarts(a) ==
  /\ peerConn[a] = "answered" /\ webChannel[a] = "none"
  /\ webChannel' = [webChannel EXCEPT ![a] = "open"]
  /\ phase' = [phase EXCEPT ![a] = "pake"]
  /\ UNCHANGED <<socket, timer, peerConn, promise, endedBy, page>>

\* Faulty variant: the socket is kept.
KeepsSocket(a) == UNCHANGED socket

LeavesSignaling(a) == ClosesSocket(a)

\* The message that confirms the key: the promise is resolved, and the page shows the session.
KeyConfirmed(a) ==
  /\ webChannel[a] = "open" /\ phase[a] = "pake"
  /\ phase' = [phase EXCEPT ![a] = "media"] /\ timer' = [timer EXCEPT ![a] = FALSE]
  /\ promise' = [promise EXCEPT ![a] = "resolved"]
  /\ shown' = a /\ awaited' = Nil
  /\ LeavesSignaling(a)
  /\ UNCHANGED <<peerConn, webChannel, endedBy, started>>

Bye(a) == Delivers(a) /\ FailAndClose(a, "peer") /\ UNCHANGED <<timer, phase>>

\* connectionState is failed.
ConnectionFails(a) ==
  /\ peerConn[a] = "answered" /\ FailAndClose(a, "peer") /\ UNCHANGED <<timer, phase>>

\* The host closes the channel.
ChannelCloses(a) ==
  /\ webChannel[a] = "open"
  /\ IF IsSettled(a)
     THEN /\ webChannel' = Shut(webChannel, a)
          /\ UNCHANGED <<socket, peerConn, promise, endedBy, page>>
     ELSE FailAndClose(a, "peer")
  /\ UNCHANGED <<timer, phase>>

-----------------------------------------------------------------------------
WcInit ==
  /\ socket = [a \in Attempt |-> "none"] /\ timer = [a \in Attempt |-> FALSE]
  /\ peerConn = [a \in Attempt |-> "none"] /\ webChannel = [a \in Attempt |-> "none"]
  /\ phase = [a \in Attempt |-> "signaling"] /\ promise = [a \in Attempt |-> "none"]
  /\ endedBy = [a \in Attempt |-> Nil]
  /\ shown = Nil /\ awaited = Nil /\ started = FALSE

SocketEvents(a) ==
  \/ SocketOpens(a) \/ SocketError(a) \/ SocketCloses(a) \/ PeerMade(a) \/ Offer(a)
  \/ \E type \in {"register_err", "connect_err", "end", "session_close"} : Refused(a, type)

PeerEvents(a) ==
  \/ AnswerSent(a) \/ ChannelStarts(a) \/ KeyConfirmed(a) \/ Bye(a)
  \/ ConnectionFails(a) \/ ChannelCloses(a)

WcNext ==
  \E a \in Attempt :
    \/ DoConnect(a) \/ WebDisconnect(a) \/ OnFrame(a) \/ Watchdog(a) \/ TimerFires(a)
    \/ SocketEvents(a) \/ PeerEvents(a)

WcSpec == WcInit /\ [][WcNext]_wcVars

-----------------------------------------------------------------------------
\* The variables of the attempts and of the page have their types; the page awaits an attempt
\* only while its promise is pending.
WcTypeOK ==
  /\ socket \in [Attempt -> {"none", "connecting", "open", "closing", "aborting", "closed"}]
  /\ timer \in [Attempt -> BOOLEAN]
  /\ peerConn \in [Attempt -> {"none", "fresh", "applying", "answered", "closed"}]
  /\ webChannel \in [Attempt -> {"none", "open", "closed"}]
  /\ phase \in [Attempt -> {"signaling", "pake", "media"}]
  /\ promise \in [Attempt -> {"none", "pending", "resolved", "rejected"}]
  /\ endedBy \in [Attempt -> {Nil, "signaling", "timer", "peer", "page"}]
  /\ shown \in Attempt \cup {Nil} /\ awaited \in Attempt \cup {Nil} /\ started \in BOOLEAN
  /\ \A a \in Attempt : awaited = a => promise[a] = "pending"

(***************************************************************************)
(* The session on the page was established, none of its events has ended   *)
(* it (BYE, a failed connection, its timer, its socket), and its peer      *)
(* connection is open; and the page never shows one while it awaits        *)
(* another.  Its channel need not be open: that the host has closed it is  *)
(* not heeded once the session is established (web.ts, 310), and the       *)
(* session stays on the page until the connection fails or the watchdog    *)
(* misses its pictures.                                                    *)
(***************************************************************************)
ShownIsConnected ==
  /\ \A a \in Attempt : shown = a =>
       promise[a] = "resolved" /\ endedBy[a] = Nil /\ peerConn[a] = "answered"
  /\ shown # Nil => awaited = Nil

(***************************************************************************)
(* Whatever ends an attempt or a session, its socket, connection and       *)
(* channel are closed, and stay so.  (A session that has not ended may be  *)
(* off the page and open: the timer or the socket of an earlier attempt    *)
(* takes it away, TellsPage.)                                              *)
(***************************************************************************)
NothingLeftOpen ==
  \A a \in Attempt : endedBy[a] # Nil =>
    /\ socket[a] \notin {"connecting", "open"}
    /\ peerConn[a] \in {"none", "closed"} /\ webChannel[a] \in {"none", "closed"}

(***************************************************************************)
(* Once it is established a session's connection is closed for what its    *)
(* peer or the page does only: no message, error or loss of the socket it  *)
(* came from, and no timeout of its own, closes it (web.ts, 357-359).      *)
(***************************************************************************)
EndsByChannelOnly ==
  \A a \in Attempt : promise[a] = "resolved" => endedBy[a] \in {Nil, "peer", "page"}
=============================================================================
