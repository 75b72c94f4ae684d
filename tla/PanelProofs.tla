------------------------------ MODULE PanelProofs ---------------------------
(***************************************************************************)
(* Nothing that the application started runs out of its reach (Panel), for *)
(* any number of sessions and of host threads.  Between its first request  *)
(* and its storing a session is the dialled one, and has no thread yet: so *)
(* an attempt that fails drops nothing that runs.                          *)
(*                                                                         *)
(* The controller in the browser (WebController) leaves nothing open that  *)
(* has ended, and shows only what is connected, for any number of          *)
(* attempts.  There the phase, the promise, the timer, the socket and the  *)
(* connection of an attempt go together.                                   *)
(***************************************************************************)
EXTENDS Panel, WebController, TLAPS

BeforeSession == {"dialing", "asking", "exchanging", "confirming"}

\* The session of connect.
DialledOne ==
  /\ main \in BeforeSession => dialled \in Calling /\ callLoop[dialled] = "none"
  /\ main = "storing" => dialled \in Calling
  /\ main \notin BeforeSession \cup {"storing"} => dialled = Nothing

PnInv == PnTypeOK /\ NothingStray /\ DialledOne

\* Nothing is none of the sessions, and none of the host threads.
LEMMA NothingElse == Nothing \notin Calling /\ Nothing \notin Hosting
  BY PanelAssumption DEF Nothing

LEMMA PnInvInit == PnInit => PnInv
  BY DEF PnInit, PnInv, PnTypeOK, NothingStray, DialledOne, BeforeSession

LEMMA PnInvStep == PnInv /\ [PnNext]_pnVars => PnInv'
  <1> SUFFICES ASSUME PnInv, [PnNext]_pnVars PROVE PnInv'
    OBVIOUS
  <1> USE NothingElse DEF PnInv, PnTypeOK, NothingStray, DialledOne, BeforeSession, MainGoes
  <1>1. CASE UNCHANGED pnVars  BY <1>1 DEF pnVars, dialing, calls, hostings
  <1>2. ASSUME NEW c \in Calling, Connect(c) PROVE PnInv'
    BY <1>2 DEF Connect, DialingOnly, calls, hostings
  <1>3. CASE ConnectFails  BY <1>3 DEF ConnectFails, DialingOnly, calls, hostings
  <1>4. CASE AsksForSession \/ SessionReady
    BY <1>4 DEF AsksForSession, SessionReady, DialingOnly, dialing, calls, hostings
  <1>5. CASE PeerOffer  BY <1>5 DEF PeerOffer, DialingOnly, calls, hostings
  <1>6. CASE PeerCandidates  BY <1>6 DEF PeerCandidates, DialingOnly, calls, hostings
  <1>7. CASE SessionStarted  BY <1>7 DEF SessionStarted, dialing, hostings
  <1>8. CASE Stores  BY <1>8 DEF Stores, TellsStop, hostings
  <1>9. CASE Disconnect  BY <1>9 DEF Disconnect, TellsStop, dialing, hostings
  <1>10. CASE Joins  BY <1>10 DEF Joins, dialing, calls, hostings
  <1>11. CASE Wakes  BY <1>11 DEF Wakes, dialing, calls, hostings
  <1>12. ASSUME NEW c \in Calling, CallThreads(c) PROVE PnInv'
    <2>1. CASE LoopSees(c)  BY <2>1 DEF LoopSees, LoopOnly, dialing, hostings
    <2>2. CASE LoopEnds(c)  BY <2>2 DEF LoopEnds, LoopOnly, dialing, hostings
    <2>3. CASE HandsFrameOn(c)  BY <2>3 DEF HandsFrameOn, LoopOnly, dialing, hostings
    <2>4. CASE SinkEnds(c)  BY <2>4 DEF SinkEnds, LoopOnly, dialing, hostings
    <2> QED  BY <1>12, <2>1, <2>2, <2>3, <2>4 DEF CallThreads
  <1>13. CASE PageReloads  BY <1>13 DEF PageReloads, dialing, hostings
  <1>14. ASSUME NEW h \in Hosting, StartHost(h) PROVE PnInv'
    BY <1>14 DEF StartHost, HostOnlyHere, dialing, calls
  <1>15. ASSUME NEW h \in Hosting, HostThreadEnds(h) PROVE PnInv'
    BY <1>15 DEF HostThreadEnds, HostOnlyHere, dialing, calls
  <1>16. CASE StopHost  BY <1>16 DEF StopHost, HostOnlyHere, dialing, calls
  <1>17. CASE ShowMain \/ CloseRequested \/ Quit
    BY <1>17 DEF ShowMain, CloseRequested, Quit, HostOnlyHere, dialing, calls, hostings
  <1> QED
    BY <1>1, <1>2, <1>3, <1>4, <1>5, <1>6, <1>7, <1>8, <1>9, <1>10, <1>11, <1>12, <1>13, <1>14,
       <1>15, <1>16, <1>17 DEF PnNext, Dials, Commands

\* The invariant holds of every behaviour of the application.
LEMMA PnInvariant == PnSpec => []PnInv
  BY PnInvInit, PnInvStep, PTL DEF PnSpec

(***************************************************************************)
(* The application's variables have their types (PnTypeOK).                *)
(***************************************************************************)
THEOREM PanelTypeCorrect == PnSpec => []PnTypeOK
  <1>1. PnInv => PnTypeOK  BY DEF PnInv
  <1> QED  BY <1>1, PnInvariant, PTL

(***************************************************************************)
(* connect, disconnect, start_host and stop_host never lose a session or a *)
(* host thread that was not told to stop (NothingStray).                   *)
(***************************************************************************)
THEOREM NothingStrays == PnSpec => []NothingStray
  <1>1. PnInv => NothingStray  BY DEF PnInv
  <1> QED  BY <1>1, PnInvariant, PTL

-----------------------------------------------------------------------------
(***************************************************************************)
(* What an attempt is, by its promise.                                     *)
(***************************************************************************)
Together(a) ==
  /\ promise[a] = "none" =>
       /\ socket[a] = "none" /\ peerConn[a] = "none" /\ webChannel[a] = "none"
       /\ endedBy[a] = Nil /\ ~timer[a]
  /\ promise[a] = "pending" => endedBy[a] = Nil /\ socket[a] \in {"connecting", "open"}
  /\ promise[a] # "none" => socket[a] # "none"
  /\ socket[a] = "connecting" => peerConn[a] = "none" /\ webChannel[a] = "none"
  /\ promise[a] = "rejected" => endedBy[a] # Nil
  /\ promise[a] = "resolved" =>
       socket[a] \in {"closing", "closed"} /\ webChannel[a] # "none" /\ ~timer[a]
  /\ webChannel[a] = "open" => peerConn[a] = "answered"
  /\ phase[a] = "media" <=> promise[a] = "resolved"

WcInv ==
  /\ WcTypeOK /\ ShownIsConnected /\ NothingLeftOpen /\ EndsByChannelOnly
  /\ \A a \in Attempt : Together(a)

LEMMA WcInvInit == WcInit => WcInv
  <1> SUFFICES ASSUME WcInit PROVE WcInv
    OBVIOUS
  <1> USE WebAssumption DEF WcInit, Nil
  <1>1. WcTypeOK  BY DEF WcTypeOK
  <1>2. ShownIsConnected  BY DEF ShownIsConnected
  <1>3. NothingLeftOpen /\ EndsByChannelOnly  BY DEF NothingLeftOpen, EndsByChannelOnly
  <1>4. ASSUME NEW a \in Attempt PROVE Together(a)  BY DEF Together
  <1> QED  BY <1>1, <1>2, <1>3, <1>4 DEF WcInv

\* The exits of an attempt that has begun keep the invariant.
LEMMA FailKeeps ==
  ASSUME WcInv, NEW a \in Attempt, NEW cause \in {"signaling", "timer", "peer"},
         Fail(a, cause), promise[a] # "none",
         socket' \in [Attempt -> {"none", "connecting", "open", "closing", "aborting", "closed"}],
         \A b \in Attempt \ {a} : socket'[b] = socket[b],
         socket'[a] \in {"closing", "aborting", "closed"},
         promise[a] = "resolved" => socket'[a] \in {"closing", "closed"} /\ cause = "peer",
         timer' \in [Attempt -> BOOLEAN], \A b \in Attempt : timer'[b] => timer[b],
         phase' = phase
  PROVE  WcInv'
  <1> USE WebAssumption DEF WcInv, Nil, Fail, ClosesConnection, Shut, Blames, IsSettled, TellsPage,
          Rejects
  <1>1. WcTypeOK'
    <2> USE DEF WcTypeOK
    <2>1. /\ peerConn' \in [Attempt -> {"none", "fresh", "applying", "answered", "closed"}]
          /\ webChannel' \in [Attempt -> {"none", "open", "closed"}]
      OBVIOUS
    <2>2. /\ promise' \in [Attempt -> {"none", "pending", "resolved", "rejected"}]
          /\ endedBy' \in [Attempt -> {Nil, "signaling", "timer", "peer", "page"}]
      OBVIOUS
    <2>3. /\ shown' \in Attempt \cup {Nil} /\ awaited' \in Attempt \cup {Nil}
          /\ started' \in BOOLEAN
      BY ZenonT(60)
    <2>4. \A b \in Attempt : awaited' = b => promise'[b] = "pending"
      OBVIOUS
    <2> QED  BY <2>1, <2>2, <2>3, <2>4
  <1>2. ShownIsConnected'  BY DEF ShownIsConnected, WcTypeOK
  <1>3. NothingLeftOpen'  BY DEF NothingLeftOpen, WcTypeOK
  <1>4. EndsByChannelOnly'  BY DEF EndsByChannelOnly, WcTypeOK
  <1>5. ASSUME NEW b \in Attempt PROVE Together(b)'
    <2>1. CASE b = a  BY <2>1 DEF Together, WcTypeOK
    <2>2. CASE b # a  BY <2>2 DEF Together, WcTypeOK
    <2> QED  BY <2>1, <2>2
  <1> QED  BY <1>1, <1>2, <1>3, <1>4, <1>5

LEMMA WcInvStep == WcInv /\ [WcNext]_wcVars => WcInv'
  <1> SUFFICES ASSUME WcInv, [WcNext]_wcVars PROVE WcInv'
    OBVIOUS
  <1> USE WebAssumption
      DEF WcInv, WcTypeOK, ShownIsConnected, NothingLeftOpen, EndsByChannelOnly, Together, Nil
  <1>1. CASE UNCHANGED wcVars  BY <1>1 DEF wcVars, links, page
  <1>2. ASSUME NEW a \in Attempt, DoConnect(a) PROVE WcInv'
    <2> USE <1>2 DEF DoConnect, SocketGoes
    <2>1. WcTypeOK'  BY ZenonT(60)
    <2>2. ShownIsConnected'  OBVIOUS
    <2>3. NothingLeftOpen' /\ EndsByChannelOnly'  OBVIOUS
    <2>4. ASSUME NEW b \in Attempt PROVE Together(b)'  OBVIOUS
    <2> QED  BY <2>1, <2>2, <2>3, <2>4
  <1>3. ASSUME NEW a \in Attempt, WebDisconnect(a) PROVE WcInv'
    <2> USE <1>3 DEF WebDisconnect, ClosesConnection, ClosesSocket, SocketGoes, Shut, Blames
    <2>1. promise[a] = "resolved" /\ socket[a] \in {"closing", "closed"} /\ socket' = socket
      OBVIOUS
    <2>2. WcTypeOK' /\ ShownIsConnected' /\ EndsByChannelOnly'  BY <2>1, ZenonT(60)
    <2>3. NothingLeftOpen'  BY <2>1
    <2>4. ASSUME NEW b \in Attempt PROVE Together(b)'  BY <2>1
    <2> QED  BY <2>2, <2>3, <2>4
  <1>4. ASSUME NEW a \in Attempt, OnFrame(a) PROVE WcInv'
    BY <1>4 DEF OnFrame, links
  <1>5. ASSUME NEW a \in Attempt, TimerFires(a) PROVE WcInv'
    <2> USE <1>5 DEF TimerFires, FailAndClose, ClosesSocket, SocketGoes
    <2>1. promise[a] \in {"pending", "rejected"}  OBVIOUS
    <2>2. Fail(a, "timer") /\ phase' = phase  OBVIOUS
    <2>3. /\ socket' \in [Attempt -> {"none", "connecting", "open", "closing", "aborting", "closed"}]
          /\ \A b \in Attempt \ {a} : socket'[b] = socket[b]
          /\ socket'[a] \in {"closing", "aborting", "closed"}
      BY <2>1
    <2>4. timer' \in [Attempt -> BOOLEAN] /\ \A b \in Attempt : timer'[b] => timer[b]
      OBVIOUS
    <2> HIDE <1>5 DEF TimerFires, FailAndClose, ClosesSocket, SocketGoes
    <2> QED  BY <2>1, <2>2, <2>3, <2>4, FailKeeps
  <1>6. ASSUME NEW a \in Attempt, SocketEvents(a) PROVE WcInv'
    <2>1. CASE SocketOpens(a)  BY <2>1 DEF SocketOpens, SocketGoes, page
    <2>2. CASE SocketError(a)  BY <2>2, FailKeeps DEF SocketError, SocketGoes
    <2>3. CASE SocketCloses(a) /\ IsSettled(a)
      BY <2>3 DEF SocketCloses, SocketGoes, IsSettled, page
    <2>4. CASE SocketCloses(a) /\ ~IsSettled(a)
      BY <2>4, FailKeeps DEF SocketCloses, SocketGoes, IsSettled
    <2>5. CASE PeerMade(a) \/ Offer(a)
      BY <2>5 DEF PeerMade, Offer, PeerGoes, page
    <2>6. ASSUME NEW type \in {"register_err", "connect_err", "end", "session_close"},
                 Refused(a, type)
          PROVE  WcInv'
      BY <2>6, FailKeeps DEF Refused, FailAndClose, ClosesSocket, SocketGoes
    <2> QED  BY <1>6, <2>1, <2>2, <2>3, <2>4, <2>5, <2>6 DEF SocketEvents
  <1>7. ASSUME NEW a \in Attempt, PeerEvents(a) PROVE WcInv'
    <2>1. CASE AnswerSent(a)
      <3>1. peerConn[a] = "applying" /\ endedBy[a] = Nil  BY <2>1 DEF AnswerSent, PeerGoes
      <3> USE <2>1, <3>1 DEF AnswerSent, PeerGoes, page
      <3>2. WcTypeOK' /\ ShownIsConnected'  OBVIOUS
      <3>3. NothingLeftOpen' /\ EndsByChannelOnly'  OBVIOUS
      <3>4. ASSUME NEW b \in Attempt PROVE Together(b)'  OBVIOUS
      <3> QED  BY <3>2, <3>3, <3>4
    <2>2. CASE ChannelStarts(a)
      <3> USE <2>2 DEF ChannelStarts, page
      <3>1. promise[a] = "pending" /\ endedBy[a] = Nil  OBVIOUS
      <3>2. WcTypeOK' /\ ShownIsConnected'  OBVIOUS
      <3>3. NothingLeftOpen' /\ EndsByChannelOnly'  BY <3>1
      <3>4. ASSUME NEW b \in Attempt PROVE Together(b)'  BY <3>1
      <3> QED  BY <3>2, <3>3, <3>4
    <2>3. CASE KeyConfirmed(a)
      <3> USE <2>3 DEF KeyConfirmed, LeavesSignaling, ClosesSocket, SocketGoes
      <3>1. promise[a] = "pending" /\ socket[a] = "open"  OBVIOUS
      <3>2. socket' = [socket EXCEPT ![a] = "closing"]  BY <3>1
      <3>3. WcTypeOK' /\ ShownIsConnected'  BY <3>1, <3>2
      <3>4. NothingLeftOpen' /\ EndsByChannelOnly'  BY <3>1, <3>2
      <3>5. ASSUME NEW b \in Attempt PROVE Together(b)'  BY <3>1, <3>2
      <3> QED  BY <3>3, <3>4, <3>5
    <2>4. CASE Bye(a)
      BY <2>4, FailKeeps DEF Bye, Delivers, FailAndClose, ClosesSocket, SocketGoes
    <2>5. CASE ConnectionFails(a)
      BY <2>5, FailKeeps DEF ConnectionFails, FailAndClose, ClosesSocket, SocketGoes
    <2>6. CASE ChannelCloses(a) /\ IsSettled(a)
      BY <2>6 DEF ChannelCloses, IsSettled, Shut, page
    <2>7. CASE ChannelCloses(a) /\ ~IsSettled(a)
      BY <2>7, FailKeeps DEF ChannelCloses, IsSettled, FailAndClose, ClosesSocket, SocketGoes
    <2> QED  BY <1>7, <2>1, <2>2, <2>3, <2>4, <2>5, <2>6, <2>7 DEF PeerEvents
  <1> QED
    BY <1>1, <1>2, <1>3, <1>4, <1>5, <1>6, <1>7 DEF WcNext, Watchdog

\* The invariant holds of every behaviour of the browser's controller.
LEMMA WcInvariant == WcSpec => []WcInv
  BY WcInvInit, WcInvStep, PTL DEF WcSpec

(***************************************************************************)
(* The variables of the attempts and the page have their types (WcTypeOK). *)
(***************************************************************************)
THEOREM WebTypeCorrect == WcSpec => []WcTypeOK
  <1>1. WcInv => WcTypeOK  BY DEF WcInv
  <1> QED  BY <1>1, WcInvariant, PTL

(***************************************************************************)
(* The page shows only a session that was established, that none of its    *)
(* events has ended and whose connection is open, though its channel may   *)
(* have been closed by the host; and never one while it awaits another     *)
(* (ShownIsConnected).                                                     *)
(***************************************************************************)
THEOREM PageShowsTheConnected == WcSpec => []ShownIsConnected
  <1>1. WcInv => ShownIsConnected  BY DEF WcInv
  <1> QED  BY <1>1, WcInvariant, PTL

(***************************************************************************)
(* Whatever ends an attempt leaves nothing of it open (NothingLeftOpen).   *)
(***************************************************************************)
THEOREM EndsWholly == WcSpec => []NothingLeftOpen
  <1>1. WcInv => NothingLeftOpen  BY DEF WcInv
  <1> QED  BY <1>1, WcInvariant, PTL

(***************************************************************************)
(* Neither the signaling nor the timeout of an established session closes  *)
(* its connection (EndsByChannelOnly).                                     *)
(***************************************************************************)
THEOREM SignalingEndsNoSession == WcSpec => []EndsByChannelOnly
  <1>1. WcInv => EndsByChannelOnly  BY DEF WcInv
  <1> QED  BY <1>1, WcInvariant, PTL
=============================================================================
