-------------------------------- MODULE Panel -------------------------------
(***************************************************************************)
(* The application around its sessions (desktop lib.rs, and Controller in  *)
(* connection.rs).  The commands of the page are not asynchronous: Tauri   *)
(* runs them, and the window's events, one after another on the main       *)
(* thread.  Each session has a thread for its channel (controller_loop)    *)
(* and one that hands its frames to the page; hosting has a thread of its  *)
(* own.  A session is closed, or replaced, with the lock on it held, and   *)
(* its thread is waited for.                                               *)
(***************************************************************************)
EXTENDS Naturals

CONSTANTS
  Calling,   \* bound of the model: the sessions of the application, one per connect
  Hosting    \* bound of the model: its host threads, one per start_host

ASSUME PanelAssumption == "none" \notin Calling \cup Hosting

VARIABLES
  main,        \* the main thread: "idle", or in connect "dialing", "asking", "exchanging",
               \* "confirming", "storing"; "joining" a session's thread, "waking", "exited"
  dialled,     \* the session that connect is about
  offered, gotCand,  \* connect has seen the offer; the peer's candidates
  conn,        \* AppState.conn
  joined,      \* the session whose thread is waited for
  callLoop,    \* controller_loop of each session: "none", "running", "leaving", "over"
  callStop,    \* its stop flag
  sink,        \* the thread that hands its frames on: "none", "running", "over"
  listens,     \* the page still has the session's channel
  hostHandle,  \* AppState.host
  hostThread,  \* Managed::serve of each: "none", "running", "over"
  hostStop,    \* its stop flag
  window       \* "shown" or "hidden"

dialing  == <<dialled, offered, gotCand>>
calls    == <<callLoop, callStop, sink, listens>>
hostings == <<hostHandle, hostThread, hostStop>>
pnVars   == <<main, dialing, conn, joined, calls, hostings, window>>

-----------------------------------------------------------------------------
Nothing == "none"

MainGoes(from, to) == main = from /\ main' = to

DialingOnly == UNCHANGED <<conn, joined, calls, hostings, window>>

-----------------------------------------------------------------------------
(***************************************************************************)
(* connect.  Every error drops all that was set up.  The confirmation has  *)
(* 30 s.  What is awaited from the server has no deadline: connecting has  *)
(* none at all, and the 35 s are for one read, of which there is another   *)
(* after each ping of the server, which comes every 30 s (over TLS a read  *)
(* has none either).                                                       *)
(***************************************************************************)
Connect(c) ==
  /\ MainGoes("idle", "dialing") /\ callLoop[c] = "none"
  /\ dialled' = c /\ offered' = FALSE /\ gotCand' = FALSE
  /\ DialingOnly

\* The socket breaks, the server refuses, a read takes too long, or confirming does.
ConnectFails ==
  /\ main \in {"dialing", "asking", "exchanging", "confirming"} /\ main' = "idle"
  /\ dialled' = Nothing /\ UNCHANGED <<offered, gotCand>>
  /\ DialingOnly

AsksForSession == MainGoes("dialing", "asking") /\ UNCHANGED dialing /\ DialingOnly

\* ConnectReady; the relay is set up.
SessionReady == MainGoes("asking", "exchanging") /\ UNCHANGED dialing /\ DialingOnly

\* Offer and candidates come in either order; the last of them ends the wait.
PeerOffer ==
  /\ main = "exchanging" /\ offered' = TRUE
  /\ main' = IF gotCand THEN "confirming" ELSE main
  /\ UNCHANGED <<dialled, gotCand>> /\ DialingOnly

PeerCandidates ==
  /\ main = "exchanging" /\ gotCand' = TRUE
  /\ main' = IF offered THEN "confirming" ELSE main
  /\ UNCHANGED <<dialled, offered>> /\ DialingOnly

\* drive_until_confirmed returns, and the two threads of the session are started.
SessionStarted ==
  /\ MainGoes("confirming", "storing")
  /\ callLoop' = [callLoop EXCEPT ![dialled] = "running"]
  /\ sink' = [sink EXCEPT ![dialled] = "running"]
  /\ listens' = [listens EXCEPT ![dialled] = TRUE]
  /\ UNCHANGED <<dialing, conn, joined, callStop, hostings, window>>

-----------------------------------------------------------------------------
\* Faulty variant: a session that is dropped is not told so.
DropsOnly(c) == UNCHANGED callStop

\* Controller::close and Drop: the flag, and then the thread is waited for.
TellsStop(c) == callStop' = [callStop EXCEPT ![c] = TRUE]

\* The new session takes the place of the old one, which is dropped.
Stores ==
  /\ main = "storing" /\ conn' = dialled /\ dialled' = Nothing
  /\ IF conn = Nothing
     THEN main' = "idle" /\ UNCHANGED <<joined, callStop>>
     ELSE main' = "joining" /\ joined' = conn /\ TellsStop(conn)
  /\ UNCHANGED <<offered, gotCand, callLoop, sink, listens, hostings, window>>

Disconnect ==
  /\ conn # Nothing /\ MainGoes("idle", "joining")
  /\ conn' = Nothing /\ joined' = conn
  /\ TellsStop(conn)
  /\ UNCHANGED <<dialing, callLoop, sink, listens, hostings, window>>

Joins ==
  /\ MainGoes("joining", "idle") /\ callLoop[joined] = "over" /\ joined' = Nothing
  /\ UNCHANGED <<dialing, conn, calls, hostings, window>>

\* wake_device: answered, or given up.
Wakes ==
  /\ MainGoes("idle", "waking") \/ MainGoes("waking", "idle")
  /\ UNCHANGED <<dialing, conn, joined, calls, hostings, window>>

-----------------------------------------------------------------------------
(***************************************************************************)
(* The threads of a session.                                               *)
(***************************************************************************)
LoopOnly == UNCHANGED <<main, dialing, conn, joined, callStop, listens, hostings, window>>

\* stop, the channel or the connection is gone, or the host said BYE.
LoopSees(c) ==
  /\ callLoop[c] = "running" /\ callLoop' = [callLoop EXCEPT ![c] = "leaving"]
  /\ UNCHANGED sink /\ LoopOnly

LoopStops(c) == callStop[c] /\ LoopSees(c)

\* BYE, a few rounds more, disconnect.
LoopEnds(c) ==
  /\ callLoop[c] = "leaving" /\ callLoop' = [callLoop EXCEPT ![c] = "over"]
  /\ UNCHANGED sink /\ LoopOnly

\* A frame for the page.  If the page is gone the thread is over; if the thread is, the loop
\* returns at once, and the host is not told.
HandsFrameOn(c) ==
  /\ callLoop[c] = "running"
  /\ \/ /\ sink[c] = "running" /\ ~listens[c]
        /\ sink' = [sink EXCEPT ![c] = "over"] /\ UNCHANGED callLoop
     \/ /\ sink[c] = "over"
        /\ callLoop' = [callLoop EXCEPT ![c] = "over"] /\ UNCHANGED sink
  /\ LoopOnly

\* The loop has dropped its end of the queue of frames.
SinkEnds(c) ==
  /\ callLoop[c] = "over" /\ sink[c] = "running" /\ sink' = [sink EXCEPT ![c] = "over"]
  /\ UNCHANGED callLoop /\ LoopOnly

\* The page is loaded again: the channels it had are gone, the sessions go on.
PageReloads ==
  /\ \E c \in Calling : listens[c]
  /\ listens' = [c \in Calling |-> FALSE]
  /\ UNCHANGED <<main, dialing, conn, joined, callLoop, callStop, sink, hostings, window>>

-----------------------------------------------------------------------------
(***************************************************************************)
(* Hosting, the window and the tray.                                       *)
(***************************************************************************)
HostOnlyHere == UNCHANGED <<dialing, conn, joined, calls>>

StartHost(h) ==
  /\ main = "idle" /\ hostHandle = Nothing /\ hostThread[h] = "none"
  /\ hostHandle' = h /\ hostThread' = [hostThread EXCEPT ![h] = "running"]
  /\ UNCHANGED <<main, hostStop, window>> /\ HostOnlyHere

\* The handle is forgotten at once; the thread ends when its session does.
StopHost ==
  /\ main = "idle" /\ hostHandle # Nothing
  /\ hostStop' = [hostStop EXCEPT ![hostHandle] = TRUE] /\ hostHandle' = Nothing
  /\ UNCHANGED <<main, hostThread, window>> /\ HostOnlyHere

HostThreadEnds(h) ==
  /\ hostThread[h] = "running" /\ hostStop[h]
  /\ hostThread' = [hostThread EXCEPT ![h] = "over"]
  /\ UNCHANGED <<main, hostHandle, hostStop, window>> /\ HostOnlyHere

\* A request to confirm raises the window; so does the tray.
ShowMain ==
  /\ window = "hidden" /\ main = "idle" /\ window' = "shown"
  /\ UNCHANGED <<main, hostings>> /\ HostOnlyHere

\* Closing the window hides it while there is a handle, and else ends the application.
CloseRequested ==
  /\ main = "idle" /\ window = "shown"
  /\ IF hostHandle # Nothing THEN window' = "hidden" /\ UNCHANGED main
     ELSE main' = "exited" /\ UNCHANGED window
  /\ UNCHANGED hostings /\ HostOnlyHere

Quit ==
  /\ MainGoes("idle", "exited")
  /\ UNCHANGED <<hostings, window>> /\ HostOnlyHere

-----------------------------------------------------------------------------
PnInit ==
  /\ main = "idle" /\ dialled = Nothing /\ offered = FALSE /\ gotCand = FALSE
  /\ conn = Nothing /\ joined = Nothing
  /\ callLoop = [c \in Calling |-> "none"] /\ callStop = [c \in Calling |-> FALSE]
  /\ sink = [c \in Calling |-> "none"] /\ listens = [c \in Calling |-> FALSE]
  /\ hostHandle = Nothing /\ hostThread = [h \in Hosting |-> "none"]
  /\ hostStop = [h \in Hosting |-> FALSE] /\ window = "shown"

Dials ==
  \/ ConnectFails \/ AsksForSession \/ SessionReady \/ PeerOffer \/ PeerCandidates
  \/ SessionStarted \/ Stores

Commands == Disconnect \/ Wakes \/ StopHost \/ ShowMain \/ CloseRequested \/ Quit

CallThreads(c) == LoopSees(c) \/ LoopEnds(c) \/ HandsFrameOn(c) \/ SinkEnds(c)

PnNext ==
  /\ main # "exited"
  /\ \/ \E c \in Calling : Connect(c) \/ CallThreads(c)
     \/ \E h \in Hosting : StartHost(h) \/ HostThreadEnds(h)
     \/ Dials \/ Commands \/ Joins \/ PageReloads

\* The wait that has a deadline ends, a session is stored, a thread that is over is joined; the
\* loops go round.  The server and the host of a connect owe nothing.
MainWaits == (main = "confirming" /\ ConnectFails) \/ Stores \/ Joins

PnFair ==
  /\ WF_pnVars(main # "exited" /\ MainWaits)
  /\ \A c \in Calling : WF_pnVars(main # "exited" /\ (LoopStops(c) \/ LoopEnds(c)))

PnSpec == PnInit /\ [][PnNext]_pnVars /\ PnFair

-----------------------------------------------------------------------------
\* The variables of the application have their types.
PnTypeOK ==
  /\ main \in {"idle", "dialing", "asking", "exchanging", "confirming", "storing", "joining",
               "waking", "exited"}
  /\ dialled \in Calling \cup {Nothing} /\ conn \in Calling \cup {Nothing}
  /\ joined \in Calling \cup {Nothing}
  /\ callLoop \in [Calling -> {"none", "running", "leaving", "over"}]
  /\ callStop \in [Calling -> BOOLEAN] /\ listens \in [Calling -> BOOLEAN]
  /\ sink \in [Calling -> {"none", "running", "over"}]
  /\ hostHandle \in Hosting \cup {Nothing}
  /\ hostThread \in [Hosting -> {"none", "running", "over"}] /\ hostStop \in [Hosting -> BOOLEAN]
  /\ window \in {"shown", "hidden"} /\ {offered, gotCand} \subseteq BOOLEAN

(***************************************************************************)
(* Nothing runs that nobody can stop: every session that was not told to   *)
(* stop is the one of the application, or the one that connect is about to *)
(* store, and every host thread that was not is the one with the handle.   *)
(***************************************************************************)
NothingStray ==
  /\ \A c \in Calling : callLoop[c] = "running" /\ ~callStop[c] => c \in {conn, dialled}
  /\ \A h \in Hosting : hostThread[h] = "running" /\ ~hostStop[h] => h = hostHandle

\* The waits of connect and wake_device that only the server, or the other machine, ends.
AwaitsServer == main \in {"dialing", "asking", "exchanging", "waking"}

(***************************************************************************)
(* The application comes back to its window, unless the server or the host *)
(* keeps it waiting in connect or in wake_device for ever: a command that  *)
(* waits for a session's thread, with the lock on the session held, gets   *)
(* it, however the session is being left, and so does a connect that       *)
(* replaces a session.                                                     *)
(***************************************************************************)
PanelAnswers == []<>(~AwaitsServer) => []<>(main \in {"idle", "exited"})
=============================================================================
