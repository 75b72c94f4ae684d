-------------------------------- MODULE Worker ------------------------------
(***************************************************************************)
(* The worker of the system service (service main.rs, mod stream): it      *)
(* registers at the server, takes one request at a time, gets a session    *)
(* established, and streams the screen that DesktopCapture's thread        *)
(* captures until the session ends.  Unlike the application's host it has  *)
(* one thread for all of this: while a session runs, nothing is read from  *)
(* the server.                                                             *)
(*                                                                         *)
(* Any message may come at any time: those of a session that was given up  *)
(* arrive late.  What comes while nobody reads waits in the socket, and is *)
(* read later as if it had come then.                                      *)
(***************************************************************************)
EXTENDS DesktopCapture

VARIABLES
  stage,      \* "proving" (no device), "offline", "idle", "accepting", "answering",
              \* "trickling", "confirming", "streaming", "cleaning", "joining"
  astray,     \* the answer that was taken is not of the session that got the offer
  codec,      \* enc: the output its frames were of; NoCodec if there is no encoder
  curtain,    \* blanker
  keyLock,    \* input_locked
  keysBlocked,  \* the machine's own keyboard and mouse
  keysForgotten,  \* history: a lock was asked for that was on already, and none lifted since
  injectDesk  \* INPUT_DESK: the desktop this thread is bound to

keys     == <<keyLock, keysBlocked, keysForgotten>>
controls == <<codec, curtain, keys>>
wkVars == <<stage, astray, controls, injectDesk, dcVars>>

-----------------------------------------------------------------------------
NoCodec == -1

Stages == {"proving", "offline", "idle", "accepting", "answering", "trickling", "confirming",
           "streaming", "cleaning", "joining"}
Listening == {"idle", "accepting", "answering", "trickling"}

Moves(from, to) == stage = from /\ stage' = to

NoStream == UNCHANGED <<controls, injectDesk, dcVars>>

-----------------------------------------------------------------------------
(***************************************************************************)
(* run_worker, serve and serve_once.                                       *)
(***************************************************************************)
\* Without a device.json the worker only proves that it sees the screen.
ProvesOnly ==
  /\ stage = "proving"
  /\ StartsCapture
  /\ UNCHANGED <<stage, astray, controls, injectDesk>>

WorkerRegisters ==
  /\ Moves("offline", "idle")
  /\ UNCHANGED astray /\ NoStream

\* The socket breaks, which is noticed where it is read.
SocketBreaks ==
  /\ stage \in Listening /\ stage' = "offline" /\ astray' = FALSE
  /\ NoStream

-----------------------------------------------------------------------------
(***************************************************************************)
(* serve_session, up to the confirmation.  Every error ends it; the server *)
(* is not told.                                                            *)
(***************************************************************************)
GivesUp(from) == Moves(from, "idle") /\ astray' = FALSE

\* A request is accepted; another one that comes meanwhile is refused (busy), and whatever
\* else comes is dropped: neither changes anything.
Incoming ==
  /\ Moves("idle", "accepting")
  /\ UNCHANGED astray /\ NoStream

\* A session is ready, whichever it is: it gets the offer and a candidate, or the peer
\* connection cannot be set up.
ConnectReady ==
  /\ \/ Moves("accepting", "answering") /\ UNCHANGED astray
     \/ GivesUp("accepting")
  /\ NoStream

\* 15 s without ConnectReady, 20 s without an answer.
GivesUpWaiting ==
  /\ GivesUp("accepting") \/ GivesUp("answering")
  /\ NoStream

\* An answer is taken, of whichever session; one that cannot be used is an error.  Candidates
\* are added as they come.
Answer(stray) ==
  /\ \/ Moves("answering", "trickling") /\ astray' = stray
     \/ GivesUp("answering")
  /\ NoStream

\* A second answer finds no pending offer.
SecondAnswer == GivesUp("trickling") /\ NoStream

\* 2 s after the answer the candidates are taken to be complete.
StartsConfirming ==
  /\ Moves("trickling", "confirming")
  /\ UNCHANGED astray /\ NoStream

\* drive_until_confirmed: the wrong password, no connection, 30 s; or the capture's thread
\* cannot be started.
FailsToConfirm == GivesUp("confirming") /\ NoStream

\* The key is confirmed, which only the peer that got the offer can do.
Confirms ==
  /\ Moves("confirming", "streaming") /\ ~astray
  /\ StartsCapture
  /\ UNCHANGED <<astray, controls, injectDesk>>

-----------------------------------------------------------------------------
(***************************************************************************)
(* The loop of a session.  The thread binds itself to the desktop that has *)
(* the input, at most every 200 ms and only when something has come.       *)
(***************************************************************************)
Streaming == stage = "streaming" /\ UNCHANGED <<astray, around, source, desk, deskHandles,
                                                output, dup, proof>>

CaptureOnly == UNCHANGED <<wanted, stopping, frames>>

\* ensure_input_desktop: the handle of the desktop before is closed, or the new one is.
Rebound == injectDesk' \in {injectDesk} \cup IF granted THEN {inputDesktop} ELSE {}

AsksMonitor(i) ==
  /\ Streaming /\ Rebound /\ UNCHANGED <<stage, stopping, frames>>
  /\ wanted' = i /\ codec' = NoCodec
  /\ UNCHANGED <<curtain, keys>>

AsksCurtain(enabled) ==
  /\ Streaming /\ Rebound /\ UNCHANGED stage /\ CaptureOnly
  /\ curtain' = enabled
  /\ UNCHANGED <<codec, keys>>

\* BlockInput fails for a process that is not allowed to block, and where the input is blocked
\* already: then it stays blocked, and input_locked, which says whether this call has blocked
\* it, is cleared.
AsksInputLock(enabled) ==
  /\ Streaming /\ Rebound /\ UNCHANGED stage /\ CaptureOnly
  /\ keysBlocked' \in IF enabled THEN {keysBlocked, TRUE} ELSE {FALSE}
  /\ keyLock' = (keysBlocked' /\ ~keysBlocked)
  /\ keysForgotten' = (enabled /\ keysBlocked)
  /\ UNCHANGED <<codec, curtain>>

\* Input comes when the thread looked at the desktop 200 ms ago or more; it is injected on the
\* desktop the thread is bound to then.  Other input changes nothing here.
InjectsInput ==
  /\ Streaming /\ UNCHANGED stage /\ CaptureOnly
  /\ injectDesk' = IF granted THEN inputDesktop ELSE injectDesk
  /\ UNCHANGED controls

\* BYE, or the connection is dead.
StreamEnds ==
  /\ Streaming /\ stage' = "cleaning" /\ CaptureOnly
  /\ UNCHANGED <<controls, injectDesk>>

\* A frame comes too early, or it is encoded by the encoder there is or by a new one.
TakesFrame ==
  /\ Streaming /\ frames # <<>> /\ frames' = Tail(frames)
  /\ codec' \in {codec, IF codec = NoCodec THEN Head(frames).out ELSE codec}
  /\ UNCHANGED <<stage, wanted, stopping, curtain, keys, injectDesk>>

\* Faulty variant: an encoder that cannot be made ends the function, not the loop.
ReturnsAtOnce == stage' = "idle"

\* The encoder cannot be made: the loop is left, and what follows it puts the machine back.
LeavesLoop == stage' = "cleaning"

NoEncoderMade ==
  /\ Streaming /\ frames # <<>> /\ frames' = Tail(frames) /\ codec = NoCodec
  /\ LeavesLoop
  /\ UNCHANGED <<wanted, stopping, controls, injectDesk>>

-----------------------------------------------------------------------------
\* The screen is shown and the input unblocked, BYE is said, the capture told to stop.
Cleans ==
  /\ Moves("cleaning", "joining")
  /\ curtain' = FALSE /\ keysBlocked' = (keysBlocked /\ ~keyLock) /\ stopping' = TRUE
  /\ UNCHANGED <<astray, around, source, wanted, desk, deskHandles, output, dup,
                 frames, proof, codec, keyLock, keysForgotten, injectDesk>>

\* The capture's thread has ended, and the server is told of it; the session's state is dropped.
ClosesSession ==
  /\ GivesUp("joining") /\ source = "none"
  /\ stopping' = FALSE /\ wanted' = 0 /\ frames' = <<>>
  /\ codec' = NoCodec /\ keyLock' = FALSE
  /\ UNCHANGED <<curtain, keysBlocked, keysForgotten, injectDesk, around, source, desk,
                 deskHandles, output, dup, proof>>

-----------------------------------------------------------------------------
WkInit ==
  /\ job \in {"proof", "stream"} /\ DcInit
  /\ stage = IF job = "proof" THEN "proving" ELSE "offline"
  /\ astray = FALSE
  /\ codec = NoCodec /\ curtain = FALSE
  /\ keyLock = FALSE /\ keysBlocked = FALSE /\ keysForgotten = FALSE
  /\ injectDesk = No

Establishes ==
  \/ Incoming \/ ConnectReady \/ GivesUpWaiting \/ SecondAnswer \/ StartsConfirming
  \/ FailsToConfirm \/ Confirms \/ \E stray \in BOOLEAN : Answer(stray)

Streams ==
  \/ \E i \in AnyOutput : AsksMonitor(i)
  \/ \E enabled \in BOOLEAN : AsksCurtain(enabled) \/ AsksInputLock(enabled)
  \/ InjectsInput \/ StreamEnds \/ TakesFrame \/ NoEncoderMade

Captures == (Source \/ Surroundings) /\ UNCHANGED <<stage, astray, controls, injectDesk>>

WkNext ==
  \/ ProvesOnly \/ WorkerRegisters \/ SocketBreaks \/ Establishes \/ Streams \/ Cleans
  \/ ClosesSession \/ Captures

\* The capturing thread goes round, and 200 ms pass now and then; the session's thread
\* cleans up and joins; input keeps coming.
SourceRuns  == Source /\ UNCHANGED <<stage, astray, controls, injectDesk>>
SourcePolls == Polls /\ UNCHANGED <<stage, astray, controls, injectDesk>>

WkFair ==
  /\ WF_wkVars(SourceRuns) /\ SF_wkVars(SourcePolls)
  /\ WF_wkVars(Cleans) /\ WF_wkVars(ClosesSession) /\ WF_wkVars(InjectsInput)

WkSpec == WkInit /\ [][WkNext]_wkVars /\ WkFair

-----------------------------------------------------------------------------
\* The variables of the worker have their types.
WkTypeOK ==
  /\ DcTypeOK
  /\ stage \in Stages
  /\ codec \in Output \cup {NoCodec}
  /\ injectDesk \in Desktop \cup {No}
  /\ {astray, curtain, keyLock, keysBlocked, keysForgotten} \subseteq BOOLEAN

(***************************************************************************)
(* Nothing of a session outlives it: when the worker waits for requests    *)
(* again the screen is visible, the keyboard works, the capture's thread   *)
(* has ended and its desktop is closed, whichever way the session was      *)
(* left.  The comment there (main.rs:1237) has no exception; the code has  *)
(* one: a lock that was asked for again while it was on is left on by the  *)
(* session, and by those that follow, until one lifts it.                  *)
(***************************************************************************)
Waits == stage \in Listening \cup {"offline", "confirming"}

NothingOutlives ==
  Waits =>
    /\ ~curtain /\ (keysBlocked => keysForgotten)
    /\ source = "none" /\ deskHandles = {}

(***************************************************************************)
(* While a session streams, the picture and the input end up on the same   *)
(* desktop, the one that has the input, and the picture on the output that *)
(* was asked for last, whatever was captured before and in whichever order *)
(* desktop, monitor and permission changed.                                *)
(***************************************************************************)
Steady(d, i) == stage = "streaming" /\ granted /\ inputDesktop = d /\ wanted = i

PictureFollows ==
  \A d \in Desktop, i \in AnyOutput :
    <>[]Steady(d, i) => <>[](dup = [desk |-> d, out |-> Existing(i)] /\ injectDesk = d)
=============================================================================
