----------------------------- MODULE HostServe ------------------------------
(***************************************************************************)
(* The host process of a controlled machine (core/src/connection.rs,       *)
(* Managed::serve and what it calls): one thread that keeps one signaling  *)
(* WebSocket, answers incoming requests, asks the person at the machine,   *)
(* establishes a session and watches over the media thread while it runs.  *)
(*                                                                         *)
(* One action is what the thread does between two blocking calls.  Where   *)
(* the code looks at a flag or a deadline and then blocks in try_recv, the *)
(* look and the read are two actions (polling says which comes next), as a *)
(* flag may change in between.                                             *)
(*                                                                         *)
(* Around it: the server, which knows the stage of each session            *)
(* (Registry has the details) and is taken to handle a frame of the host   *)
(* when it is sent; the controllers; the person and the host panel; the    *)
(* network.  Frames that every loop of the host reads and ignores (a       *)
(* session_close, an error; a wake_dispatch, which changes no state here)  *)
(* are represented by "close".                                             *)
(***************************************************************************)
EXTENDS Naturals, Sequences

CONSTANTS
  SessionId,     \* the sessions that controllers ask for
  HasPermanent,  \* whether the owner has set a permanent password
  MaxCode        \* bound of the model: nobody asks for a new code after this many

ASSUME HostAssumption == HasPermanent \in BOOLEAN /\ MaxCode \in Nat \ {0}

VARIABLES
  pc,          \* where the serving thread is
  polling,     \* the loop has looked at its flags and is about to read
  job,         \* the request being handled
  pending,     \* the request that came at the very end of the last session, if any
  oneTime,     \* the code on display; codes are numbered as they are generated
  est,         \* what the establishment has read: the session of the connect_ready,
               \* the signals so far, the session the answer was about
  media,       \* the media thread: "none", "running", "cleaning" (done is set), "over"
  ws,          \* the WebSocket: "down", "up", or "broken" until the host notices
  inbox,       \* what the server has sent and the host has not read
  stage,       \* how far each session is, at the server and at its controller
  request,     \* what each controller asks with: the kind of password, the secret
  stop, rotate, confirm,   \* HostOptions: stop, rotate, confirm_incoming
  decisions,   \* HostOptions: decisions, the answers of the panel, in order
  prompts,     \* the sessions the person was asked about; the index is the request_id
  said,        \* <<request_id, allow>>: what the person answered
  owed,        \* the sessions whose request was read and is not answered yet
  admitted,    \* <<session, request_id>> of the accepted requests; 0 when nobody was asked
  used         \* <<code, session>>: the one-time codes that established sessions

thread == <<pc, polling, job, pending, oneTime, est, media>>
world  == <<ws, stage, request, stop, confirm, said>>
ghosts == <<owed, admitted, used>>
vars   == <<thread, world, inbox, rotate, decisions, prompts, ghosts>>

-----------------------------------------------------------------------------
Code   == 1 .. oneTime         \* the codes so far
Secret == Code \cup {0}        \* 0 is the permanent password
PasswordKind == {"one_time", "permanent"}

Waiting    == {"deciding", "accepting", "establishing"}
Loops      == Waiting \cup {"idle", "serving"}
InSession  == {"serving", "joinOk", "joinWs"}
InProgress == {"pending", "ready", "offered", "answered", "iced"}

NoJob == [sid |-> "none", kind |-> "none", secret |-> 0]
Job   == [sid : SessionId, kind : PasswordKind, secret : Secret]
NoEst == [sid |-> "none", got |-> {}, answerOf |-> "none"]

Frame(type, s) == [type |-> type, sid |-> s]
Frames == [type : {"incoming", "ready", "answer", "ice", "close"}, sid : SessionId]

NextIs(type) == inbox # <<>> /\ Head(inbox).type = type
Read == inbox' = Tail(inbox)

-----------------------------------------------------------------------------
(***************************************************************************)
(* Sending.  While the WebSocket is up the server gets the frame.  On a    *)
(* broken one the call reports the error, or the frame is just lost.       *)
(***************************************************************************)
WsLost == IF pc = "serving" THEN "joinWs" ELSE "offline"

\* Go on at p after a send, or give the WebSocket up.
Proceed(p) == pc' \in {p} \cup IF ws = "broken" THEN {WsLost} ELSE {}

\* connect_reject: the server ends the session.
Rejected(s) ==
  /\ stage' = [stage EXCEPT ![s] = IF ws = "up" THEN "over" ELSE @]
  /\ owed' = owed \ {s}

\* connect_accept: the server makes a pending session ready, and tells both sides.
\* rest is what the inbox has before that.
Accepted(s, rid, rest) ==
  /\ IF ws = "up" /\ stage[s] = "pending"
     THEN stage' = [stage EXCEPT ![s] = "ready"] /\ inbox' = Append(rest, Frame("ready", s))
     ELSE UNCHANGED stage /\ inbox' = rest
  /\ owed' = owed \ {s}
  /\ admitted' = admitted \cup {<<s, rid>>}
  /\ Proceed("accepting")

-----------------------------------------------------------------------------
(***************************************************************************)
(* The outer loop of serve: connect, register, and the top of the inner    *)
(* loop.  All that is kept across WebSockets is the one-time code.         *)
(***************************************************************************)
Connects ==
  /\ pc = "offline" /\ ~stop
  /\ ws' = "up" /\ inbox' = <<>>
  /\ pc' = "idle" /\ polling' = FALSE /\ job' = NoJob /\ pending' = {} /\ est' = NoEst
  /\ owed' = {}
  /\ UNCHANGED <<oneTime, media, stage, request, stop, rotate, confirm, decisions, prompts,
                 said, admitted, used>>

NewCode == oneTime' = oneTime + 1

\* What the server does when the host's role goes offline (Registry: GoOffline).
Ended == [s \in SessionId |-> IF stage[s] \in InProgress THEN "over" ELSE stage[s]]

\* stop: serve returns, which drops the WebSocket; the server ends what was in progress.
Stops ==
  /\ stop /\ pc \in {"offline", "idle"} /\ ~polling
  /\ pc' = "stopped" /\ ws' = "down" /\ inbox' = <<>>
  /\ stage' = Ended
  /\ UNCHANGED <<polling, job, pending, oneTime, est, media, request, stop, rotate, confirm,
                 decisions, prompts, said, ghosts>>

LooksIdle ==
  /\ pc = "idle" /\ ~polling /\ ~stop
  /\ polling' = TRUE /\ rotate' = FALSE
  /\ IF rotate THEN NewCode ELSE UNCHANGED oneTime
  /\ UNCHANGED <<pc, job, pending, est, media, world, inbox, decisions, prompts, ghosts>>

-----------------------------------------------------------------------------
(***************************************************************************)
(* A request: the one left over from the last session, or the next frame.  *)
(***************************************************************************)
Takes(s) ==
  /\ pc = "idle" /\ polling /\ polling' = FALSE
  /\ pending = {s} \/ (pending = {} /\ NextIs("incoming") /\ Head(inbox).sid = s)
  /\ pending' = {}

\* The inbox after that.
Rest == IF pending = {} THEN Tail(inbox) ELSE inbox

SecretFor(kind) == IF kind = "one_time" THEN oneTime ELSE 0

JobOf(s) == [sid |-> s, kind |-> request[s].kind, secret |-> SecretFor(request[s].kind)]

Usable(s) == request[s].kind = "one_time" \/ HasPermanent

\* No permanent password is set: the request is rejected.
Refuses(s) ==
  /\ Takes(s) /\ ~Usable(s)
  /\ inbox' = Rest /\ Rejected(s) /\ Proceed("idle")
  /\ UNCHANGED <<job, oneTime, est, media, ws, request, stop, rotate, confirm, decisions,
                 prompts, said, admitted, used>>

\* Attended mode: answers to earlier dialogs are thrown away and a dialog is shown.
AsksPerson(s) ==
  /\ Takes(s) /\ Usable(s) /\ confirm
  /\ inbox' = Rest /\ job' = JobOf(s) /\ pc' = "deciding"
  /\ decisions' = <<>> /\ prompts' = Append(prompts, s)
  /\ owed' = owed \cup {s}
  /\ UNCHANGED <<oneTime, est, media, world, rotate, admitted, used>>

\* Faulty variant: the switch to attended mode is not looked at.
AcceptsUnasked(s) ==
  /\ Takes(s) /\ Usable(s)
  /\ job' = JobOf(s) /\ Accepted(s, 0, Rest)
  /\ UNCHANGED <<oneTime, est, media, ws, request, stop, rotate, confirm, decisions,
                 prompts, said, used>>

AcceptsAtOnce(s) ==
  /\ Takes(s) /\ Usable(s) /\ ~confirm
  /\ job' = JobOf(s) /\ Accepted(s, 0, Rest)
  /\ UNCHANGED <<oneTime, est, media, ws, request, stop, rotate, confirm, decisions,
                 prompts, said, used>>

-----------------------------------------------------------------------------
(***************************************************************************)
(* wait_decision: the loop reads one answer of the panel per turn and only *)
(* heeds the one that carries the number of its own dialog.                *)
(***************************************************************************)
\* Faulty variant: the number of the dialog is not compared.
AnyAnswerCounts(d) == TRUE

Answers(d) == d[1] = Len(prompts)

\* The person said no, the 30 s are over, or stop was set.
Denies ==
  /\ pc = "deciding" /\ ~polling
  /\ \/ UNCHANGED decisions
     \/ /\ ~stop /\ decisions # <<>> /\ Answers(Head(decisions)) /\ ~Head(decisions)[2]
        /\ decisions' = Tail(decisions)
  /\ Rejected(job.sid) /\ Proceed("idle") /\ job' = NoJob
  /\ UNCHANGED <<polling, pending, oneTime, est, media, ws, request, stop, confirm, said,
                 inbox, rotate, prompts, admitted, used>>

Allows ==
  /\ pc = "deciding" /\ ~polling /\ ~stop
  /\ decisions # <<>> /\ Answers(Head(decisions)) /\ Head(decisions)[2]
  /\ decisions' = Tail(decisions)
  /\ Accepted(job.sid, Len(prompts), inbox)
  /\ UNCHANGED <<polling, job, pending, oneTime, est, media, ws, request, stop, confirm, said,
                 rotate, prompts, used>>

\* Faulty variant: the code is replaced while the dialog is shown.
RotatesWhileDeciding ==
  /\ pc = "deciding" /\ ~polling /\ ~stop /\ polling' = TRUE
  /\ rotate' = FALSE /\ IF rotate THEN NewCode ELSE UNCHANGED oneTime
  /\ UNCHANGED <<pc, job, pending, est, media, world, inbox, decisions, prompts, ghosts>>

\* No answer, or one to another dialog: it is dropped.
LooksDeciding ==
  /\ pc = "deciding" /\ ~polling /\ ~stop /\ polling' = TRUE
  /\ IF decisions = <<>> THEN UNCHANGED decisions
     ELSE ~Answers(Head(decisions)) /\ decisions' = Tail(decisions)
  /\ UNCHANGED <<pc, job, pending, oneTime, est, media, world, inbox, rotate, prompts, ghosts>>

-----------------------------------------------------------------------------
(***************************************************************************)
(* serve_session and establish_managed: wait 15 s for connect_ready, send  *)
(* offer and ice, wait 20 s for the answer and the ice of the other side,  *)
(* then 30 s for PAKE.  Only the first wait looks at stop.  Which session  *)
(* a connect_ready or a signal is about is not compared with the request.  *)
(***************************************************************************)
Looks ==
  /\ pc \in {"accepting", "establishing"} /\ ~polling /\ polling' = TRUE
  /\ pc = "accepting" => ~stop
  /\ UNCHANGED <<pc, job, pending, oneTime, est, media, world, inbox, rotate, decisions,
                 prompts, ghosts>>

\* The attempt is over, the WebSocket is kept; nothing is sent about the session.
Abandon == pc' = "idle" /\ polling' = FALSE /\ job' = NoJob /\ est' = NoEst

\* Faulty variant: the wait for connect_ready has no deadline and does not look at stop.
WaitsForReady ==
  /\ pc = "establishing" /\ ~polling
  /\ Abandon
  /\ UNCHANGED <<pending, oneTime, media, world, inbox, rotate, decisions, prompts, ghosts>>

GivesUp ==
  /\ pc \in {"accepting", "establishing"} /\ ~polling
  /\ Abandon
  /\ UNCHANGED <<pending, oneTime, media, world, inbox, rotate, decisions, prompts, ghosts>>

\* connect_ready: the offer goes out, unless the session cannot be set up locally.
ReadsReady ==
  /\ pc = "accepting" /\ polling /\ NextIs("ready") /\ Read
  /\ LET s == Head(inbox).sid IN
     \/ /\ est' = [NoEst EXCEPT !.sid = s]
        /\ polling' = FALSE /\ Proceed("establishing")
        /\ stage' = [stage EXCEPT ![s] = IF ws = "up" /\ @ = "ready" THEN "offered" ELSE @]
        /\ UNCHANGED job
     \/ Abandon /\ UNCHANGED stage
  /\ UNCHANGED <<pending, oneTime, media, ws, request, stop, confirm, said, rotate, decisions,
                 prompts, ghosts>>

\* An answer is taken once; a second one has no offer left to answer, and fails.
ReadsSignal ==
  /\ pc = "establishing" /\ polling /\ (NextIs("answer") \/ NextIs("ice")) /\ Read
  /\ LET type == Head(inbox).type
         got  == est.got \cup {type} IN
     \/ /\ ~(type = "answer" /\ "answer" \in est.got)
        /\ est' = [est EXCEPT !.got = got,
                              !.answerOf = IF type = "answer" THEN Head(inbox).sid ELSE @]
        /\ pc' = IF got = {"answer", "ice"} THEN "handshaking" ELSE pc
        /\ polling' = FALSE /\ UNCHANGED job
     \/ type = "answer" /\ Abandon
  /\ UNCHANGED <<pending, oneTime, media, world, rotate, decisions, prompts, ghosts>>

\* PAKE fails, the peer is lost, or the time is up.
HandshakeFails ==
  /\ pc = "handshaking" /\ Abandon
  /\ UNCHANGED <<pending, oneTime, media, world, inbox, rotate, decisions, prompts, ghosts>>

\* Both sides prove the same secret over the DTLS channel of the offer that was answered.
Established ==
  /\ pc = "handshaking"
  /\ est.answerOf = est.sid /\ request[est.sid].secret = job.secret
  /\ pc' = "serving" /\ media' = "running"
  /\ used' = IF job.kind = "one_time" THEN used \cup {<<job.secret, est.sid>>} ELSE used
  /\ UNCHANGED <<polling, job, pending, oneTime, est, world, inbox, rotate, decisions, prompts,
                 owed, admitted>>

-----------------------------------------------------------------------------
(***************************************************************************)
(* The pulse loop of serve_session, and the end of the session.            *)
(***************************************************************************)
Done == media \in {"cleaning", "over"}

LooksServing ==
  /\ pc = "serving" /\ ~polling
  /\ IF Done \/ stop THEN pc' = "joinOk" /\ UNCHANGED polling
     ELSE UNCHANGED pc /\ polling' = TRUE
  /\ UNCHANGED <<job, pending, oneTime, est, media, world, inbox, rotate, decisions, prompts,
                 ghosts>>

\* Faulty variant: a request that arrives when the media thread is done is dropped.
DropsTail ==
  /\ pc = "serving" /\ polling /\ NextIs("incoming") /\ Read /\ Done
  /\ owed' = owed \cup {Head(inbox).sid}
  /\ pc' = "joinOk" /\ polling' = FALSE
  /\ UNCHANGED <<job, pending, oneTime, est, media, world, rotate, decisions, prompts, admitted, used>>

\* A request that arrives when the media thread is done is the next session's.
ReadsTail ==
  /\ pc = "serving" /\ polling /\ NextIs("incoming") /\ Read /\ Done
  /\ pending' = {Head(inbox).sid} /\ owed' = owed \cup {Head(inbox).sid}
  /\ pc' = "joinOk" /\ polling' = FALSE
  /\ UNCHANGED <<job, oneTime, est, media, world, rotate, decisions, prompts, admitted, used>>

\* Faulty variant: the thread is not waited for.
NeverJoins == UNCHANGED media

JoinsMedia == media = "over" /\ media' = "none"

\* The media thread is joined.  With the WebSocket intact the code that was used is
\* replaced; otherwise serve goes on to reconnect at once.
Joins ==
  /\ pc \in {"joinOk", "joinWs"}
  /\ JoinsMedia /\ job' = NoJob /\ est' = NoEst
  /\ IF pc = "joinOk"
     THEN /\ pc' = "idle"
          /\ IF job.kind = "one_time" THEN NewCode ELSE UNCHANGED oneTime
     ELSE pc' = "offline" /\ UNCHANGED oneTime
  /\ UNCHANGED <<polling, pending, world, inbox, rotate, decisions, prompts, ghosts>>

-----------------------------------------------------------------------------
(***************************************************************************)
(* What the reads of the loops have in common.                             *)
(***************************************************************************)
\* A request while the host is taken: busy.
RejectsBusy ==
  /\ pc \in Waiting \cup {"serving"} /\ polling /\ polling' = FALSE
  /\ NextIs("incoming") /\ Read
  /\ pc = "serving" => ~Done
  /\ Rejected(Head(inbox).sid) /\ Proceed(pc)
  /\ UNCHANGED <<job, pending, oneTime, est, media, ws, request, stop, confirm, said, rotate,
                 decisions, prompts, admitted, used>>

\* A frame that is not for this loop, or no frame for 2 s.
Ignored == \/ NextIs("close")
           \/ NextIs("ready") /\ pc # "accepting"
           \/ (NextIs("answer") \/ NextIs("ice")) /\ pc # "establishing"

ReadsNothing ==
  /\ pc \in Loops /\ polling /\ polling' = FALSE
  /\ pc = "idle" => pending = {}
  /\ \/ Ignored /\ Read
     \/ inbox = <<>> /\ ws = "up" /\ UNCHANGED inbox
  /\ UNCHANGED <<pc, job, pending, oneTime, est, media, world, rotate, decisions, prompts, ghosts>>

ReadFails ==
  /\ pc \in Loops /\ polling /\ polling' = FALSE
  /\ pc = "idle" => pending = {}
  /\ inbox = <<>> /\ ws = "broken" /\ pc' = WsLost
  /\ UNCHANGED <<job, pending, oneTime, est, media, world, inbox, rotate, decisions, prompts,
                 ghosts>>

-----------------------------------------------------------------------------
(***************************************************************************)
(* The media thread (managed_loop): it ends when the peer says BYE or is   *)
(* lost, sets done, and releases the capture.                              *)
(***************************************************************************)
MediaEnds(from, to) ==
  /\ media = from /\ media' = to
  /\ UNCHANGED <<pc, polling, job, pending, oneTime, est, world, inbox, rotate, decisions,
                 prompts, ghosts>>

SessionOver == MediaEnds("running", "cleaning")
CleanedUp   == MediaEnds("cleaning", "over")

-----------------------------------------------------------------------------
(***************************************************************************)
(* The world.                                                              *)
(***************************************************************************)
Moves(s, from, to) == stage[s] = from /\ stage' = [stage EXCEPT ![s] = to]

Sends(s, from, to, type) ==
  /\ ws = "up" /\ Moves(s, from, to)
  /\ inbox' = Append(inbox, Frame(type, s))
  /\ UNCHANGED <<thread, ws, stop, confirm, said, rotate, decisions, prompts, ghosts>>

\* A controller asks for a session; the person behind it types the permanent password, or
\* any code shown so far.  (Who types anything else is left to HandshakeFails.)
ControllerAsks(s, kind, secret) ==
  /\ IF kind = "one_time" THEN secret \in Code ELSE secret = 0
  /\ Sends(s, "unborn", "pending", "incoming")
  /\ request' = [request EXCEPT ![s] = [kind |-> kind, secret |-> secret]]

ControllerAnswers(s) == Sends(s, "offered", "answered", "answer") /\ UNCHANGED request
ControllerSendsIce(s) == Sends(s, "answered", "iced", "ice") /\ UNCHANGED request

\* The controller closes the session or its socket: it gave up, or it is established.
ControllerLeaves(s) ==
  /\ \E from \in InProgress : Sends(s, from, "over", "close")
  /\ UNCHANGED request

\* The connection breaks, or the server drops it; what was on its way may be lost.  If the
\* server sees the close it ends what was in progress; if the host registers again before
\* that, its new slot inherits the sessions as they are (online), and no frame is sent again.
WsBreaks ==
  /\ ws = "up" /\ ws' = "broken" /\ inbox' \in {inbox, <<>>}
  /\ stage' \in {Ended, stage}
  /\ UNCHANGED <<thread, request, stop, confirm, said, rotate, decisions, prompts, ghosts>>

PersonSays(rid, allow) ==
  /\ rid \in DOMAIN prompts /\ \A b \in BOOLEAN : <<rid, b>> \notin said
  /\ said' = said \cup {<<rid, allow>>}
  /\ decisions' = Append(decisions, <<rid, allow>>)
  /\ UNCHANGED <<thread, ws, stage, request, stop, confirm, inbox, rotate, prompts, ghosts>>

\* The buttons and the switch of the host panel.
PanelStops ==
  /\ stop' = TRUE
  /\ UNCHANGED <<thread, ws, stage, request, confirm, said, inbox, rotate, decisions, prompts, ghosts>>

PanelRotates ==
  /\ oneTime < MaxCode /\ rotate' = TRUE
  /\ UNCHANGED <<thread, world, inbox, decisions, prompts, ghosts>>

PanelSwitches ==
  /\ confirm' = ~confirm
  /\ UNCHANGED <<thread, ws, stage, request, stop, said, inbox, rotate, decisions, prompts, ghosts>>

-----------------------------------------------------------------------------
Init ==
  /\ pc = "offline" /\ polling = FALSE /\ job = NoJob /\ pending = {} /\ oneTime = 1
  /\ est = NoEst /\ media = "none"
  /\ ws = "down" /\ inbox = <<>>
  /\ stage = [s \in SessionId |-> "unborn"]
  /\ request = [s \in SessionId |-> [kind |-> "permanent", secret |-> 0]]
  /\ stop = FALSE /\ rotate = FALSE /\ confirm \in BOOLEAN
  /\ decisions = <<>> /\ prompts = <<>> /\ said = {}
  /\ owed = {} /\ admitted = {} /\ used = {}

Requested == \E s \in SessionId : Refuses(s) \/ AsksPerson(s) \/ AcceptsAtOnce(s)

\* The thread's steps that no clock has to trigger.
HostStep ==
  \/ Connects \/ Stops \/ LooksIdle \/ Requested
  \/ Allows \/ LooksDeciding
  \/ Looks \/ ReadsReady \/ ReadsSignal \/ Established
  \/ LooksServing \/ ReadsTail \/ Joins
  \/ RejectsBusy \/ ReadsNothing \/ ReadFails

TimesOut == Denies \/ GivesUp \/ HandshakeFails

World ==
  \/ \E s \in SessionId, kind \in PasswordKind, secret \in Secret : ControllerAsks(s, kind, secret)
  \/ \E s \in SessionId : ControllerAnswers(s) \/ ControllerSendsIce(s) \/ ControllerLeaves(s)
  \/ WsBreaks
  \/ \E rid \in DOMAIN prompts, allow \in BOOLEAN : PersonSays(rid, allow)
  \/ PanelStops \/ PanelRotates \/ PanelSwitches

Next == HostStep \/ TimesOut \/ SessionOver \/ CleanedUp \/ World

(***************************************************************************)
(* The thread runs, a deadline that has passed is noticed at one of the    *)
(* looks that follow, and the media thread finishes its cleanup.  Sessions *)
(* may last for ever, and nobody else owes anything.                       *)
(***************************************************************************)
Fairness == WF_vars(HostStep) /\ SF_vars(TimesOut) /\ WF_vars(CleanedUp)

Spec == Init /\ [][Next]_vars /\ Fairness

-----------------------------------------------------------------------------
ThreadOK ==
  /\ pc \in Loops \cup InSession \cup {"offline", "handshaking", "stopped"}
  /\ polling \in BOOLEAN
  /\ job \in Job \cup {NoJob}
  /\ pending \subseteq SessionId
  /\ oneTime \in Nat \ {0}
  /\ est \in [sid : SessionId \cup {"none"}, got : SUBSET {"answer", "ice"},
              answerOf : SessionId \cup {"none"}]
  /\ media \in {"none", "running", "cleaning", "over"}

WorldOK ==
  /\ ws \in {"down", "up", "broken"}
  /\ stop \in BOOLEAN /\ rotate \in BOOLEAN /\ confirm \in BOOLEAN
  /\ stage \in [SessionId -> InProgress \cup {"unborn", "over"}]
  /\ request \in [SessionId -> [kind : PasswordKind, secret : Secret]]
  /\ said \subseteq (Nat \ {0}) \X BOOLEAN

QueuesOK ==
  /\ inbox \in Seq(Frames)
  /\ prompts \in Seq(SessionId)
  /\ decisions \in Seq((Nat \ {0}) \X BOOLEAN)

GhostsOK ==
  /\ owed \subseteq SessionId
  /\ admitted \subseteq SessionId \X Nat
  /\ used \subseteq Code \X SessionId

\* The types of all the variables; in particular the requests, the job in hand and the codes
\* that were used name no code that has not been generated yet.
TypeOK == ThreadOK /\ WorldOK /\ QueuesOK /\ GhostsOK

\* In attended mode a request is accepted only on the person's yes to the dialog about
\* this very request: no late answer to an earlier dialog, which the panel may deliver at
\* any time, admits somebody else.
ConsentGiven ==
  \A a \in admitted : a[2] # 0 =>
    a[2] \in DOMAIN prompts /\ prompts[a[2]] = a[1] /\ <<a[2], TRUE>> \in said

\* One capture at a time: as long as a media thread has not released the screen and the
\* encoder, the host is still with that session, whatever happened to the WebSocket.
OneCapture == media # "none" => pc \in InSession

\* A request the host has read is answered, is the one in hand, or is kept for the next
\* turn, unless the WebSocket it came over is gone.
NoRequestForgotten ==
  pc \notin {"offline", "stopped", "joinWs"} =>
    owed \subseteq pending \cup (IF pc = "deciding" THEN {job.sid} ELSE {})

\* The person who reads the code off the screen and the controller that is let in by it
\* mean the same code: the display does not change between the two.
CodeOnDisplay == job.kind = "one_time" => job.secret = oneTime

(***************************************************************************)
(* Every request that reaches the host's WebSocket is answered: busy,      *)
(* refused, denied or accepted.  The exceptions are a controller or a      *)
(* WebSocket that goes first, and a host that is being stopped.  (A        *)
(* request that was on its way over a WebSocket that broke, and whose      *)
(* session the next one inherits, is not sent again: it stays pending at   *)
(* the server until its controller leaves.)                                *)
(***************************************************************************)
RequestIsAnswered ==
  \A s \in SessionId :
    (stage[s] = "pending" /\ \E i \in DOMAIN inbox : inbox[i] = Frame("incoming", s))
      ~> (stage[s] # "pending" \/ stop \/ ws # "up")

\* Stopping the host works from wherever it is; only a running session delays it.  Connecting
\* and registering are one step here: a server that never finishes the upgrade, for which the
\* code has no timeout, holds the thread and is outside of this.
StopIsHeeded == stop ~> (pc = "stopped" \/ media = "running")

-----------------------------------------------------------------------------
\* The host as its owner sees it (SessionHost).
Asked == {s \in SessionId : stage[s] # "unborn"}

Phase ==
  CASE pc \in {"offline", "idle"} -> "free"
    [] pc = "deciding"            -> "asking"
    [] pc \in InSession           -> "hosting"
    [] pc = "stopped"             -> "stopped"
    [] OTHER                      -> "settingUp"

\* The thread keeps a job it has no use for any more until it is connected again.
InHand == IF Phase \in {"free", "stopped"} THEN "none" ELSE job.sid

Host == INSTANCE SessionHost WITH
  phase <- Phase, inHand <- InHand, code <- oneTime, attended <- confirm,
  request <- [s \in Asked |-> request[s]], asked <- prompts,
  capturing <- media # "none", guests <- used

\* One session after another: a session comes of a request that was taken up while the host
\* was free, unattended or on the yes to its own dialog; whoever gets in knows the secret on
\* display; nothing captures the screen unless a session is hosted; codes only go on.
ImplementsHost == Host!HSpec

\* "burns after a session established by it" (serve): no code establishes two sessions.
OneTimeBurns == \A u, v \in used : u[1] = v[1] => u = v

\* "accept the request session_id and carry the session through" (serve_session): the
\* session that is set up is the one whose request was accepted last.
ServesWhatItAccepted ==
  pc \in {"establishing", "handshaking", "serving"} => est.sid = job.sid
=============================================================================
