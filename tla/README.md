# ZTW in TLA+

Models, model checks and machine-checked proofs of ZTW, a remote-desktop system: a
rendezvous server (TypeScript), a native core shared by the controlled and the controlling
side (Rust), a desktop shell, a Windows service and a web controller.

Contents: [the system](#the-system) · [modules](#the-modules) · [runs](#what-the-runs-show) ·
[bounds](#bounds) · [fairness](#fairness) · [proofs](#what-is-proved) ·
[findings](#findings) · [not modelled](#what-is-not-modelled) · [plan](#plan)

How to run: `tlc -config MCRegistry.cfg MCRegistry`, and so on for each configuration (the
module of each is in `PROJECT.json`; `MCSignaling*.cfg` belong to `MCSignaling`,
`MCHostServe*.cfg` to `MCHostServe`, `MCFileTransfer*.cfg` to `MCFileTransfer`,
`MCKeepAlive.cfg` to `MCMediaLoop`); and
`tlapm RegistryProofs.tla`, as for `SignalingProofs`, `HostServeProofs`, `HostMachineProofs`,
`FileTransferProofs`, `EstablishProofs`, `ClockProofs`, `PanelProofs`.

## The system

A machine that is to be controlled runs a *host* (`core/src/connection.rs`,
`Managed::serve`), which keeps one WebSocket to the *signaling server*. A *controller* asks
the server for a session with the host's id; the server sends `incoming_request`; the host
asks the person at the machine (attended mode) or goes on at once, answers
`connect_accept`, and both get `connect_ready`. The host then makes a WebRTC offer, the
answer and the ICE candidates travel through the server, and the two sides prove to each
other over the DTLS channel (PAKE) that they hold the same password: the owner's permanent
one or the one-time code on the host's display. From then on the server only keeps the
session in its table; picture, input, clipboard and files go over the peer connection.

### Inventory

| Component | State | Operations | What is hard | What makes it correct |
|---|---|---|---|---|
| Session registry, `server/src/signaling/registry.ts` | one slot per role (device, host or controller) that is online: its socket, the ids of its sessions, the groups it wakes; the session table | online, offline, requestConnect, acceptConnect, rejectConnect, relaySignal, closeSession, dispatchWake | a slot may be replaced by a new socket and inherits the sessions; one machine may be both sides; teardown by any of five ways | slots and table agree, the capacity of a host holds, an end is announced, nothing leaves the session, the audit is balanced |
| Signaling WebSocket, `server/src/ws/signaling.ts` | identity of each socket, whether it answered the last ping; handlers suspended in a database lookup | the message handler, the close event, the heartbeat | three handlers await the database, and anything may happen in between: another register, a close, a replacement | presence follows the sockets; the target's lists are enforced; a dead peer goes offline |
| Host serving thread, `Managed::serve` and below | the request in hand, the one left over, the one-time code, the WebSocket, the flags and answers of the panel | connect, read, ask, accept, reject, establish, watch the session, join the media thread | five loops that wait with different deadlines; flags looked at in some of them; late messages of earlier sessions | consent is for the right request, one capture at a time, no request is lost, stop works, codes burn |
| Host media loop, `managed_loop` | encoder, kept picture, bit rate, sending queue and its governor, transfers, blanking, input lock, clipboard | capture, encode, send, receive, transfers, cleanup | one encoder that eight places make or drop; a long loop with many exits | what is encoded fits the encoder, the machine is given back on every exit, the rate recovers, a text is not echoed |
| Native controller, `Controller::connect`, `controller_loop` | its session id, the peer, the queues to the UI | ask, answer, handshake, loop, close | connect, disconnect and drop wait for threads on the thread that serves the window | the window answers again; no session's thread is left behind |
| Handshake, `core/src/session.rs`, `crypto.rs` | phase of each side, keys, nonces | PAKE messages, confirmation bound to the DTLS fingerprints | a message out of turn; the faster side sends before the slower has confirmed | both confirm the same, or neither goes on |
| Frame chunking, `core/src/media.rs` | chunks of the frame being put together | split, push | chunks between other messages | frames arrive whole, once, in order |
| TURN client, `core/src/relay.rs`, `connect.rs` | allocation, lifetime, nonce, permissions | allocate, refresh, permission | answers are told apart by order; the nonce changes at any time | the allocation outlives the session |
| File transfer, `core/src/files.rs`, `desktop/src-tauri/src/lib.rs` | tables at both sides, open files, upload threads | upload with a window, download, resume, cancel | cancel against a late acknowledgement; a write that fails; a session that ends under a transfer | no holes, complete when it is reported so, every transfer ends |
| Windows service, `service/src/main.rs` | the worker, its handle and its session; the worker's session and its capture | install, start, supervise; register, accept, stream, clean up; follow the desktop | five calls that may fail between which anything dies; a desktop that changes without notice | one worker, in the console; nothing outlives a session; picture and input on the desktop with the input |
| Web controller, `ui/src/platform/web.ts`, the page in `ui/src/App.tsx` | for each attempt a promise, a timer, a socket, a peer connection; the page's session | connect, its callbacks, disconnect, watchdog | callbacks in any order, of earlier attempts too | an established session ends by its channel or by the page only; what ends is closed |
| Rate limiter, `server/src/lib/ratelimit.ts` | counters per key and window | check, sweep | window edges, a full map | at most twice the limit in any window's length |
| Accounts, devices, groups, `server/src/http`, `db`, `auth` | database rows | one or two queries per route | two requests at once; the second query fails | uniqueness, ownership |
| Desktop shell, `desktop/src-tauri/src/lib.rs` | the session, the host handle, the window | commands of the page, window and tray events | commands run on the main thread, and wait there | see the native controller; a host that is forgotten was told to stop |
| Identity, TURN credentials, UI, examples | see `PROJECT.json` | | | |

Interaction: the socket handlers *call* the registry, which *sends frames* to sockets and
calls back the audit hooks; the host thread and the server exchange *messages*; the panel
and the host thread *share* three flags (`stop`, `rotate`, `confirm_incoming`) and a channel
of answers (`decisions`); the host thread and the media thread share `done` and `stop`, and
are *joined* at the end of a session. The desktop shell *calls* the controller and *joins*
its thread; host and controller exchange sealed messages over the peer connection, through
the relay or not; the service *starts and kills* the worker, which is a host of its own.

`PROJECT.json` lists the hazards, each at its line, with the properties that cover it or why
none does yet.

## The modules

| Module | Models | By |
|---|---|---|
| `SessionBroker` | what the rendezvous promises | the life of a session: asked for, accepted, over; no sockets, no frames |
| `SecureChannel` | what the handshake and the frames promise | the verdicts of the two sides, and the frames each has sent and got; no keys, no messages |
| `FileCopy` | what transfers promise | two copies that grow by their next chunk, transfers that end once; no tables, no windows, no sessions |
| `SessionHost` | what a controlled machine promises its owner | one session after another: taken up, asked about, let in, ended; no network, no frames |
| `Registry` | `registry.ts` | one action per method; `out` is what the call sends, `hooks` what it calls |
| `Signaling` | `ws/signaling.ts`, EXTENDS `Registry` | one action per handler and per resumption after an `await`; the registry's methods are its actions |
| `HostServe` | `Managed::serve`, `register_host_ws`, `wait_decision`, `serve_session`, `establish_managed` | one action per stretch of code between two blocking calls |
| `MediaLoop` | `managed_loop` without its transfers | one action per phase of an iteration |
| `FileTransfer` | the transfers of `managed_loop`; `fs_*` and the receiving thread of the shell | one action per command, per message read, per turn of a pump or of an upload thread |
| `Establish` | `Handshake`, `drive_until_confirmed`, `Chunker`, `Reassembler`, of both sides | one action per turn of a side's loop |
| `Relay` | `TurnClient` and its use in `connection.rs` | one action per request, answer and tick of the clock |
| `Panel` | the shell's commands, window and tray; `Controller::connect`, `close`, `controller_loop` | one action per stretch of the main thread between two waits, and per turn of another thread |
| `Supervisor` | the system service | one action per call that may fail |
| `DesktopCapture`, `Worker` (EXTENDS it) | the worker's capturing thread; its serving of sessions | one action per turn of the thread; per stretch between two reads |
| `WebController` | `connect` of `web.ts`, the page's `doConnect`, `onClose` and watchdog | one action per callback |
| `RateLimit` | `RateLimiter` | `check` with and without a running window |
| `MCRegistry`, `MCSignaling`, `MCHostServe`, `MCFileTransfer`, `MCMediaLoop` | | instances, symmetry, views |
| `MCParts` | nine components that share no state | the first state chooses one, the others stay still |
| `RegistryProofs`, `SignalingProofs`, `HostServeProofs`, `HostMachineProofs` (`MediaLoop`, `Supervisor`, `Worker`), `FileTransferProofs`, `EstablishProofs`, `ClockProofs` (`Relay`, `RateLimit`), `PanelProofs` (`Panel`, `WebController`) | | theorems |

**Registry.** `slot` is the map `slots` (key: device and kind), `session` the map
`sessions`, `issued` the ids handed out (the code draws them at random; the model never
draws one twice). `GoOnline`, `GoOffline`, `RequestConnect`, `AcceptConnect`,
`RejectConnect`, `RelaySignal`, `CloseSession` and `DispatchWake` are the methods of the
class with all they do, teardown included; `Reidentify` is the offline-then-online of the
register handler. A call that returns early because of a guard is a stutter. Who may call
what is not restricted here: any role, online or not, may make any call.

**Signaling.** `sock`, `ident`, `alive` are the socket's readyState, `identity` and
`isAlive`; `calls` are the handlers that await a lookup, `hung` the peers that vanished
without closing. `ReceiveRegister`, `ReceiveConnect`, `ReceiveWake` run a handler up to its
`await`; `Registers`, `Connects`, `Wakes` and the failing variants run the rest in whatever
state they find. `Heartbeat` is the interval timer, `OnClose` the close event.

**HostServe.** `pc` says which loop or call the thread is in; `polling`, that the loop has
looked at its flags and deadline and is about to read. The flags may be set between the
look and the read. `inbox` is what the server has sent; a broken WebSocket loses it or not,
and a send on it fails or seems to succeed. `stage` is the server's and the controller's
view of a session, reduced from `Registry` to what the host can notice. `owed`, `admitted`
and `used` record requests to be answered, requests accepted (with the dialog that allowed
it) and codes that established sessions; no action of the program reads them. Passwords are
numbers: 0 for the permanent one, n for the nth code generated. When the WebSocket breaks, the
server may see it and end what was in progress, or the host registers again first, and its
new slot inherits the sessions as they are (`WsBreaks`); no frame is sent again, so a request
that had not been read is then heard of no more. `Connects` is the connection and the
registration in one step: the wait for the server's upgrade, which has no deadline in the
code, is not a state of the model, and `StopIsHeeded` says nothing of it.

**MediaLoop.** `capture`, `encoder`, `snapshot` (`last_bgra`), `params`, `rate`, `queue` are
the loop's locals; what was encoded for what is a record of monitor, scale and rate. The
loop's phases are independent of each other in an iteration, so an action is an iteration in
which one has something to do. `physical` and `blanked` are the machine's input and screen as
the person at it finds them. `pictured` and the controller's watchdog are the other side of the
keep-alive. `backlog` is what the governor found in the queue at its last look. `BlockInput`
fails when the input is blocked already, and `input_locked` is then false although it still
is: `lockLost` remembers that, and no action of the program reads it.

**FileTransfer.** `down` and `acked` are the tables `Transfers` of the shell, `uploads` and
`downloads` those of the loop, `thread` the upload threads, `toHost` and `toCtl` what is on
its way. Files are sequences of chunk numbers. Sessions end and begin again while transfers
run; the host's tables and the wires go with a session, the shell's tables do not. Any write
may fail at either side. The code skips the chunk; `skipped` and `spoilt` remember the
transfers it did that to, and no action of the program reads them. `spoilt` has also the
downloads that begin behind the end of their source.

**Establish.** A side is `driving` until it is confirmed, then in its `session`; `line` is
what is on its way to it, `inbox` what it has taken off the connection and not looked at,
`deferred` what it keeps. Keys and tags are what they were made from, so that they are equal
exactly when passwords and fingerprints are.

**Relay.** `left` is what the server still gives the allocation, `elapsed` the clock of
`refreshed_at`. A refresh carries the nonce the client knows; a stale one is answered with
the new one and, as in `recv_one`, repeated at once. A permission ends after 300 s, before the
allocation; the code never renews it, and no property depends on it (see
[findings](#findings)).

**Panel.** `main` is where the main thread is: in `connect` it waits for the server, the
peer and the key, in `disconnect` for the session's thread. `callLoop` and `sink` are a
session's threads, `hostThread` the host's. The commands come one at a time: they are
synchronous functions, which Tauri runs on the main thread.

**Supervisor.** `service` is the call that comes next; `held` the handles and blocks that
starting a worker holds; `refusing` makes any of the calls fail. **Worker** is the worker's
one thread from its registration to a session's cleanup; **DesktopCapture** the thread that
it starts for the picture. `desk` and `dup` are the desktop a thread is bound to and the one
its duplication is of. `keysForgotten` is the worker's `lockLost`.

**WebController.** An attempt's `socket` goes through the states of a WebSocket (a socket
closed while it connects gives an error first), `peerConn` through those of the offer;
`promise` is `ready`. `fail` is `Fail`, with the page's `onClose` in it. `endedBy` is what ended
the attempt first; no action of the program reads it.

**RateLimit.** A window is the ticks that are left of it; `ages` remembers how long ago each
key's last `2 * Limit + 1` attempts were admitted, and no action of the program reads it.

## What the runs show

| Run | Shows | Distinct states |
|---|---|---|
| `registry` | the slots and the session table agree (`HeldAreLive`, `HostHoldsSession`), the capacity holds (`InboundBounded`), start and end of the audit match (`AuditBalanced`), frames stay inside their session (`TrafficStaysInside`), an end is announced to whoever did not cause it (`EndIsAnnounced`); the registry implements `SessionBroker` (`ImplementsBroker`) | 19 thousand |
| `signaling_safety` | with two lookups in progress at once: a slot's socket is the one that says so (`SlotMatchesSocket`), an open registered socket is not robbed of its role by a late close (`OpenSocketHoldsItsRole`), blocked controllers get no session (`BlockedNeverPaired`) | 1.7 million |
| `host_serve` | consent (`ConsentGiven`), one capture (`OneCapture`), no request lost (`NoRequestForgotten`), the displayed code is the one in use (`CodeOnDisplay`); the thread implements `SessionHost` (`ImplementsHost`): it turns to one request at a time, and to nobody without asking while it is attended | 1.4 million |
| `host_live` | every request that reaches the host is answered, unless its WebSocket goes first (`RequestIsAnswered`), stopping works (`StopIsHeeded`) | 511 thousand |
| `file_transfer` | whatever fails, an upload has no holes, and a download none unless a write of the controller's own failed (`FilesIntact`); with the same exception success is told only of complete files (`DoneMeansComplete`); the sender stays within its window (`InFlightBounded`), every transfer ends (`TransferEnds`); transfers implement `FileCopy` (`ImplementsCopy`): a cancelled download is not written on, a transfer has one end | 605 thousand |
| `parts`, media loop | the encoder fits what it encodes (`EncoderFits`), the machine is given back but for a lock asked for twice (`LocalRestored`), the controller's text is not sent back (`NoEcho`), after congestion the rate comes back, also while pictures go on being queued (`RateRecovers`) | 124 thousand in all |
| `parts`, service | one worker, no leaked handle (`NothingLeftBehind`), the console gets its worker (`ConsoleIsServed`) | |
| `parts`, worker | a waiting worker has given everything back but for a lock asked for twice (`NothingOutlives`), the capture ends up on the desktop with the input and on the monitor asked for (`PictureFollows`) | |
| `parts`, handshake | confirmation means agreement (`ConfirmedAgree`), frames arrive whole, once, in order (`FramesArrive`); the two implement `SecureChannel` (`ImplementsChannel`) | |
| `parts`, relay | the allocation outlives the session (`AllocationLives`) | |
| `parts`, application | the main thread comes back from each wait but those that only the server or the host ends (`PanelAnswers`) | |
| `parts`, browser | neither its signaling nor its timeout ends an established session (`EndsByChannelOnly`), what ended is closed (`NothingLeftOpen`) | |
| `parts`, limiter | at most twice the limit in any window's length (`AtMostTwice`) | |
| `parts`, endpoint | a peer that vanished goes offline (`DeadSocketIsCutOff`) | |
| `signaling_ghost`, `signaling_orphan`, `host_code_burn`, `host_mixed`, `keep_alive`, `file_lost` | six statements of the code's comments and of its plan that it does not keep, see [findings](#findings) | counterexamples |

The components of `parts` share no state, so exploring each alone loses nothing; their
invariants and liveness properties are checked of all of them, and hold trivially of those that stay
still. The media loop is explored twice, its pictures without the machine and the machine
without an encoder, and so is the worker, its capture and its controls: the halves share the
thread's phases only. The endpoint is `Signaling` with one machine that is host and controller
at once, over two sockets; its safety has `signaling_safety`.

The step that closes a socket clears its presence (`CloseClearsPresence`, which is proved),
but a lookup that ends later may bring it back, which is a finding (`OnlineIsReachable`).
`DeadSocketIsCutOff` therefore speaks of sockets without a lookup in progress.

`PROJECT.json` has for every property of a passing run a variant of the code, defined in the
model next to the definition it replaces ("Faulty variant"), under which the property fails.

Deadlock is not checked where the system may rest: the registry when all session ids are
used and nothing is online, the host once it is stopped, a transfer when it is over, an
application that was quit, a page whose attempts are used up.

## Bounds

* `Device`: two machines, each host and controller. One session needs two roles; a machine
  with both roles, controlling itself or controlled while it controls, is the case where
  roles can be confused, and is included. A third machine adds a second helper of the same
  kind only.
* `Conn`: three sockets for the registry, so that a slot can be replaced while the other
  side is online; two for the endpoint, whose sockets may change roles.
* `SessionId`: two for the registry with room for one per host (`MaxInbound` = 1): enough
  for a host that is full, one that has become free, and one that inherits. One for the
  endpoint, whose question is who owns which slot, not how sessions interact. Ids are never
  drawn again, so a run ends with its sessions; the proofs have no such bound.
* `MaxCalls`: lookups in progress at any one time, two for safety, one for the rest.
* `SessionId` of the host: two, the request in hand and the one that disturbs it.
  `MaxCode` stops the requests for a new code after the first, not the replacement of codes
  after a session. In `host_serve` at most two frames wait to be read, and one once it is
  being stopped (`ShortInbox`): a request behind a signal or a close, or one of each session.
  `host_live` has no such bound.
* `FileTransfer`: two transfers over two sessions, a file of three chunks with a window of
  one and acknowledgements at even offsets: a chunk beyond the window, an acknowledgement
  before the end, and a tail after the last one. A write may fail
  at either side (`MayFail`): the failures that the code skips in silence; the others end a
  transfer at once. `MCFileTransferLost.cfg` has two chunks and one session.
* `MediaLoop`: two monitors, ceilings below and above the least rate, a queue of two with
  one as the mark of congestion, one copied text; `MCKeepAlive.cfg` has one monitor, and no
  text. `Supervisor`: two sessions, two processes. `Worker`: two desktops, two outputs,
  room for one frame, one attempt to find contents.
* `Establish`: two passwords, frames of two chunks and of one, and three messages taken off
  the connection at a time. `Relay`: a lifetime of six ticks, with the refresh after half of
  it, and four nonces. `Panel`: two sessions, one host thread.
* `WebController`: two attempts, the one on the page and an earlier one. `RateLimit`: three
  keys in a map for one, a limit of two, windows of two ticks; the count stops at the first
  number beyond the limit, from which on nothing tells the numbers apart, and an attempt's
  age at a window's length, as what is older does not count.
* `out` is written by each call and read by none, so the runs leave it out of the view;
  the action properties see it in each step.

## Fairness

The endpoint assumes what Node's event loop and `ws` give: the interval timer fires
(`WF(Heartbeat)`), a socket that is being closed emits `close` (`ws` waits 30 s for the
peer), and a lookup ends, with a result or an error. Peers owe nothing.

The host thread runs (`WF(HostStep)`), and the media thread finishes its cleanup
(`WF(CleanedUp)`). Deadlines are nondeterministic: a wait may end at any look. That it ends
is strong fairness (`SF(TimesOut)`), since the wait is enabled only between two reads: once the
deadline is over, each look notices. No fairness makes sessions end, a person answer, or a
controller go on.

`FtFair`: the loops of both sides turn (`WF` of reading a message, pumping, or a turn of an
upload thread). `MlFair`: the loop goes round, so its timers run (the governor's looks, the
flush of the queue) and its cleanup ends; frames and messages owe nothing. `SvFair`: the
service's thread runs; the calls may fail for ever, and `ConsoleIsServed` speaks of a
console and a system that have come to rest. `WkFair`: the capturing thread runs; its
polling, which a change of desktop interrupts, is strongly fair, since the loop polls again
and again; the worker cleans up. `PnFair`: the wait for the confirmation has a deadline, the
loop of a session that was told to stop ends, and joins end with it. The waits for the
server and for the other machine owe nothing: the read timeout starts again with every ping,
and the connect has none; `PanelAnswers` has as its hypothesis that they are over now and
again. `EndpointFair` is the endpoint's own, in its part. The server of the relay, the page
and the persons owe nothing anywhere.

## What is proved

TLAPS checks the following for any sets of devices, sockets, sessions and groups, any
number of transfers, any frames and any limit. The constants are assumed to be what they
are for: `MaxInbound` is a natural number
(`MaxInboundAssumption`), `HasPermanent` a Boolean (`HostAssumption`), rates, sizes and
queues are natural numbers with the least rate below the others (`MediaAssumption`,
`CaptureAssumption`, `TransferAssumption`), a frame has at least one chunk
(`EstablishAssumption`), limit and window are not zero (`RateAssumption`), the names used
for nothing are none of the values (`SupervisorAssumption`, `PanelAssumption`,
`WebAssumption`), and the set-up of a session leaves time for a refresh before the lifetime
is over (`RelayAssumption`).

* **Registry.** `TypeCorrect`. `IndexInv` strengthens `HeldAreLive`, `HostHoldsSession` and
  `InboundBounded` into one inductive invariant: each needs the others, as the capacity
  check counts the ids of a slot (`HostHoldsSession` makes that an upper bound of the
  sessions there are), and teardown removes ids from the slots of both sides
  (`HeldAreLive`). From it `HeldSessionsAreLive`, `HostCountsEverySession`,
  `CapacityRespected`. With it every step maps to a step of the broker or to a stutter:
  `RegistryImplementsBroker`. The audit needs an invariant of its own, about the ids not yet
  issued (`AuditIsBalanced`); that teardown tells every side, in whatever order it goes
  through a slot, is `EndsAreAnnounced`; what a call sends follows from the sessions' sides
  (`NothingLeavesTheSession`, `WakesOnce`).
* **Signaling.** `SignalingImplementsRegistry`: whatever lookups are in progress, every step
  of the endpoint is a call of the registry or leaves it alone. So the theorems above hold
  of the server: `ServerKeepsRegistry` states the invariants and action properties of the
  registry for it, `ServerImplementsBroker` the refinement, through the two levels.
  `SlotsMatchSockets`, `OpenSocketsHoldTheirRoles`, `ClosingClears`,
  `BlockedAreNeverPaired`: the last needs that a session's sides never change (`SidesKept`)
  and that the check and the request are made in one stretch, after the await.
* **Host.** `HostInv` is inductive: with the types and the four properties it has `Phases`
  (what the thread holds at each place of the code; a request is kept only past the end of
  a session) and `Dialog` (the dialog shown is the last one and about the request in hand;
  what the panel delivers was said). `NobodyEntersUnasked`, `CaptureIsExclusive`,
  `RequestsAreKept`, `DisplayIsCurrent`, `HostTypeCorrect`. `HostServesOneByOne`
  (`ImplementsHost`): the thread implements `SessionHost`. Most of its steps are not seen
  there (`Stays`) or give a request up (`Quits`), so that the proof is about the few that let
  somebody get ahead. It takes one more invariant, `Introduced`: whatever the thread works on
  goes back to a session that a controller asked for, and the secret a handshake is checked
  against is the one that session's request was for. What `SessionHost` leaves open is what
  the code leaves open: which session gets in (`ServesWhatItAccepted` is refuted) and whether
  the code is replaced after it (`OneTimeBurns`).
* **Media loop.** `MlInv` adds to the properties what the loop remembers of the machine: the
  kept picture is of the monitor captured (`SnapshotFits`), the input is blocked only if
  `input_locked` says so or a repeated lock made it forget (`LockKnown`), a text set here
  has been seen (`OwnChangeSeen`). From it `EncoderAlwaysFits`, `LocalIsRestored`,
  `NeverEchoes`, `MediaTypeCorrect`.
* **Service.** `SvInv`: which handles are held before each call (`HeldBetweenCalls`), and
  that a start begins with no worker alive; from it `NothingStaysBehind`. `WkInv`: what the
  worker holds at each stage; from it `NothingOutlivesSession`, with the same exception
  for the lock, and `DesktopIsKept` (the capturing thread has the handle of the desktop it is
  bound to, and no other).
* **Handshake.** `ConfirmationAgrees` rests on the unread messages: those of the handshake
  come in their turn, and sealed ones only after them (`InTurn`), whatever the two loops have
  taken off the connection. So a handshake fails only when the tags differ.
* **Frames.** `EveryFrameArrives` (`FramesArrive`): put what a side keeps aside before what
  it has not read. Then the sealed messages lead, chunk after chunk, from the one the
  Reassembler waits for (`At`) to the first one of the frame the other side sends next
  (`NextOf`). Deferring a message, taking it off the connection and beginning the session
  leave that queue as it is, so that nothing is lost between the two confirmations; reading
  takes its first message and sending adds a frame's chunks. The positions are a function
  from the queue (`Brings`), so no induction over it is needed: concatenation joins two
  such functions, and the head takes one value off.
* **Handshake and frames together.** `SessionIsSecureChannel` (`ImplementsChannel`): the two
  loops, whatever they have read and put aside, implement `SecureChannel`, in which a side
  judges the handshake once, by passwords and fingerprints alone, enters, sends frames, and
  gets the other's in order. A side's verdict is the phase its handshake ends in
  (`Verdict`). It never changes, since what is still unread comes in its turn, and it is the
  same at both sides, since the two tags are equal exactly when passwords and fingerprints
  are (`TagsAgree`). The frames got are
  those of `EveryFrameArrives`; that none is got before it was sent (`BringsForward`) goes by
  induction over the queue, in the form of sets, which the prover takes (`UpTo`).
* **Transfers.** `TransferTypeCorrect`, and the following, each from the invariants before:
  * `UploadsStayInWindow` (`InFlightBounded`), from `Flight`: a transfer's request is the
    first thing of it on its way, its chunks are in order, and none of them is more than
    `Window` + 1 before what its thread has sent, since no acknowledgement, in the table or
    on its way, is beyond a chunk that the host has not taken (`AcksBehind`,
    `ProgressBehind`). The table entry alone would not do: a late acknowledgement puts back
    what a cancel removed.
  * `UploadsStayIntact`: what the host has written is always a beginning of the file,
    whatever writes fail at either side. No upload's count of written chunks is beyond the
    file (`UploadsBehind`), and only the chunk at that count is written.
  * `TransfersStayIntact` (`FilesIntact`) and `SuccessMeansComplete` (`DoneMeansComplete`)
    need also `Downloads`: the chunks on their way follow one another from where the
    controller writes to what the host reads next (`Carries`), and the end of a download is
    announced once and is the last thing on its way. No failure is excluded, and a source may
    be shorter or longer when it is read than when it was measured. What a write that failed
    at the controller does to a download is in the formulas: it is `spoilt`, and of the others
    the file is as it should be.
  * `TransfersAreCopies` (`ImplementsCopy`): transfers implement `FileCopy`, which has the
    spoilt downloads as a case of its own, without hypotheses. The tables, windows, threads
    and sessions are what `FileCopy` does not have; a chunk written where the file ends is
    one step of it, one that is there already (a transfer that runs beside another) none.
    What it needs beyond the invariants above is `ToldOnce`: once the end of a transfer has
    been said, no table and no request on its way can cause another (`MayEnd`), through
    cancelling and sessions that end.
* **Relay.** `AllocationAlwaysLives`: what is left of the allocation and what has passed
  since the last refresh are together never less than the lifetime without the set-up
  (`Budget`), as long as no datagram is lost.
* **Limiter.** `AdmittedAtMostTwice` (`AtMostTwice`): the attempts of the running window are
  the `count` latest ones and no older than the window, and the limit's worth before them
  are older than it has been running. A sweep removes only windows that are over, so it
  changes nothing that the invariant is about.
* **Application.** `NothingStrays`: between its first request and its storing a session is
  the one `connect` is about, and has no thread; so neither a failed attempt nor a replaced
  session leaves a thread that was not told to stop.
* **Browser.** `WcInv`: an attempt's promise, phase, timer and socket go together
  (`Together`). From it `EndsWholly` (`NothingLeftOpen`), `SignalingEndsNoSession`
  (`EndsByChannelOnly`), `PageShowsTheConnected`: what the page shows was connected and no
  event has ended it. Its channel may be closed all the same, which reports nothing.

Only model-checked: liveness (`DeadSocketIsCutOff`, `RequestIsAnswered`, `StopIsHeeded`,
`TransferEnds`, `RateRecovers`, `ConsoleIsServed`, `PictureFollows`, `PanelAnswers`), since
neither fairness nor ENABLED is within the prover's reach. Every safety invariant that a run
checks is proved, and so is every refinement. The type invariants of the components in
`parts`, of `HostServe` and of `FileTransfer` are proved and are in no run. What a recursive
definition computes cannot be proved here; no model depends on one.

## Findings

1. `signaling_ghost`: a socket that closes while its register lookup is awaited is
   registered after its close event. Its role is online for ever, until the same role
   registers again.
2. `signaling_orphan`: a controller whose socket closes while the target's lists are
   awaited still gets its session; nobody of its side can end it, and it takes one of the
   host's places. If the host tries to close it, the server refuses, as the peer has no
   slot; only rejecting or going offline ends it.
3. `host_code_burn`: the one-time code is said to burn after a session established by it.
   If the WebSocket breaks during that session, `serve` reconnects with the same code.
4. `host_mixed`: after a wait for `connect_ready` that was given up, a late one is taken for
   that of the next request: the offer goes to the earlier session with the later secret.
5. `keep_alive`: a change of quality drops the picture kept for a static screen. The capture
   gives no other while nothing changes, so the keep-alive is silent, and the
   controller's watchdog ends the session.
6. `file_lost`: the receiving thread of the shell (`desktop/src-tauri/src/lib.rs`, 142) skips
   a chunk of a download that it cannot write, the next one lands where it belongs, and the
   host's `fsDone` with ok is passed on to the panel. The plan of the repository
   (`TASKS.md`, 204) has transfers as reliable in both directions.

Seen while modelling, without a run of its own:

* *A lock that stays.* `BlockInput` fails when the input is blocked already. So a second
  `InputLock{enabled: true}` sets `input_locked` to false (`connection.rs`, 1546; the worker's
  `main.rs`, 1155) and the cleanup (1568; 1241) does not unblock: the lock outlives the
  session, against the comments there (1563; 1237) and `TASKS.md`, 245. The page of the
  repository never asks twice in a session; the protocol does not forbid it.
  `LocalRestored` and `NothingOutlives` say that this is the only way, and that a lock which is
  lifted again is known again.
* *A wait without end.* `SignalClient::recv` (`signal.rs`, 287) goes on after a ping, so the
  read timeout of 35 s (`connection.rs`, 442) starts again with each, and the server pings every
  30 s; over TLS the timeout is not set at all (`signal.rs`, 273); `SignalClient::connect`
  (267) has none. A host that stays silent after `connect_accept` keeps `connect`, and with it
  the window, waiting.
* *A late timer.* `fail` in `web.ts` (161) leaves the timer of a failed attempt set. When it
  fires, or when the socket of such an attempt gives a late error, the attempt is settled, so
  `fail` takes it for a session that was alive and calls `onClose`, which takes whatever
  session the page shows off it, without closing it (`Fail` and `TellsPage` in
  `WebController`), while `ui/src/platform/index.ts` (48) says of `onClose` that the session
  has ended after it was established. `NothingLeftOpen` and `EndsByChannelOnly` are about an
  attempt's own end and its own events.
* *A silent close.* `channel.onclose` (311) reports nothing once the session is established,
  although the comment at 301 relies on it.
* *A permission that ends.* The relay's permission is asked for when the peer's address
  comes (`connection.rs`, 291) and never renewed; a TURN server keeps it for 300 s.

## What is not modelled

* The database: lookups find, do not find, or fail. Writes that nobody awaits (audit, WoL
  address) are left out.
* Formats, ids, texts, logging, `presence` and `lastSeen`.
* The composition of the rate limiter with `connect_request`: a refused attempt has no
  effect on the registry.
* In `HostServe`: whether the server's queue reorders (TCP does not), panics of the media
  thread, a second host thread after `stop_host` and `start_host`.
* WebRTC itself (str0m, the browser): ICE and DTLS connect, fail, or break.
* `connect.rs`, a policy that the product does not call; the classification of datagrams in
  `relay.rs`.
* Pixels, the mapping of coordinates and keys, the encoder's output; the magic packet;
  listing directories.
* `autostart.rs`, `portable.rs` and `set_lock_on_end`: a registry key, a directory, a flag
  read once. The service's log and the rights of its directory.
* `wake` of `web.ts`: one promise, settled by a message, an error or a timer.
* Accounts, devices and groups: each route is one or two queries, and what they promise
  under concurrency is the database's.
* Screens and forms, the examples, scripts and the deployment.

## Plan

Done: the rendezvous (`SessionBroker`, `Registry`, `Signaling`), the host's thread
(`HostServe`), its media loop and transfers, the handshake and the frames after it, the
relay, the application, the service with its worker, the browser's controller, the rate
limiter; with proofs of every safety invariant of each, and of the refinements of
`SessionBroker`, `SessionHost`, `SecureChannel` and `FileCopy`.

Left, in this order:

1. `Panel` composed with a host and `Signaling`: no session outlives the interest of both
   sides. The pieces meet in messages only, but the product of their states is beyond TLC;
   `SessionHost`, given the messages, is where a reduced host would start.
2. Two host threads over one identity (`stop_host` and `start_host` in quick succession).
3. The accounts' routes over a small database with unique indices: concurrent sign-ups, a
   patch that fails half way.
