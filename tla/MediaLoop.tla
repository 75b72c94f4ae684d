------------------------------ MODULE MediaLoop -----------------------------
(***************************************************************************)
(* The media thread of a controlled machine (connection.rs, managed_loop): *)
(* it encodes what the screen capture delivers, keeps a static screen      *)
(* alive, adapts the bit rate to the sending queue, follows what the       *)
(* controller asks for, and puts the machine back when the session ends.   *)
(* File transfers, which it also serves, are FileTransfer's.               *)
(*                                                                         *)
(* Every phase of the loop has its own condition (a timer, a frame that    *)
(* waits, a message), so an action is an iteration in which the other      *)
(* phases have nothing to do.  Timers are not modelled: a phase that waits *)
(* for one may run or not.                                                 *)
(***************************************************************************)
EXTENDS Naturals

CONSTANTS
  Monitor,    \* the monitors of the machine
  MinRate,    \* 256_000, the least bit rate
  DefaultRate,  \* 4_000_000, the ceiling until the controller sets another
  Ceilings,   \* the ceilings a controller asks for, after clamping
  Scales,     \* the scales it asks for, after clamping; 1 at first
  Congested,  \* 96: a longer queue is a congested channel
  MaxQueue,   \* bound of the model: the longest queue
  MaxCopies   \* bound of the model: the changes of the clipboard

ASSUME MediaAssumption ==
  /\ MinRate \in Nat /\ MinRate >= 4 /\ DefaultRate \in Nat /\ DefaultRate >= MinRate
  /\ \A c \in Ceilings : c \in Nat /\ c >= MinRate
  /\ Scales \subseteq Nat
  /\ Congested \in Nat /\ MaxQueue \in Nat /\ MaxCopies \in Nat

VARIABLES
  loop,       \* the thread: "starting", "running", "leaving" (the loop is left), "over"
  capture,    \* the monitor being captured; None when no capture runs
  waiting,    \* frames in the capture's channel, which holds two
  encoder,    \* NoEncoder, or what the encoder was made for: a monitor, a scale, a rate
  snapshot,   \* last_bgra: the monitor of the picture kept for a static screen
  params,     \* QualityParams, the frame rate left out: scale, and the ceiling of the rate
  rate,       \* actual_bitrate
  queue,      \* the length of the sending queue
  backlog,    \* what the governor found in the queue when it looked last
  pictured,   \* a picture was queued since the controller's watchdog last looked
  clipboard,  \* the system's: its sequence number and whose text it holds
  clipSeen,   \* clip_seq
  clipSync,   \* clip_sync
  clipSent,   \* whose text was sent last
  blanked,    \* the blanker, and with it the overlay on the screen
  locked,     \* input_locked
  physical,   \* the machine's own keyboard and mouse: TRUE while blocked
  lockLost,   \* history: a lock was asked for that was on already, and none lifted since
  done        \* what the serving thread looks at

machine == <<blanked, locked, physical, lockLost>>
clip    == <<clipboard, clipSeen, clipSync, clipSent>>
picture == <<capture, waiting, encoder, snapshot, params, rate>>
mlVars  == <<loop, picture, queue, backlog, pictured, clip, machine, done>>

-----------------------------------------------------------------------------
None == "none"

Encoder   == [monitor : Monitor, scale : {1} \cup Scales, rate : Nat]
NoEncoder == [monitor |-> None, scale |-> 0, rate |-> 0]

\* H264Encoder::new_scaled for frames of monitor m.
NewEncoder(m) == [monitor |-> m, scale |-> params.scale, rate |-> rate]

Running == loop = "running"

\* A message is queued.
Queues == queue < MaxQueue /\ queue' = queue + 1 /\ UNCHANGED backlog

\* H264Encoder::encode_bgra: a picture is queued, or the encoder gives nothing.
GivesPicture == Queues /\ pictured' = TRUE

\* start_with: the capture of monitor m runs in the background, its first frame waits.
CapturesFrom(m) == capture' = m /\ waiting' = 1

\* get_text: the text is read and sent.
SendsText == Queues /\ clipSent' = clipboard.owner

\* Blanker::show waits until the overlay is there, hide until it is gone.
Covers(enabled) == blanked' = enabled

\* block_physical: BlockInput fails for a process that is not allowed to block, and where the
\* input is blocked already: then it stays blocked.
BlocksInput(enabled) == physical' \in IF enabled THEN {physical, TRUE} ELSE {FALSE}

-----------------------------------------------------------------------------
(***************************************************************************)
(* Capturing starts with the primary monitor, or fails: then the thread    *)
(* ends at once, and says that it is done.                                 *)
(***************************************************************************)
Starts ==
  /\ loop = "starting"
  /\ \/ /\ loop' = "running" /\ \E m \in Monitor : CapturesFrom(m)
        /\ Queues /\ UNCHANGED done
     \/ /\ loop' = "over" /\ done' = TRUE
        /\ UNCHANGED <<capture, waiting, queue, backlog>>
  /\ UNCHANGED <<encoder, snapshot, params, rate, pictured, clip, machine>>

\* The screen changes; a frame that finds the channel full is dropped.
ScreenChanges ==
  /\ capture # None /\ waiting < 2 /\ waiting' = waiting + 1
  /\ UNCHANGED <<loop, capture, encoder, snapshot, params, rate, queue, backlog, pictured, clip,
                 machine, done>>

\* A frame comes too early after the last one and is dropped.
DropsFrame ==
  /\ Running /\ waiting > 0 /\ waiting' = waiting - 1
  /\ UNCHANGED <<loop, capture, encoder, snapshot, params, rate, queue, backlog, pictured, clip,
                 machine, done>>

\* A frame is encoded, by a new encoder if there is none.  The encoder may give nothing, and
\* the picture is kept if none was in the last second.
EncodesFrame ==
  /\ Running /\ waiting > 0 /\ waiting' = waiting - 1
  /\ encoder' = IF encoder = NoEncoder THEN NewEncoder(capture) ELSE encoder
  /\ GivesPicture \/ UNCHANGED <<queue, backlog, pictured>>
  /\ snapshot' \in {snapshot, capture}
  /\ UNCHANGED <<loop, capture, params, rate, clip, machine, done>>

\* An encoder cannot be made: the loop is left.
EncoderFails ==
  /\ Running /\ waiting > 0 /\ waiting' = waiting - 1
  /\ encoder = NoEncoder
  /\ loop' = "leaving"
  /\ UNCHANGED <<capture, encoder, snapshot, params, rate, queue, backlog, pictured, clip, machine,
                 done>>

\* Two seconds without a picture: the kept one is encoded by a new encoder, which becomes
\* the encoder even if it gives nothing.
KeepsAlive ==
  /\ Running /\ snapshot # None
  /\ encoder' = NewEncoder(snapshot)
  /\ GivesPicture
  /\ UNCHANGED <<loop, capture, waiting, snapshot, params, rate, clip, machine, done>>

KeepsAliveInVain ==
  /\ Running /\ snapshot # None
  /\ encoder' = NewEncoder(snapshot)
  /\ UNCHANGED <<queue, backlog, pictured>>
  /\ UNCHANGED <<loop, capture, waiting, snapshot, params, rate, clip, machine, done>>

-----------------------------------------------------------------------------
(***************************************************************************)
(* The governor, every three seconds, and the channel.                     *)
(***************************************************************************)
\* Faulty variant: steps so small that the division loses them.
RisesTimidly(r) == IF (r * 9) \div 8 < params.ceiling THEN (r * 9) \div 8 ELSE params.ceiling

Raised(r) == IF (r * 5) \div 4 < params.ceiling THEN (r * 5) \div 4 ELSE params.ceiling

Lowered(r) == IF (r * 7) \div 10 > MinRate THEN (r * 7) \div 10 ELSE MinRate

\* Faulty variant: the running encoder keeps its rate.
KeepsEncoder == UNCHANGED encoder

\* The next frame gets a new encoder.
ResetsEncoder == encoder' = NoEncoder

\* The governor looks before the iteration's pictures are flushed: it may find the last one.
Governs ==
  /\ Running /\ backlog' = queue
  /\ \/ queue > Congested /\ rate > MinRate /\ rate' = Lowered(rate) /\ ResetsEncoder
     \/ queue = 0 /\ rate < params.ceiling /\ rate' = Raised(rate) /\ ResetsEncoder
     \/ /\ ~(queue > Congested /\ rate > MinRate) /\ ~(queue = 0 /\ rate < params.ceiling)
        /\ UNCHANGED <<rate, encoder>>
  /\ UNCHANGED <<loop, capture, waiting, snapshot, params, queue, pictured, clip, machine, done>>

\* The channel takes a message; what it refuses stays at the head of the queue.
Flushes ==
  /\ Running /\ queue > 0 /\ queue' = queue - 1
  /\ UNCHANGED <<loop, picture, backlog, pictured, clip, machine, done>>

-----------------------------------------------------------------------------
(***************************************************************************)
(* What the controller asks for.                                           *)
(***************************************************************************)
Quality(p) ==
  /\ Running /\ p # params
  /\ params' = p /\ rate' = p.ceiling
  /\ encoder' = NoEncoder /\ snapshot' = None
  /\ UNCHANGED <<loop, capture, waiting, queue, backlog, pictured, clip, machine, done>>

\* Faulty variant: the picture of the monitor that was left is kept.
SwitchKeepsSnapshot(m) == CapturesFrom(m) /\ encoder' = NoEncoder /\ UNCHANGED snapshot

Switches(m) == CapturesFrom(m) /\ encoder' = NoEncoder /\ snapshot' = None

\* Another monitor: the new capture is started, its first frame waits, the old one is
\* stopped.  If it cannot be started nothing changes.
SelectMonitor(m) ==
  /\ Running /\ m # capture
  /\ Switches(m) /\ Queues
  /\ UNCHANGED <<loop, params, rate, pictured, clip, machine, done>>

Blank(enabled) ==
  /\ Running
  /\ Covers(enabled)
  /\ UNCHANGED <<loop, picture, queue, backlog, pictured, clip, locked, physical, lockLost, done>>

\* The flag says whether this call has blocked the input: a lock that is asked for again while
\* it is on clears it.
InputLock(enabled) ==
  /\ Running
  /\ BlocksInput(enabled) /\ locked' = (physical' /\ ~physical)
  /\ lockLost' = (enabled /\ physical)
  /\ UNCHANGED <<loop, picture, queue, backlog, pictured, clip, blanked, done>>

-----------------------------------------------------------------------------
(***************************************************************************)
(* The clipboard.                                                          *)
(***************************************************************************)
Copied(owner) == clipboard' = [seq |-> clipboard.seq + 1, owner |-> owner]

\* Somebody at the machine copies a text.
LocalCopy ==
  /\ clipboard.seq < MaxCopies
  /\ Copied(IF clipSync THEN "local" ELSE "private")
  /\ UNCHANGED <<loop, picture, queue, backlog, pictured, clipSeen, clipSync, clipSent, machine,
                 done>>

\* Every two seconds: a change is sent, unless the text cannot be read, is empty or too long.
PollsClipboard ==
  /\ Running /\ clipSync /\ clipboard.seq # clipSeen
  /\ clipSeen' = clipboard.seq
  /\ SendsText \/ UNCHANGED <<queue, backlog, clipSent>>
  /\ UNCHANGED <<loop, picture, pictured, clipboard, clipSync, machine, done>>

\* Faulty variant: the change made here is taken for one of the machine.
SeesOwnChange == UNCHANGED clipSeen

\* clip_seq is read again after the text was set.
SkipsOwnChange == clipSeen' = clipboard'.seq

\* The controller's text is set, or the clipboard is held by somebody and it is not.
ClipboardText ==
  /\ Running /\ clipSync /\ clipboard.seq < MaxCopies
  /\ Copied("controller") \/ UNCHANGED clipboard
  /\ SkipsOwnChange
  /\ UNCHANGED <<loop, picture, queue, backlog, pictured, clipSync, clipSent, machine, done>>

ClipboardSync(enabled) ==
  /\ Running /\ clipSync' = enabled
  /\ UNCHANGED <<loop, picture, queue, backlog, pictured, clipboard, clipSeen, clipSent, machine,
                 done>>

-----------------------------------------------------------------------------
\* stop, the channel or the connection is gone, or the controller said BYE.
Leaves ==
  /\ Running /\ loop' = "leaving"
  /\ UNCHANGED <<picture, queue, backlog, pictured, clip, machine, done>>

\* Faulty variant: an overlay that is on the screen is left to the end of the process.
RestoresInputOnly ==
  physical' = (physical /\ ~locked) /\ locked' = FALSE /\ UNCHANGED <<blanked, lockLost>>

Restores ==
  /\ Covers(FALSE)
  /\ physical' = (physical /\ ~locked) /\ locked' = FALSE /\ UNCHANGED lockLost

\* The machine is put back, and only then is the session said to be done.
FinishesSession ==
  /\ loop = "leaving" /\ ~done
  /\ Restores
  /\ done' = TRUE
  /\ UNCHANGED <<loop, picture, queue, backlog, pictured, clip>>

\* BYE, disconnect, and the capture is stopped.
StopsCapture ==
  /\ loop = "leaving" /\ done
  /\ loop' = "over" /\ capture' = None /\ waiting' = 0 /\ encoder' = NoEncoder
  /\ UNCHANGED <<snapshot, params, rate, queue, backlog, pictured, clip, machine, done>>

\* The controller's watchdog looks for a picture.
WatchdogLooks ==
  /\ pictured /\ pictured' = FALSE
  /\ UNCHANGED <<loop, picture, queue, backlog, clip, machine, done>>

-----------------------------------------------------------------------------
MlInit ==
  /\ loop = "starting" /\ capture = None /\ waiting = 0 /\ encoder = NoEncoder /\ snapshot = None
  /\ params = [scale |-> 1, ceiling |-> DefaultRate] /\ rate = DefaultRate
  /\ queue = 0 /\ backlog = 0 /\ pictured = FALSE
  /\ clipboard = [seq |-> 0, owner |-> "local"] /\ clipSeen = 0 /\ clipSync = TRUE
  /\ clipSent = None
  /\ blanked = FALSE /\ locked = FALSE /\ physical = FALSE /\ lockLost = FALSE /\ done = FALSE

Asked ==
  \/ \E s \in Scales, c \in Ceilings : Quality([scale |-> s, ceiling |-> c])
  \/ \E m \in Monitor : SelectMonitor(m)
  \/ \E enabled \in BOOLEAN : Blank(enabled) \/ InputLock(enabled) \/ ClipboardSync(enabled)
  \/ ClipboardText

Pictures == DropsFrame \/ EncodesFrame \/ EncoderFails \/ KeepsAlive \/ KeepsAliveInVain

MlNext ==
  \/ Starts \/ ScreenChanges \/ Pictures \/ Governs \/ Flushes \/ Asked
  \/ LocalCopy \/ PollsClipboard \/ Leaves \/ FinishesSession \/ StopsCapture \/ WatchdogLooks

MlSpec == MlInit /\ [][MlNext]_mlVars

\* The loop goes round: its timers fire, it ends what it has begun.
MlFair ==
  /\ WF_mlVars(Governs) /\ WF_mlVars(KeepsAlive) /\ WF_mlVars(Flushes)
  /\ WF_mlVars(FinishesSession) /\ WF_mlVars(StopsCapture) /\ WF_mlVars(WatchdogLooks)

MlLiveSpec == MlSpec /\ MlFair

-----------------------------------------------------------------------------
\* The thread's variables have their types; the rate stays between the least one and the
\* ceiling in force, whichever of them changed last.
MlTypeOK ==
  /\ loop \in {"starting", "running", "leaving", "over"}
  /\ capture \in Monitor \cup {None} /\ waiting \in 0 .. 2
  /\ encoder \in Encoder \cup {NoEncoder} /\ snapshot \in Monitor \cup {None}
  /\ params \in [scale : {1} \cup Scales, ceiling : {DefaultRate} \cup Ceilings]
  /\ rate \in MinRate .. params.ceiling
  /\ queue \in Nat /\ backlog \in Nat
  /\ clipboard \in [seq : Nat, owner : {"local", "private", "controller"}]
  /\ clipSeen \in Nat /\ clipSent \in {None, "local", "private", "controller"}
  /\ {pictured, clipSync, blanked, locked, physical, lockLost, done} \subseteq BOOLEAN

(***************************************************************************)
(* An encoder that is kept fits the frames it will get and the quality in  *)
(* force: the monitor captured now, the scale and the rate.  Frames, the   *)
(* kept picture, the governor and the controller's wishes all make, keep   *)
(* or drop it.                                                             *)
(***************************************************************************)
EncoderFits ==
  Running /\ encoder # NoEncoder =>
    /\ encoder.monitor = capture
    /\ encoder.scale = params.scale /\ encoder.rate = rate

(***************************************************************************)
(* When the session is said to be done the screen is visible and the       *)
(* keyboard works, whichever way the loop is left and whatever was blanked *)
(* and locked in whichever order.  The comment there (connection.rs:1563)  *)
(* has no exception; the code has one: a lock that was asked for again     *)
(* while it was on cleared the flag, and stays on.                         *)
(***************************************************************************)
LocalRestored == done => ~blanked /\ (physical => lockLost)

\* A text that came from the controller is never sent back to it.
NoEcho == clipSent # "controller"

(***************************************************************************)
(* The rate comes back after congestion, in a session that goes on sending *)
(* pictures too: if the governor does not find the channel congested any   *)
(* more, and finds the queue empty now and again (every picture has been   *)
(* flushed in its iteration, and none was queued just before the look),    *)
(* then the rate returns to the ceiling in force, whatever is queued       *)
(* between two looks.                                                      *)
(***************************************************************************)
RateRecovers ==
  <>[](Running /\ backlog <= Congested) /\ []<>(backlog = 0) => []<>(rate = params.ceiling)

(***************************************************************************)
(* What the comment of the keep-alive says (connection.rs:1196): every two *)
(* seconds the kept picture is sent again, so that the controller's        *)
(* watchdog does not take a session with a static screen for dead.  When   *)
(* the quality or the monitor changes, the kept picture is dropped, and a  *)
(* screen that stays as it is need not give another.                       *)
(***************************************************************************)
Settled == <>[][UNCHANGED <<params, capture>> /\ waiting' <= waiting]_mlVars

StaticScreenStaysAlive ==
  Settled => [](snapshot # None => []<>(pictured \/ ~Running))
=============================================================================
