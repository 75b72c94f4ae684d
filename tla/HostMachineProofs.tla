-------------------------- MODULE HostMachineProofs -------------------------
(***************************************************************************)
(* The safety properties of what runs on a machine that is controlled: the *)
(* media thread of the application (MediaLoop), the service (Supervisor)   *)
(* and its worker (Worker, DesktopCapture), for any monitors, scales,      *)
(* ceilings, sessions, processes, desktops and outputs.                    *)
(*                                                                         *)
(* Each invariant says what holds between the calls.  The media thread     *)
(* remembers the machine from one iteration to the next: the monitor of    *)
(* the kept picture is the one captured, an input that is blocked is       *)
(* remembered by the flag of the lock unless a second lock has cleared it, *)
(* and a change of the clipboard that was made here has been seen.  A      *)
(* service that starts a worker has none and holds the handle that the     *)
(* next call needs; a worker remembers the keyboard like the media thread. *)
(***************************************************************************)
EXTENDS MediaLoop, Supervisor, Worker, TLAPS

-----------------------------------------------------------------------------
\* A picture that is kept is of the monitor captured now.
SnapshotFits == Running /\ snapshot # None => snapshot = capture

\* The loop runs with a capture, and begins without a picture.
CaptureRuns ==
  /\ Running => capture \in Monitor
  /\ loop = "starting" => encoder = NoEncoder /\ snapshot = None

\* input_locked is set only while the machine's input is blocked, and is cleared meanwhile by
\* a second lock only.
LockKnown ==
  /\ locked => physical
  /\ physical => locked \/ lockLost

\* A text that was set here has been seen.
OwnChangeSeen == clipboard.owner = "controller" => clipSeen = clipboard.seq

\* The serving thread is told when the loop is left, and not before.
DoneAtTheEnd ==
  /\ loop \in {"starting", "running"} => ~done
  /\ loop = "over" => done

MlInv ==
  /\ MlTypeOK /\ EncoderFits /\ LocalRestored /\ NoEcho
  /\ SnapshotFits /\ CaptureRuns /\ LockKnown /\ OwnChangeSeen /\ DoneAtTheEnd
  /\ loop = "starting" => ~blanked /\ ~physical

\* The governor's rates stay between the least one and the ceiling.
LEMMA RatesBounded ==
  ASSUME MlTypeOK
  PROVE  /\ rate > MinRate => Lowered(rate) \in MinRate .. params.ceiling
         /\ Raised(rate) \in MinRate .. params.ceiling
  <1>1. /\ MinRate \in Nat /\ MinRate >= 4 /\ params.ceiling \in Nat /\ rate \in Nat
        /\ MinRate <= rate /\ rate <= params.ceiling
    BY MediaAssumption DEF MlTypeOK
  <1>2. (rate * 7) \div 10 <= rate /\ (rate * 7) \div 10 \in Nat  BY <1>1
  <1>3. rate <= (rate * 5) \div 4 /\ (rate * 5) \div 4 \in Nat  BY <1>1
  <1> QED  BY <1>1, <1>2, <1>3 DEF Lowered, Raised

\* The encoder that is made next has its type, and fits the monitor it is made for.
LEMMA NewEncoderFits ==
  ASSUME MlTypeOK, NEW m \in Monitor
  PROVE  /\ NewEncoder(m) \in Encoder
         /\ NewEncoder(m).monitor = m /\ NewEncoder(m).scale = params.scale
         /\ NewEncoder(m).rate = rate
  BY MediaAssumption DEF MlTypeOK, NewEncoder, Encoder

LEMMA MlInvInit == MlInit => MlInv
  <1> SUFFICES ASSUME MlInit PROVE MlInv
    OBVIOUS
  <1>1. params.ceiling = DefaultRate /\ params.scale = 1 /\ rate \in MinRate .. params.ceiling
    BY MediaAssumption DEF MlInit
  <1>2. clipboard \in [seq : Nat, owner : {"local", "private", "controller"}]
    BY DEF MlInit
  <1>3. params \in [scale : {1} \cup Scales, ceiling : {DefaultRate} \cup Ceilings]
    BY DEF MlInit
  <1>4. waiting \in 0 .. 2 /\ queue \in Nat /\ backlog \in Nat /\ clipSeen \in Nat
    BY DEF MlInit
  <1>5. /\ loop \in {"starting", "running", "leaving", "over"}
        /\ capture \in Monitor \cup {None} /\ snapshot \in Monitor \cup {None}
        /\ encoder \in Encoder \cup {NoEncoder}
        /\ clipSent \in {None, "local", "private", "controller"}
        /\ {pictured, clipSync, blanked, locked, physical, lockLost, done} \subseteq BOOLEAN
    BY DEF MlInit
  <1>6. MlTypeOK  BY <1>1, <1>2, <1>3, <1>4, <1>5 DEF MlTypeOK
  <1> QED
    BY <1>6 DEF MlInit, MlInv, EncoderFits, LocalRestored, NoEcho, SnapshotFits, CaptureRuns,
                LockKnown, OwnChangeSeen, DoneAtTheEnd, Running, None

\* The parts of the invariant that speak of the picture only.
PictureInv ==
  /\ capture \in Monitor \cup {None} /\ waiting \in 0 .. 2
  /\ encoder \in Encoder \cup {NoEncoder} /\ snapshot \in Monitor \cup {None}
  /\ params \in [scale : {1} \cup Scales, ceiling : {DefaultRate} \cup Ceilings]
  /\ rate \in MinRate .. params.ceiling
  /\ EncoderFits /\ SnapshotFits /\ CaptureRuns

\* And those that do not.
OtherInv ==
  /\ loop \in {"starting", "running", "leaving", "over"}
  /\ queue \in Nat /\ backlog \in Nat
  /\ clipboard \in [seq : Nat, owner : {"local", "private", "controller"}]
  /\ clipSeen \in Nat /\ clipSent \in {None, "local", "private", "controller"}
  /\ {pictured, clipSync, blanked, locked, physical, lockLost, done} \subseteq BOOLEAN
  /\ LocalRestored /\ NoEcho /\ LockKnown /\ OwnChangeSeen /\ DoneAtTheEnd
  /\ loop = "starting" => ~blanked /\ ~physical

\* An action of the picture keeps the rest.
PictureAction ==
  \/ ScreenChanges \/ Pictures \/ Governs
  \/ \E s \in Scales, c \in Ceilings : Quality([scale |-> s, ceiling |-> c])
  \/ \E m \in Monitor : SelectMonitor(m)

LEMMA PictureKeepsOther == OtherInv /\ PictureAction => OtherInv'
  <1> SUFFICES ASSUME OtherInv, PictureAction PROVE OtherInv'
    OBVIOUS
  <1>1. UNCHANGED <<clipboard, clipSeen, clipSync, clipSent, blanked, locked, physical, lockLost,
                    done>>
    BY DEF PictureAction, ScreenChanges, Pictures, DropsFrame, EncodesFrame, EncoderFails,
           KeepsAlive, KeepsAliveInVain, Governs, Quality, SelectMonitor, clip, machine
  <1>2. /\ loop' \in {loop} \cup IF Running THEN {"leaving"} ELSE {}
        /\ queue' \in {queue, queue + 1} /\ backlog' \in {backlog, queue}
        /\ pictured' \in {pictured, TRUE}
    BY DEF PictureAction, ScreenChanges, Pictures, DropsFrame, EncodesFrame, EncoderFails,
           KeepsAlive, KeepsAliveInVain, Governs, Quality, SelectMonitor, GivesPicture, Queues
  <1>3. queue' \in Nat /\ backlog' \in Nat /\ pictured' \in BOOLEAN
    <2>1. queue \in Nat /\ backlog \in Nat /\ pictured \in BOOLEAN  BY DEF OtherInv
    <2>2. queue' \in Nat /\ backlog' \in Nat  BY <1>2, <2>1
    <2>3. pictured' \in BOOLEAN  BY <1>2, <2>1
    <2> QED  BY <2>2, <2>3
  <1>4. /\ loop' \in {"starting", "running", "leaving", "over"} /\ DoneAtTheEnd'
        /\ loop' = "starting" => ~blanked' /\ ~physical'
    BY <1>1, <1>2 DEF OtherInv, DoneAtTheEnd, Running
  <1> QED
    BY <1>1, <1>3, <1>4 DEF OtherInv, LocalRestored, NoEcho, LockKnown, OwnChangeSeen

\* A ceiling that is asked for holds the rate that is set with it.
LEMMA CeilingHolds ==
  ASSUME NEW c \in Ceilings
  PROVE  c \in MinRate .. c
  BY MediaAssumption

LEMMA PictureKeepsPicture == PictureInv /\ OtherInv /\ PictureAction => PictureInv'
  <1> SUFFICES ASSUME PictureInv, OtherInv, PictureAction PROVE PictureInv'
    OBVIOUS
  <1>0. MlTypeOK  BY DEF PictureInv, OtherInv, MlTypeOK
  <1> USE DEF PictureInv, EncoderFits, SnapshotFits, CaptureRuns, Running, None
  <1>1. CASE ScreenChanges  BY <1>1 DEF ScreenChanges
  <1>2. CASE DropsFrame  BY <1>2 DEF DropsFrame
  <1>3. CASE EncodesFrame
    <2>1. capture \in Monitor  BY <1>3 DEF EncodesFrame
    <2> QED  BY <1>0, <1>3, <2>1, NewEncoderFits DEF EncodesFrame
  <1>4. CASE EncoderFails  BY <1>4 DEF EncoderFails
  <1>5. CASE KeepsAlive \/ KeepsAliveInVain
    BY <1>0, <1>5, NewEncoderFits DEF KeepsAlive, KeepsAliveInVain
  <1>6. CASE Governs  BY <1>0, <1>6, RatesBounded DEF Governs, ResetsEncoder
  <1>7. ASSUME NEW s \in Scales, NEW c \in Ceilings, Quality([scale |-> s, ceiling |-> c])
        PROVE  PictureInv'
    BY <1>7, CeilingHolds DEF Quality
  <1>8. ASSUME NEW m \in Monitor, SelectMonitor(m) PROVE PictureInv'
    BY <1>8 DEF SelectMonitor, Switches, CapturesFrom
  <1> QED
    BY <1>1, <1>2, <1>3, <1>4, <1>5, <1>6, <1>7, <1>8 DEF PictureAction, Pictures

LEMMA MlInvStep == MlInv /\ [MlNext]_mlVars => MlInv'
  <1> SUFFICES ASSUME PictureInv, OtherInv, [MlNext]_mlVars PROVE PictureInv' /\ OtherInv'
    BY DEF MlInv, MlTypeOK, PictureInv, OtherInv
  <1> USE DEF LocalRestored, NoEcho, LockKnown, OwnChangeSeen, DoneAtTheEnd, EncoderFits,
              SnapshotFits, CaptureRuns, Running, None
  <1>1. CASE UNCHANGED mlVars  BY <1>1 DEF mlVars, picture, clip, machine, PictureInv, OtherInv
  <1>2. CASE PictureAction  BY <1>2, PictureKeepsOther, PictureKeepsPicture
  <1>3. CASE Starts
    <2>1. /\ UNCHANGED <<encoder, snapshot, params, rate, pictured, clipboard, clipSeen, clipSync,
                         clipSent, blanked, locked, physical, lockLost>>
          /\ queue' \in Nat /\ backlog' \in Nat /\ waiting' \in 0 .. 2 /\ loop = "starting"
      BY <1>3 DEF Starts, CapturesFrom, Queues, clip, machine, PictureInv, OtherInv
    <2>2. CASE loop' = "running" /\ capture' \in Monitor /\ done' = done
      BY <2>1, <2>2 DEF PictureInv, OtherInv
    <2>3. CASE loop' = "over" /\ capture' = capture /\ done' = TRUE
      BY <2>1, <2>3 DEF PictureInv, OtherInv
    <2> QED  BY <1>3, <2>2, <2>3 DEF Starts, CapturesFrom
  <1>4. CASE Flushes  BY <1>4 DEF Flushes, picture, clip, machine, PictureInv, OtherInv
  <1>5. ASSUME NEW enabled \in BOOLEAN,
               Blank(enabled) \/ InputLock(enabled) \/ ClipboardSync(enabled)
        PROVE  PictureInv' /\ OtherInv'
    <2>1. /\ Running /\ UNCHANGED <<loop, capture, waiting, encoder, snapshot, params, rate>>
          /\ UNCHANGED <<queue, backlog, pictured, clipboard, clipSeen, clipSent, done>>
      BY <1>5 DEF Blank, InputLock, ClipboardSync, picture, clip, machine
    <2>2. {clipSync', blanked', locked', physical', lockLost'} \subseteq BOOLEAN /\ LockKnown'
      <3>1. CASE Blank(enabled) \/ ClipboardSync(enabled)
        BY <3>1 DEF Blank, ClipboardSync, Covers, clip, machine, OtherInv
      <3>2. CASE InputLock(enabled)
        <4>1. /\ physical' \in BOOLEAN /\ lockLost' \in BOOLEAN /\ locked' \in BOOLEAN
              /\ clipSync' = clipSync /\ blanked' = blanked
          BY <3>2 DEF InputLock, BlocksInput, clip, OtherInv
        <4>2. LockKnown'  BY <3>2, <4>1 DEF InputLock, BlocksInput, OtherInv
        <4> QED  BY <4>1, <4>2 DEF OtherInv
      <3> QED  BY <1>5, <3>1, <3>2
    <2> QED  BY <2>1, <2>2 DEF PictureInv, OtherInv
  <1>6. CASE ClipboardText
    BY <1>6 DEF ClipboardText, SkipsOwnChange, Copied, picture, machine, PictureInv, OtherInv
  <1>7. CASE LocalCopy
    BY <1>7 DEF LocalCopy, Copied, picture, machine, PictureInv, OtherInv
  <1>8. CASE PollsClipboard
    BY <1>8 DEF PollsClipboard, SendsText, Queues, picture, machine, PictureInv, OtherInv
  <1>9. CASE Leaves  BY <1>9 DEF Leaves, picture, clip, machine, PictureInv, OtherInv
  <1>10. CASE FinishesSession
    <2>1. PictureInv'  BY <1>10 DEF FinishesSession, picture, PictureInv
    <2>2. OtherInv'  BY <1>10 DEF FinishesSession, Restores, Covers, clip, OtherInv
    <2> QED  BY <2>1, <2>2
  <1>11. CASE StopsCapture
    BY <1>11 DEF StopsCapture, clip, machine, PictureInv, OtherInv
  <1>12. CASE WatchdogLooks
    <2>1. PictureInv'  BY <1>12 DEF WatchdogLooks, picture, PictureInv
    <2>2. OtherInv'  BY <1>12 DEF WatchdogLooks, clip, machine, OtherInv
    <2> QED  BY <2>1, <2>2
  <1> QED
    BY <1>1, <1>2, <1>3, <1>4, <1>5, <1>6, <1>7, <1>8, <1>9, <1>10, <1>11, <1>12
    DEF MlNext, Asked, PictureAction

\* The invariant holds of every behaviour of the thread.
LEMMA MlInvariant == MlSpec => []MlInv
  BY MlInvInit, MlInvStep, PTL DEF MlSpec

(***************************************************************************)
(* The thread's variables have their types, and the rate stays between the *)
(* least one and the ceiling in force (MlTypeOK).                          *)
(***************************************************************************)
THEOREM MediaTypeCorrect == MlSpec => []MlTypeOK
  <1>1. MlInv => MlTypeOK  BY DEF MlInv
  <1> QED  BY <1>1, MlInvariant, PTL

(***************************************************************************)
(* managed_loop never encodes a frame with an encoder made for another     *)
(* monitor, scale or rate.                                                 *)
(***************************************************************************)
THEOREM EncoderAlwaysFits == MlSpec => []EncoderFits
  <1>1. MlInv => EncoderFits  BY DEF MlInv
  <1> QED  BY <1>1, MlInvariant, PTL

(***************************************************************************)
(* managed_loop says it is done only when the screen is visible and the    *)
(* keyboard works again, unless a second lock came while one was on: that  *)
(* is the only way to leave it blocked.                                    *)
(***************************************************************************)
THEOREM LocalIsRestored == MlSpec => []LocalRestored
  <1>1. MlInv => LocalRestored  BY DEF MlInv
  <1> QED  BY <1>1, MlInvariant, PTL

(***************************************************************************)
(* The clipboard's poll never sends back what the controller sent.         *)
(***************************************************************************)
THEOREM NeverEchoes == MlSpec => []NoEcho
  <1>1. MlInv => NoEcho  BY DEF MlInv
  <1> QED  BY <1>1, MlInvariant, PTL

-----------------------------------------------------------------------------
\* What starting a worker holds before each of its calls.
HeldBetweenCalls ==
  /\ service = "opening" => held = {}
  /\ service = "duplicating" => held = {"self"}
  /\ service \in {"moving", "equipping"} => held = {"primary"}

\* A service that starts a worker has killed the one before.
StartsFromNothing == service \in Starting => alive = {}

SvInv == SvTypeOK /\ NothingLeftBehind /\ HeldBetweenCalls /\ StartsFromNothing

\* Killing the worker whose handle is kept leaves none.
LEMMA KillLeavesNone ==
  ASSUME alive \subseteq {worker}, alive \subseteq Process,
         IF worker = Nobody THEN UNCHANGED <<worker, alive>> ELSE Kill
  PROVE  alive' = {} /\ worker' = Nobody
  BY SupervisorAssumption DEF Kill, Nobody

\* The initial state is one of those.
LEMMA SvInvInit == SvInit => SvInv
  BY DEF SvInit, SvInv, SvTypeOK, NothingLeftBehind, OneWorker, HandlesClosed, HeldBetweenCalls,
         StartsFromNothing, Up, Starting, Nobody

\* Every step keeps it; an action that touches neither processes nor handles only has to keep
\* the service where they are the same.
LEMMA SvInvStep == SvInv /\ [SvNext]_svVars => SvInv'
  <1> SUFFICES ASSUME SvInv, [SvNext]_svVars PROVE SvInv'
    OBVIOUS
  <1> USE DEF SvInv, SvTypeOK, NothingLeftBehind, OneWorker, HandlesClosed, HeldBetweenCalls,
              StartsFromNothing, Up, Starting, Goes
  <1>1. CASE UNCHANGED svVars  BY <1>1 DEF svVars
  <1>2. CASE Install  BY <1>2 DEF Install
  <1>3. CASE ScmStarts  BY <1>3 DEF ScmStarts
  <1>4. CASE ControlStop  BY <1>4 DEF ControlStop
  <1>5. CASE Uninstall  BY <1>5 DEF Uninstall
  <1>6. CASE Prepares  BY <1>6 DEF Prepares
  <1>7. CASE LooksKeeps  BY <1>7 DEF LooksKeeps
  <1>8. CASE LooksReplaces
    <2>1. alive' = {} /\ worker' = Nobody
      BY <1>8, KillLeavesNone DEF LooksReplaces, ReplacesOld
    <2> QED  BY <1>8, <2>1 DEF LooksReplaces
  <1>9. CASE LooksNoConsole
    <2>1. alive' = {} /\ worker' = Nobody  BY <1>9, KillLeavesNone DEF LooksNoConsole
    <2> QED  BY <1>9, <2>1 DEF LooksNoConsole
  <1>10. CASE Ticks  BY <1>10 DEF Ticks
  <1>11. CASE ServiceStops
    <2>1. alive' = {} /\ worker' = Nobody  BY <1>11, KillLeavesNone DEF ServiceStops
    <2> QED  BY <1>11, <2>1 DEF ServiceStops
  <1>12. CASE OpensSelf  BY <1>12 DEF OpensSelf, SpawnOnly
  <1>13. CASE Duplicates  BY <1>13 DEF Duplicates, SpawnOnly
  <1>14. CASE MovesToken  BY <1>14 DEF MovesToken, ClosesToken, SpawnOnly
  <1>15. CASE Equips  BY <1>15 DEF Equips, SpawnOnly
  <1>16. ASSUME NEW p \in Process, Creates(p) PROVE SvInv'  BY <1>16 DEF Creates
  <1>17. ASSUME NEW p \in Process, WorkerDies(p) PROVE SvInv'  BY <1>17 DEF WorkerDies
  <1>18. ASSUME NEW s \in WinSession \cup {Nobody}, ConsoleChanges(s) PROVE SvInv'
    BY <1>18 DEF ConsoleChanges
  <1>19. CASE SystemChanges  BY <1>19 DEF SystemChanges
  <1> QED
    BY <1>1, <1>2, <1>3, <1>4, <1>5, <1>6, <1>7, <1>8, <1>9, <1>10, <1>11, <1>12, <1>13, <1>14,
       <1>15, <1>16, <1>17, <1>18, <1>19 DEF SvNext, Runs, Spawns

\* The invariant holds of every behaviour of the service.
LEMMA SvInvariant == SvSpec => []SvInv
  BY SvInvInit, SvInvStep, PTL DEF SvSpec

(***************************************************************************)
(* The service's variables have their types (SvTypeOK).                    *)
(***************************************************************************)
THEOREM ServiceTypeCorrect == SvSpec => []SvTypeOK
  <1>1. SvInv => SvTypeOK  BY DEF SvInv
  <1> QED  BY <1>1, SvInvariant, PTL

(***************************************************************************)
(* run_service and spawn_worker leave nothing behind: at most one worker,  *)
(* none without the service, no handle of a start that is over.            *)
(***************************************************************************)
THEOREM NothingStaysBehind == SvSpec => []NothingLeftBehind
  <1>1. SvInv => NothingLeftBehind  BY DEF SvInv
  <1> QED  BY <1>1, SvInvariant, PTL

-----------------------------------------------------------------------------
(***************************************************************************)
(* The worker.                                                             *)
(***************************************************************************)
\* A session is being put back: the screen is free, and the keyboard if it is remembered.
FreeOnceCleaned == stage = "joining" => ~curtain /\ (keysBlocked => keysForgotten)

\* A keyboard that was blocked is remembered, unless a second lock made the worker forget it.
LockRemembered == keysBlocked => keyLock \/ keysForgotten

WkInv == WkTypeOK /\ DesktopKept /\ NothingOutlives /\ FreeOnceCleaned /\ LockRemembered

\* A channel that is new holds nothing, there is an output 0, and a bound of the search.
LEMMA NothingYet ==
  /\ <<>> \in Seq(Dups) /\ Len(<<>>) <= Room
  /\ 0 \in 0 .. MaxProbes /\ 0 \in AnyOutput /\ NoDup \in Dups
  <1>1. Len(<<>>) = 0 /\ <<>> \in Seq(Dups)  OBVIOUS
  <1>2. Room \in Nat /\ MaxProbes \in Nat /\ 0 \in AnyOutput /\ 0 \in Output
    BY CaptureAssumption
  <1>3. 0 <= Room /\ 0 \in 0 .. MaxProbes  BY <1>2
  <1> QED  BY <1>1, <1>2, <1>3 DEF NoDup, Dups

\* A new capture is on its thread's first desktop.
LEMMA StartKeeps ==
  ASSUME DcTypeOK, DesktopKept, StartsCapture
  PROVE  DcTypeOK' /\ DesktopKept' /\ source' = "top"
  <1>1. frames' \in Seq(Dups) /\ Len(frames') <= Room /\ wanted' \in AnyOutput /\ dup' \in Dups
    BY NothingYet DEF StartsCapture
  <1> QED  BY <1>1 DEF StartsCapture, DcTypeOK, DesktopKept, around, proof

\* What a thread makes is a duplication of an output there is, on its own desktop.
LEMMA DuplicationOK ==
  ASSUME DcTypeOK
  PROVE  /\ Duplication \in Dups /\ PrimaryDuplication \in Dups
         /\ Duplication.desk = DesktopOf(desk) /\ PrimaryDuplication.desk = DesktopOf(desk)
         /\ DesktopOf(desk) \in Desktop
  BY CaptureAssumption DEF Duplication, PrimaryDuplication, DcTypeOK, Dups, DesktopOf, Existing, No

\* A frame that is sent leaves frames in the channel, and no more than there is room for.
LEMMA ReadBackOK ==
  ASSUME DcTypeOK, ReadsBack
  PROVE  frames' \in Seq(Dups) /\ Len(frames') <= Room
  <1>1. frames \in Seq(Dups) /\ dup \in Dups /\ Room \in Nat /\ Len(frames) <= Room
    BY CaptureAssumption DEF DcTypeOK
  <1>2. CASE Len(frames) < Room
    <2>1. frames' = Append(frames, dup)  BY <1>2 DEF ReadsBack
    <2> QED  BY <1>1, <1>2, <2>1
  <1>3. CASE ~(Len(frames) < Room)  BY <1>1, <1>3 DEF ReadsBack
  <1> QED  BY <1>2, <1>3

\* Probing keeps the search within its bound.
LEMMA ProbesOK ==
  ASSUME DcTypeOK, Probes
  PROVE  probes' \in 0 .. MaxProbes /\ provedOn' \in Desktop \cup {No}
  BY CaptureAssumption DEF DcTypeOK, Probes, Proves, proof

\* A step of the capture's thread keeps the types and the handles.
LEMMA SourceKeeps ==
  ASSUME DcTypeOK, DesktopKept, Source
  PROVE  DcTypeOK' /\ DesktopKept' /\ source # "none"
  <1> USE CaptureAssumption DEF Steps, around, orders, proof
  <1>1. CASE SourceTop
    BY <1>1 DEF SourceTop, DcTypeOK, DesktopKept, NoDup, Dups, No, Unset
  <1>2. CASE SourceStops
    BY <1>2 DEF SourceStops, Ends, DcTypeOK, DesktopKept, NoDup, Dups, No, Unset
  <1>3. CASE SkipsPoll  BY <1>3 DEF SkipsPoll, DcTypeOK, DesktopKept
  <1>4. CASE Polls
    BY <1>4 DEF Polls, Rebinds, DropsCapture, DcTypeOK, DesktopKept, NoDup, Dups, No, DesktopOf
  <1>5. CASE MakesCapture
    BY <1>5, DuplicationOK DEF MakesCapture, DcTypeOK, DesktopKept
  <1>6. CASE MakesNothing  BY <1>6 DEF MakesNothing, DcTypeOK, DesktopKept
  <1>7. CASE GrabsFrame
    <2>1. frames' \in Seq(Dups) /\ Len(frames') <= Room
      BY <1>7, ReadBackOK DEF GrabsFrame, DcTypeOK
    <2>2. probes' \in 0 .. MaxProbes /\ provedOn' \in Desktop \cup {No}
      BY <1>7, ProbesOK DEF GrabsFrame, DcTypeOK
    <2> QED  BY <1>7, <2>1, <2>2 DEF GrabsFrame, DcTypeOK, DesktopKept
  <1>8. CASE GrabsNothing  BY <1>8 DEF GrabsNothing, DcTypeOK, DesktopKept
  <1>9. CASE LosesCapture
    BY <1>9 DEF LosesCapture, DcTypeOK, DesktopKept, NoDup, Dups, No
  <1> QED
    BY <1>1, <1>2, <1>3, <1>4, <1>5, <1>6, <1>7, <1>8, <1>9 DEF Source

\* So does what happens around it, which it takes no part in.
LEMMA SurroundingsKeep ==
  ASSUME DcTypeOK, DesktopKept, Surroundings
  PROVE  DcTypeOK' /\ DesktopKept' /\ UNCHANGED <<source, deskHandles>>
  BY DEF Surroundings, GrantChanges, DesktopChanges, DcTypeOK, DesktopKept, orders, proof

\* Types, handles and what a session leaves are the same in the same state.
LEMMA CaptureUnchanged ==
  ASSUME DcTypeOK, DesktopKept, UNCHANGED dcVars
  PROVE  DcTypeOK' /\ DesktopKept' /\ UNCHANGED <<source, deskHandles>>
  BY DEF dcVars, around, orders, proof, DcTypeOK, DesktopKept

LEMMA WkInvInit == WkInit => WkInv
  <1> SUFFICES ASSUME WkInit PROVE WkInv
    OBVIOUS
  <1>1. frames \in Seq(Dups) /\ Len(frames) <= Room /\ wanted \in AnyOutput /\ dup \in Dups
        /\ probes \in 0 .. MaxProbes
    BY NothingYet DEF WkInit, DcInit
  <1>2. DcTypeOK /\ DesktopKept  BY <1>1 DEF WkInit, DcInit, DcTypeOK, DesktopKept
  <1> QED
    BY <1>2 DEF WkInit, DcInit, WkInv, WkTypeOK, NothingOutlives, Waits, FreeOnceCleaned,
                LockRemembered, Stages, Listening

\* Establishing a session touches neither the machine nor the capture, until it streams.
LEMMA EstablishingKeeps ==
  ASSUME WkInv,
         WorkerRegisters \/ SocketBreaks \/ Incoming \/ ConnectReady \/ GivesUpWaiting
           \/ (\E stray \in BOOLEAN : Answer(stray)) \/ SecondAnswer \/ StartsConfirming
           \/ FailsToConfirm
  PROVE  WkInv'
  <1>1. /\ NoStream
        /\ stage \in Listening \cup {"offline", "confirming"}
        /\ stage' \in Listening \cup {"offline", "confirming"}
        /\ astray' \in BOOLEAN
    BY DEF WkInv, WkTypeOK, WorkerRegisters, SocketBreaks, Incoming, ConnectReady, GivesUpWaiting,
           Answer, SecondAnswer, StartsConfirming, FailsToConfirm, GivesUp, Moves, Listening
  <1>2. DcTypeOK' /\ DesktopKept' /\ UNCHANGED <<source, deskHandles>>
    BY <1>1, CaptureUnchanged DEF NoStream, WkInv, WkTypeOK
  <1> QED
    BY <1>1, <1>2
    DEF NoStream, controls, keys, WkInv, WkTypeOK, NothingOutlives, Waits, FreeOnceCleaned,
        LockRemembered, Stages, Listening

\* A step of the loop keeps the capture's variables in order.
LEMMA StreamingKeeps ==
  ASSUME WkInv, Streaming, wanted' \in AnyOutput, stopping' \in BOOLEAN,
         frames' \in Seq(Dups), Len(frames') <= Room
  PROVE  DcTypeOK' /\ DesktopKept' /\ astray' \in BOOLEAN
  BY DEF WkInv, WkTypeOK, Streaming, around, proof, DcTypeOK, DesktopKept

LEMMA FramesTaken ==
  ASSUME DcTypeOK, frames # <<>>
  PROVE  /\ Tail(frames) \in Seq(Dups) /\ Len(Tail(frames)) <= Room
         /\ Head(frames).out \in Output
  <1>1. frames \in Seq(Dups) /\ Room \in Nat /\ Len(frames) <= Room
    BY CaptureAssumption DEF DcTypeOK
  <1>2. Tail(frames) \in Seq(Dups) /\ Len(Tail(frames)) = Len(frames) - 1 /\ Head(frames) \in Dups
    BY <1>1
  <1> QED  BY <1>1, <1>2 DEF Dups

LEMMA WkInvStep == WkInv /\ [WkNext]_wkVars => WkInv'
  <1> SUFFICES ASSUME WkInv, [WkNext]_wkVars PROVE WkInv'
    OBVIOUS
  <1>0. /\ DcTypeOK /\ DesktopKept /\ wanted \in AnyOutput /\ stopping \in BOOLEAN
        /\ frames \in Seq(Dups) /\ Len(frames) <= Room
    BY DEF WkInv, WkTypeOK, DcTypeOK
  <1>1. CASE UNCHANGED wkVars
    <2>1. DcTypeOK' /\ DesktopKept' /\ UNCHANGED <<source, deskHandles>>
      BY <1>1, CaptureUnchanged DEF wkVars, WkInv, WkTypeOK
    <2> QED
      BY <1>1, <2>1 DEF wkVars, controls, keys, WkInv, WkTypeOK, NothingOutlives, Waits,
                        FreeOnceCleaned, LockRemembered
  <1>2. CASE ProvesOnly
    BY <1>0, <1>2, StartKeeps
    DEF ProvesOnly, controls, keys, WkInv, WkTypeOK, NothingOutlives, Waits, FreeOnceCleaned,
        LockRemembered, Listening
  <1>3. CASE WorkerRegisters \/ SocketBreaks \/ Incoming \/ ConnectReady \/ GivesUpWaiting
               \/ (\E stray \in BOOLEAN : Answer(stray)) \/ SecondAnswer \/ StartsConfirming
               \/ FailsToConfirm
    BY <1>3, EstablishingKeeps
  <1>4. CASE Confirms
    BY <1>0, <1>4, StartKeeps
    DEF Confirms, Moves, controls, keys, WkInv, WkTypeOK, NothingOutlives, Waits, FreeOnceCleaned,
        LockRemembered, Listening, Stages
  <1>5. CASE Streams
    <2> USE DEF CaptureOnly, controls, keys, WkTypeOK, NothingOutlives, Waits, FreeOnceCleaned,
                LockRemembered, Listening, Stages
    <2>0. /\ codec \in Output \cup {NoCodec} /\ injectDesk \in Desktop \cup {No}
          /\ inputDesktop \in Desktop
          /\ {curtain, keyLock, keysBlocked, keysForgotten} \subseteq BOOLEAN /\ LockRemembered
      BY DEF WkInv, DcTypeOK
    <2>1. ASSUME NEW i \in AnyOutput, AsksMonitor(i) PROVE WkInv'
      <3>1. DcTypeOK' /\ DesktopKept' /\ astray' \in BOOLEAN
        BY <1>0, <2>1, StreamingKeeps DEF AsksMonitor
      <3> QED  BY <2>0, <2>1, <3>1 DEF AsksMonitor, Streaming, Rebound, WkInv
    <2>2. ASSUME NEW enabled \in BOOLEAN, AsksCurtain(enabled) PROVE WkInv'
      <3>1. DcTypeOK' /\ DesktopKept' /\ astray' \in BOOLEAN
        BY <1>0, <2>2, StreamingKeeps DEF AsksCurtain
      <3> QED  BY <2>0, <2>2, <3>1 DEF AsksCurtain, Streaming, Rebound, WkInv
    <2>3. ASSUME NEW enabled \in BOOLEAN, AsksInputLock(enabled) PROVE WkInv'
      <3>1. DcTypeOK' /\ DesktopKept' /\ astray' \in BOOLEAN
        BY <1>0, <2>3, StreamingKeeps DEF AsksInputLock
      <3> QED  BY <2>0, <2>3, <3>1 DEF AsksInputLock, Streaming, Rebound, WkInv
    <2>4. CASE InjectsInput
      <3>1. DcTypeOK' /\ DesktopKept' /\ astray' \in BOOLEAN
        BY <1>0, <2>4, StreamingKeeps DEF InjectsInput
      <3> QED  BY <2>0, <2>4, <3>1 DEF InjectsInput, Streaming, WkInv
    <2>5. CASE StreamEnds
      <3>1. DcTypeOK' /\ DesktopKept' /\ astray' \in BOOLEAN
        BY <1>0, <2>5, StreamingKeeps DEF StreamEnds
      <3> QED  BY <2>0, <2>5, <3>1 DEF StreamEnds, Streaming, WkInv
    <2>6. CASE TakesFrame
      <3>1. DcTypeOK' /\ DesktopKept' /\ astray' \in BOOLEAN
        BY <1>0, <2>6, FramesTaken, StreamingKeeps DEF TakesFrame
      <3>2. codec' \in Output \cup {NoCodec}  BY <1>0, <2>0, <2>6, FramesTaken DEF TakesFrame
      <3> QED  BY <2>0, <2>6, <3>1, <3>2 DEF TakesFrame, Streaming, WkInv
    <2>7. CASE NoEncoderMade
      <3>1. DcTypeOK' /\ DesktopKept' /\ astray' \in BOOLEAN
        BY <1>0, <2>7, FramesTaken, StreamingKeeps DEF NoEncoderMade
      <3> QED  BY <2>0, <2>7, <3>1 DEF NoEncoderMade, LeavesLoop, Streaming, WkInv
    <2> QED  BY <1>5, <2>1, <2>2, <2>3, <2>4, <2>5, <2>6, <2>7 DEF Streams
  <1>6. CASE Cleans
    BY <1>0, <1>6, ZenonT(60)
    DEF Cleans, Moves, around, proof, WkInv, WkTypeOK, DcTypeOK, DesktopKept, NothingOutlives,
        Waits, FreeOnceCleaned, LockRemembered, Listening, Stages
  <1>7. CASE ClosesSession
    <2>1. frames' \in Seq(Dups) /\ Len(frames') <= Room /\ wanted' \in AnyOutput
      BY <1>7, NothingYet DEF ClosesSession
    <2>2. DcTypeOK' /\ DesktopKept'
      BY <1>0, <1>7, <2>1 DEF ClosesSession, around, proof, DcTypeOK, DesktopKept
    <2> QED
      BY <1>0, <1>7, <2>2
      DEF ClosesSession, GivesUp, Moves, WkInv, WkTypeOK, NothingOutlives, Waits, FreeOnceCleaned,
          LockRemembered, Listening, Stages, DesktopKept
  <1>8. CASE Captures
    <2>1. /\ DcTypeOK' /\ DesktopKept'
          /\ source = "none" => UNCHANGED <<source, deskHandles>>
      BY <1>0, <1>8, SourceKeeps, SurroundingsKeep DEF Captures
    <2> QED
      BY <1>8, <2>1 DEF Captures, controls, keys, WkInv, WkTypeOK, NothingOutlives, Waits,
                        FreeOnceCleaned, LockRemembered
  <1> QED
    BY <1>1, <1>2, <1>3, <1>4, <1>5, <1>6, <1>7, <1>8 DEF WkNext, Establishes

\* The invariant holds of every behaviour of the worker.
LEMMA WkInvariant == WkSpec => []WkInv
  BY WkInvInit, WkInvStep, PTL DEF WkSpec

(***************************************************************************)
(* The worker's variables, and its capture's, have their types (WkTypeOK). *)
(***************************************************************************)
THEOREM WorkerTypeCorrect == WkSpec => []WkTypeOK
  <1>1. WkInv => WkTypeOK  BY DEF WkInv
  <1> QED  BY <1>1, WkInvariant, PTL

(***************************************************************************)
(* source_loop and cap::run keep exactly the handle of the desktop they    *)
(* are bound to, and a capture is of that desktop.                         *)
(***************************************************************************)
THEOREM DesktopIsKept == WkSpec => []DesktopKept
  <1>1. WkInv => DesktopKept  BY DEF WkInv
  <1> QED  BY <1>1, WkInvariant, PTL

(***************************************************************************)
(* serve_session leaves the screen visible, the keyboard free, the capture *)
(* ended and its desktop closed, however the session was left; a second    *)
(* lock while one was on is the only way to leave the keyboard blocked.    *)
(***************************************************************************)
THEOREM NothingOutlivesSession == WkSpec => []NothingOutlives
  <1>1. WkInv => NothingOutlives  BY DEF WkInv
  <1> QED  BY <1>1, WkInvariant, PTL
=============================================================================
