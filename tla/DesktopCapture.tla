--------------------------- MODULE DesktopCapture ---------------------------
(***************************************************************************)
(* The worker's picture of the screen (core capture.rs, mod dxgi, and the  *)
(* service's mod cap).  A thread captures one output of the adapter, on    *)
(* the desktop that has the input: the user's, the secure one, the screen  *)
(* saver's.  The desktop changes without notice, and a capture belongs to  *)
(* the desktop its thread was bound to when it was made.  With no device   *)
(* configured the same loop only proves that it sees the screen (job       *)
(* "proof"); with one it feeds the session (job "stream").                 *)
(*                                                                         *)
(* OpenInputDesktop opens a handle every time; one is kept, the others     *)
(* have to be closed.  A handle is named by its desktop: the thread opens  *)
(* another of a desktop only to look, and closes it in the same step.      *)
(***************************************************************************)
EXTENDS Integers, Sequences, FiniteSets

CONSTANTS
  Desktop,    \* Default, Winlogon, Screen-saver
  Home,       \* Default, where the worker is started: a thread's desktop at first
  Output,     \* the outputs of the adapter; 0 is the primary one
  AnyOutput,  \* the indices a controller may send, some of them of no output
  Room,       \* 2: the frames the channel holds
  MaxProbes   \* 30: the frames in which the contents are looked for

ASSUME CaptureAssumption ==
  /\ "no" \notin Desktop /\ Home \in Desktop /\ Output \subseteq Nat /\ 0 \in Output
  /\ AnyOutput \subseteq Nat /\ 0 \in AnyOutput /\ {Room, MaxProbes} \subseteq Nat

VARIABLES
  job,           \* run_worker: "proof" or "stream"
  inputDesktop,  \* the desktop that has the input
  granted,       \* the system opens, binds and duplicates what it is asked to
  source,        \* the capturing thread: "none", "top", "poll", "make", "grab"
  wanted,        \* DxgiStream.output
  stopping,      \* DxgiStream.stop
  desk,          \* current: the desktop the thread is bound to
  deskHandles,   \* the desktops it has handles of
  output,        \* current_output; Unset at first
  dup,           \* the duplication: NoDup, or its desktop and its output
  frames,        \* the channel of frames
  probes, provedOn  \* the search for contents

around == <<job, inputDesktop, granted>>
orders == <<wanted, stopping>>
proof  == <<probes, provedOn>>
dcVars == <<around, source, orders, desk, deskHandles, output, dup, frames, proof>>

-----------------------------------------------------------------------------
No    == "no"
Unset == -1   \* u32::MAX
NoDup == [desk |-> No, out |-> 0]
Dups  == [desk : Desktop \cup {No}, out : Output]

Steps(from, to) == source = from /\ source' = to

\* The desktop of a thread that has bound itself to d.
DesktopOf(d) == IF d = No THEN Home ELSE d

\* EnumOutputs, or else the primary output.
Existing(i) == IF i \in Output THEN i ELSE 0

\* What new_output makes for the thread: a device and a duplication, on its desktop; and what
\* create does, for the primary output alone.
Duplication        == [desk |-> DesktopOf(desk), out |-> Existing(output)]
PrimaryDuplication == [desk |-> DesktopOf(desk), out |-> 0]

-----------------------------------------------------------------------------
\* start_primary_dxgi, or the start of cap::run; the channel is new.
StartsCapture ==
  /\ source = "none" /\ source' = "top"
  /\ wanted' = 0 /\ stopping' = FALSE
  /\ desk' = No /\ deskHandles' = {} /\ output' = Unset /\ dup' = NoDup /\ frames' = <<>>
  /\ UNCHANGED <<around, proof>>

\* The stop flag is looked at, and another output asked for ends the capture of this one.
SourceTop ==
  /\ ~stopping /\ Steps("top", "poll")
  /\ output' = IF job = "stream" THEN wanted ELSE 0
  /\ dup' = IF output' # output THEN NoDup ELSE dup
  /\ UNCHANGED <<around, orders, desk, deskHandles, frames, proof>>

\* The thread ends: the handle is closed, the capture and the sender are dropped.
Ends ==
  /\ source' = "none" /\ deskHandles' = {} /\ dup' = NoDup /\ desk' = No /\ output' = Unset

SourceStops ==
  /\ source = "top" /\ stopping
  /\ Ends
  /\ UNCHANGED <<around, orders, frames, proof>>

\* Between two looks at the desktop 200 ms pass, unless there is no capture.
SkipsPoll ==
  /\ dup # NoDup /\ Steps("poll", "make")
  /\ UNCHANGED <<around, orders, desk, deskHandles, output, dup, frames, proof>>

\* Faulty variant: the capture of the desktop that was left goes on.
KeepsCapture == UNCHANGED dup

DropsCapture == dup' = NoDup

\* The thread is bound to a desktop it was not bound to; the handle of the one before is closed.
Rebinds(d) ==
  /\ desk' = d
  /\ deskHandles' = (deskHandles \ {desk}) \cup {d}
  /\ DropsCapture
  /\ probes' = 0 /\ UNCHANGED provedOn

\* open_input_desktop and what follows: nothing is opened, the desktop is the same, the
\* thread cannot be bound to it (and stays where it is), or it is bound to it.
Polls ==
  /\ Steps("poll", "make")
  /\ IF granted /\ inputDesktop # desk THEN Rebinds(inputDesktop)
     ELSE UNCHANGED <<desk, deskHandles, dup, proof>>
  /\ UNCHANGED <<around, orders, output, frames>>

MakesCapture ==
  /\ Steps("make", "grab")
  /\ \/ dup # NoDup /\ UNCHANGED dup
     \/ dup = NoDup /\ granted
        /\ dup' = IF job = "stream" THEN Duplication ELSE PrimaryDuplication
  /\ UNCHANGED <<around, orders, desk, deskHandles, output, frames, proof>>

\* It fails; 300 ms later the loop looks again.
MakesNothing ==
  /\ dup = NoDup /\ ~granted
  /\ Steps("make", "top")
  /\ UNCHANGED <<around, orders, desk, deskHandles, output, dup, frames, proof>>

\* frame_stats: the frame has contents, or shows nothing.
Proves == provedOn' \in {provedOn, desk}

\* cap::run looks for contents, in MaxProbes frames of a desktop at most.
Probes ==
  IF provedOn # desk /\ probes < MaxProbes THEN probes' = probes + 1 /\ Proves
  ELSE UNCHANGED proof

\* The frame is read back and sent; a full channel drops it.  The receiver outlives the thread.
ReadsBack == frames' = IF Len(frames) < Room THEN Append(frames, dup) ELSE frames

GrabsFrame ==
  /\ Steps("grab", "top") /\ granted /\ dup.desk = inputDesktop
  /\ IF job = "stream" THEN ReadsBack /\ UNCHANGED proof ELSE Probes /\ UNCHANGED frames
  /\ UNCHANGED <<around, orders, desk, deskHandles, output, dup>>

\* Nothing has changed for 100 ms.
GrabsNothing ==
  /\ Steps("grab", "top")
  /\ UNCHANGED <<around, orders, desk, deskHandles, output, dup, frames, proof>>

\* Access is lost, or anything else fails: the capture is dropped.
LosesCapture ==
  /\ Steps("grab", "top") /\ ~(granted /\ dup.desk = inputDesktop)
  /\ dup' = NoDup
  /\ UNCHANGED <<around, orders, desk, deskHandles, output, frames, proof>>

-----------------------------------------------------------------------------
\* The user locks the machine, confirms an elevation, leaves it alone.
DesktopChanges(d) ==
  /\ inputDesktop # d /\ inputDesktop' = d
  /\ UNCHANGED <<job, granted, source, orders, desk, deskHandles, output, dup, frames, proof>>

GrantChanges ==
  /\ granted' = ~granted
  /\ UNCHANGED <<job, inputDesktop, source, orders, desk, deskHandles, output, dup, frames, proof>>

-----------------------------------------------------------------------------
DcInit ==
  /\ inputDesktop \in Desktop /\ granted = TRUE
  /\ source = "none" /\ wanted = 0 /\ stopping = FALSE
  /\ desk = No /\ deskHandles = {} /\ output = Unset /\ dup = NoDup /\ frames = <<>>
  /\ probes = 0 /\ provedOn = No

Source ==
  \/ SourceTop \/ SourceStops \/ SkipsPoll \/ Polls \/ MakesCapture \/ MakesNothing
  \/ GrabsFrame \/ GrabsNothing \/ LosesCapture

Surroundings == GrantChanges \/ \E d \in Desktop : DesktopChanges(d)

-----------------------------------------------------------------------------
\* The variables of the capture have their types.
DcTypeOK ==
  /\ job \in {"proof", "stream"} /\ inputDesktop \in Desktop
  /\ source \in {"none", "top", "poll", "make", "grab"}
  /\ wanted \in AnyOutput /\ output \in AnyOutput \cup {Unset}
  /\ desk \in Desktop \cup {No} /\ deskHandles \subseteq Desktop
  /\ dup \in Dups /\ frames \in Seq(Dups) /\ Len(frames) <= Room
  /\ probes \in 0 .. MaxProbes /\ provedOn \in Desktop \cup {No}
  /\ {granted, stopping} \subseteq BOOLEAN

(***************************************************************************)
(* The thread has exactly the handle of the desktop it is bound to: the    *)
(* one in use is never closed, the others are, and none is left when the   *)
(* thread has ended.                                                       *)
(***************************************************************************)
DesktopKept ==
  /\ deskHandles = IF desk = No THEN {} ELSE {desk}
  /\ source = "none" => desk = No
  /\ dup # NoDup => dup.desk = DesktopOf(desk)
=============================================================================
