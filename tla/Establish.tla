------------------------------ MODULE Establish -----------------------------
(***************************************************************************)
(* From an open channel to a session (session.rs, crypto.rs, media.rs, and *)
(* drive_until_confirmed in connection.rs).  Both sides derive a key from  *)
(* the password each has, confirm it together with the fingerprints each   *)
(* was told, and only then begin to exchange sealed messages; what the     *)
(* faster side sends while the slower one is still confirming is kept for  *)
(* the session.  Frames travel in chunks.                                  *)
(*                                                                         *)
(* Cryptography is ideal: a key is what it was derived from, a tag names   *)
(* its key and fingerprints, a sealed message opens with its own key.      *)
(***************************************************************************)
EXTENDS Naturals, Sequences

CONSTANTS
  Password,    \* what may be typed at either side
  FrameSizes,  \* how many chunks the frames have that a side sends, in order
  MaxBatch     \* bound of the model: the messages one look at the connection brings

ASSUME EstablishAssumption ==
  /\ FrameSizes \in Seq(Nat) /\ \A i \in DOMAIN FrameSizes : FrameSizes[i] > 0
  /\ MaxBatch \in Nat \ {0}

VARIABLES
  passwordOf,   \* the password of each side
  peerFp,       \* the fingerprint each side was told of the other
  channel,      \* the channel is open at this side
  hs,           \* Handshake.state; "none" before it is started
  keyOf,        \* the key derived
  side,         \* "driving" (drive_until_confirmed), "session", "left"
  line,         \* what is on its way to a side
  inbox,        \* what it has taken off the connection and not looked at
  deferred,     \* what it keeps for the session
  sentFrames,   \* how many frames it has sent
  assembly,     \* its Reassembler
  frameLog      \* the frames it has put together

inputs == <<passwordOf, peerFp>>
shakes == <<hs, keyOf>>
stream == <<sentFrames, assembly, frameLog>>
esVars == <<inputs, channel, shakes, side, line, inbox, deferred, stream>>

-----------------------------------------------------------------------------
Side == {"host", "controller"}
Peer(s) == IF s = "host" THEN "controller" ELSE "host"

Fingerprint == Side \cup {"other"}   \* the sides' own, and another
NoKey == <<>>

\* pake_finish: the same key for the same password, else a key of one's own.
DerivedKey(s, p) == IF p = passwordOf[s] THEN <<"shared", p>> ELSE <<s, p>>

\* session_binding, over the fingerprints in canonical order.
Tag(s, key) == [key |-> key, fps |-> {s, peerFp[s]}]

Pake(p)      == [type |-> "pake", password |-> p]
Binding(tag) == [type |-> "binding", tag |-> tag]

\* StreamSealer.seal: what a side seals is for one direction.
Seal(s) == [key |-> keyOf[s], label |-> s]

\* Chunker.chunk: the chunks of frame n; what the controller sends is in one piece.
Chunks(s, n) ==
  LET count == IF s = "host" THEN FrameSizes[n] ELSE 1 IN
    [i \in 1 .. count |->
       [type |-> "sealed", seal |-> Seal(s), seq |-> n, idx |-> i - 1, count |-> count]]

\* StreamOpener.open
Opens(s, seal) == seal.key = keyOf[s] /\ seal.label = Peer(s)

Fresh == [seq |-> 0, count |-> 0, got |-> 0]

\* Reassembler.push: the first chunk of a frame resets it, a chunk of another frame is
\* dropped, the last one completes it.
Pushed(a, m) ==
  LET b == IF m.idx = 0 THEN [seq |-> m.seq, count |-> m.count, got |-> 0] ELSE a
  IN  IF b.seq # m.seq THEN [next |-> b, frame |-> <<>>]
      ELSE IF b.got + 1 >= b.count THEN [next |-> [b EXCEPT !.seq = 0], frame |-> <<m.seq>>]
      ELSE [next |-> [b EXCEPT !.got = @ + 1], frame |-> <<>>]

-----------------------------------------------------------------------------
Driving(s) == side[s] = "driving"

Sends(s, ms) == line' = [line EXCEPT ![Peer(s)] = @ \o ms]

ChannelOpens(s) ==
  /\ Driving(s) /\ ~channel[s] /\ channel' = [channel EXCEPT ![s] = TRUE]
  /\ UNCHANGED <<inputs, shakes, side, line, inbox, deferred, stream>>

\* Handshake::start, when the channel is open.
StartsHandshake(s) ==
  /\ Driving(s) /\ channel[s] /\ hs[s] = "none" /\ inbox[s] = <<>>
  /\ hs' = [hs EXCEPT ![s] = "pake"]
  /\ Sends(s, <<Pake(passwordOf[s])>>)
  /\ UNCHANGED <<inputs, channel, keyOf, side, inbox, deferred, stream>>

\* drain and recv_one: some of what has arrived.
Drains(s) ==
  /\ Driving(s) /\ hs[s] \in {"pake", "binding"} /\ inbox[s] = <<>> /\ line[s] # <<>>
  /\ \E n \in 1 .. MaxBatch :
       /\ n <= Len(line[s])
       /\ inbox' = [inbox EXCEPT ![s] = SubSeq(line[s], 1, n)]
       /\ line' = [line EXCEPT ![s] = SubSeq(@, n + 1, Len(@))]
  /\ UNCHANGED <<inputs, channel, shakes, side, deferred, stream>>

Looks(s, type) ==
  /\ Driving(s) /\ inbox[s] # <<>> /\ Head(inbox[s]).type = type
  /\ inbox' = [inbox EXCEPT ![s] = Tail(@)]
  /\ UNCHANGED <<inputs, channel, side, stream>>

\* Handshake.on_message, with what the other side derived its key from.
OnPake(s) ==
  /\ Looks(s, "pake")
  /\ IF hs[s] = "pake"
     THEN LET key == DerivedKey(s, Head(inbox[s]).password) IN
            /\ hs' = [hs EXCEPT ![s] = "binding"] /\ keyOf' = [keyOf EXCEPT ![s] = key]
            /\ Sends(s, <<Binding(Tag(s, key))>>)
     ELSE hs' = [hs EXCEPT ![s] = "failed"] /\ UNCHANGED <<keyOf, line>>
  /\ UNCHANGED deferred

\* Faulty variant: what is confirmed is the key alone.
SameKey(mine, theirs) == mine.key = theirs.key

Matches(mine, theirs) == mine = theirs

OnBinding(s) ==
  /\ Looks(s, "binding")
  /\ hs' = [hs EXCEPT ![s] =
       IF @ = "binding" /\ Matches(Tag(s, keyOf[s]), Head(inbox[s]).tag) THEN "confirmed"
       ELSE "failed"]
  /\ UNCHANGED <<keyOf, line, deferred>>

\* Faulty variant: what is no message of the handshake is dropped.
Drops(s) == UNCHANGED deferred

\* Faulty variant: what is kept aside is kept newest first.
DefersFirst(s) == deferred' = [deferred EXCEPT ![s] = <<Head(inbox[s])>> \o @]

Defers(s) == deferred' = [deferred EXCEPT ![s] = Append(@, Head(inbox[s]))]

OnOther(s) ==
  /\ Looks(s, "sealed") /\ Defers(s)
  /\ UNCHANGED <<shakes, line>>

\* The loop looks at the handshake before it looks at the connection again.
Confirmed(s) ==
  /\ Driving(s) /\ hs[s] = "confirmed" /\ inbox[s] = <<>>
  /\ side' = [side EXCEPT ![s] = "session"]
  /\ inbox' = [inbox EXCEPT ![s] = deferred[s]] /\ deferred' = [deferred EXCEPT ![s] = <<>>]
  /\ UNCHANGED <<inputs, channel, shakes, line, stream>>

\* The handshake has failed, 30 s have passed, or the connection is lost.
GivesUpDriving(s) ==
  /\ Driving(s) /\ inbox[s] = <<>>
  /\ side' = [side EXCEPT ![s] = "left"]
  /\ UNCHANGED <<inputs, channel, shakes, line, inbox, deferred, stream>>

-----------------------------------------------------------------------------
\* The loops of the session: a frame is sent; the next message is opened and put together.
SendsFrame(s) ==
  /\ side[s] = "session" /\ sentFrames[s] < Len(FrameSizes)
  /\ sentFrames' = [sentFrames EXCEPT ![s] = @ + 1]
  /\ Sends(s, Chunks(s, sentFrames'[s]))
  /\ UNCHANGED <<inputs, channel, shakes, side, inbox, deferred, assembly, frameLog>>

Receives(s) ==
  /\ side[s] = "session" /\ inbox[s] \o line[s] # <<>>
  /\ IF inbox[s] # <<>>
     THEN inbox' = [inbox EXCEPT ![s] = Tail(@)] /\ UNCHANGED line
     ELSE line' = [line EXCEPT ![s] = Tail(@)] /\ UNCHANGED inbox
  /\ LET m == Head(inbox[s] \o line[s])
         r == Pushed(assembly[s], m) IN
       IF m.type = "sealed"
       THEN /\ assembly' = [assembly EXCEPT ![s] = r.next]
            /\ frameLog' = [frameLog EXCEPT ![s] =
                 IF Opens(s, m.seal) THEN @ \o r.frame ELSE @]
       ELSE UNCHANGED <<assembly, frameLog>>
  /\ UNCHANGED <<inputs, channel, shakes, side, deferred, sentFrames>>

-----------------------------------------------------------------------------
EsInit ==
  /\ passwordOf \in [Side -> Password]
  /\ peerFp \in {f \in [Side -> Fingerprint] : \A s \in Side : f[s] \in {Peer(s), "other"}}
  /\ channel = [s \in Side |-> FALSE] /\ hs = [s \in Side |-> "none"]
  /\ keyOf = [s \in Side |-> NoKey] /\ side = [s \in Side |-> "driving"]
  /\ line = [s \in Side |-> <<>>] /\ inbox = [s \in Side |-> <<>>]
  /\ deferred = [s \in Side |-> <<>>] /\ sentFrames = [s \in Side |-> 0]
  /\ assembly = [s \in Side |-> Fresh] /\ frameLog = [s \in Side |-> <<>>]

EsStep(s) ==
  \/ ChannelOpens(s) \/ StartsHandshake(s) \/ Drains(s) \/ OnPake(s) \/ OnBinding(s) \/ OnOther(s)
  \/ Confirmed(s) \/ GivesUpDriving(s) \/ SendsFrame(s) \/ Receives(s)

EsNext == \E s \in Side : EsStep(s)

EsSpec == EsInit /\ [][EsNext]_esVars

-----------------------------------------------------------------------------
\* The variables of both sides have their types.
EsTypeOK ==
  /\ passwordOf \in [Side -> Password] /\ peerFp \in [Side -> Fingerprint]
  /\ channel \in [Side -> BOOLEAN]
  /\ hs \in [Side -> {"none", "pake", "binding", "confirmed", "failed"}]
  /\ side \in [Side -> {"driving", "session", "left"}]
  /\ DOMAIN keyOf = Side /\ DOMAIN line = Side
  /\ DOMAIN inbox = Side /\ DOMAIN deferred = Side
  /\ sentFrames \in [Side -> 0 .. Len(FrameSizes)]
  /\ assembly \in [Side -> [seq : Nat, count : Nat, got : Nat]]
  /\ frameLog \in [Side -> Seq(Nat)]

(***************************************************************************)
(* A side that has confirmed shares its password with the other, holds the *)
(* key the other derived, both saw each other's real fingerprints, and the *)
(* other never takes the handshake for failed (session.rs: both fail or    *)
(* neither does).                                                          *)
(***************************************************************************)
ConfirmedAgree ==
  \A s \in Side : hs[s] = "confirmed" =>
    /\ passwordOf[s] = passwordOf[Peer(s)] /\ keyOf[s] = keyOf[Peer(s)]
    /\ peerFp[s] = Peer(s) /\ peerFp[Peer(s)] = s
    /\ hs[Peer(s)] # "failed"

(***************************************************************************)
(* Frames arrive whole, in order and from the first one on, however early  *)
(* they are sent: none is lost between the confirmation of one side and of *)
(* the other.                                                              *)
(***************************************************************************)
FramesArrive ==
  \A s \in Side :
    /\ \A i \in DOMAIN frameLog[s] : frameLog[s][i] = i
    /\ side[s] = "session" /\ inbox[s] \o line[s] = <<>> /\ hs[Peer(s)] = "confirmed" =>
         Len(frameLog[s]) = sentFrames[Peer(s)]

Genuine == /\ passwordOf["host"] = passwordOf["controller"]
           /\ \A s \in Side : peerFp[s] = Peer(s)

Verdict == [s \in Side |-> IF hs[s] \in {"confirmed", "failed"} THEN hs[s] ELSE "none"]

Channel == INSTANCE SecureChannel WITH
             genuine <- Genuine, verdict <- Verdict, sent <- sentFrames, got <- frameLog

(***************************************************************************)
(* Whatever the two loops take off the connection at a time, put aside or  *)
(* cut into chunks, the sides keep the promises of SecureChannel: one      *)
(* verdict for both, a session for who is confirmed, and the other side's  *)
(* frames once each and in their order.                                    *)
(***************************************************************************)
ImplementsChannel == Channel!CSpec
=============================================================================
