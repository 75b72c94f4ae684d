---------------------------- MODULE SessionHost ----------------------------
(***************************************************************************)
(* What a controlled machine promises its owner, without a network or      *)
(* frames: it serves one session after another.  A request is taken up     *)
(* while nothing else is; in attended mode only the person's yes to the    *)
(* dialog about it leads on to a session; whoever gets in knows the code   *)
(* that is on display (or the permanent password, if the request was for   *)
(* that); nothing captures the screen unless a session is hosted; and the  *)
(* code is never changed under a request, never taken back.                *)
(*                                                                         *)
(* It does not promise that the session that gets in is the one that was   *)
(* taken up, nor that each session uses up its code: see the two runs of   *)
(* HostServe that refute those.                                            *)
(***************************************************************************)
EXTENDS Naturals, Sequences

CONSTANTS
  SessionId,     \* the sessions
  HasPermanent   \* whether the owner has set a permanent password

VARIABLES
  phase,      \* "free", "asking" the person, "settingUp", "hosting" or "stopped"
  inHand,     \* the session whose request was taken up
  code,       \* the one-time code on display
  attended,   \* whether the person is to be asked
  request,    \* of each session that was asked for: the kind of password, the secret typed
  asked,      \* the sessions the person was asked about
  said,       \* <<dialog, yes or no>>: the person's answers
  capturing,  \* whether anything holds the capture of the screen
  guests      \* <<code, session>>: who got in by a one-time code

hvars == <<phase, inHand, code, attended, request, asked, said, capturing, guests>>
outside == <<attended, request, said>>

HInit ==
  /\ phase = "free" /\ inHand = "none" /\ code = 1 /\ attended \in BOOLEAN
  /\ request = [s \in {} |-> {}] /\ asked = <<>> /\ said = {}
  /\ capturing = FALSE /\ guests = {}

Acceptable(s) ==
  s \in DOMAIN request /\ (request[s].kind = "one_time" \/ HasPermanent)

\* The machine turns to a request, in attended mode with a dialog.
TakesUp(s, p) ==
  /\ phase = "free" /\ Acceptable(s)
  /\ phase' = p /\ inHand' = s
  /\ UNCHANGED <<code, outside, capturing, guests>>

Asks(s)  == TakesUp(s, "asking") /\ attended /\ asked' = Append(asked, s)
Takes(s) == TakesUp(s, "settingUp") /\ ~attended /\ UNCHANGED asked

Agrees ==
  /\ phase = "asking" /\ <<Len(asked), TRUE>> \in said
  /\ phase' = "settingUp"
  /\ UNCHANGED <<inHand, code, outside, asked, capturing, guests>>

GivesUp ==
  /\ phase \in {"asking", "settingUp"}
  /\ phase' = "free" /\ inHand' = "none"
  /\ UNCHANGED <<code, outside, asked, capturing, guests>>

\* The secret that counts is the one the request in hand is for.
ByCode == request[inHand].kind = "one_time"

LetsIn(s) ==
  /\ phase = "settingUp" /\ ~capturing
  /\ s \in DOMAIN request /\ request[s].secret = IF ByCode THEN code ELSE 0
  /\ phase' = "hosting" /\ capturing' = TRUE
  /\ guests' = IF ByCode THEN guests \cup {<<code, s>>} ELSE guests
  /\ UNCHANGED <<inHand, code, outside, asked>>

Ends ==
  /\ phase = "hosting"
  /\ phase' = "free" /\ inHand' = "none" /\ capturing' = FALSE
  /\ code' \in {code, code + 1}
  /\ UNCHANGED <<outside, asked, guests>>

NewCode ==
  /\ phase = "free" /\ code' = code + 1
  /\ UNCHANGED <<phase, inHand, outside, asked, capturing, guests>>

Stops ==
  /\ phase = "free" /\ phase' = "stopped"
  /\ UNCHANGED <<inHand, code, outside, asked, capturing, guests>>

\* A controller asks, once for each session, with a code that was shown.
Requests(s) ==
  /\ s \notin DOMAIN request
  /\ \E r \in {[kind |-> "permanent", secret |-> 0]}
              \cup {[kind |-> "one_time", secret |-> c] : c \in 1 .. code} :
       request' = [t \in DOMAIN request \cup {s} |-> IF t = s THEN r ELSE request[t]]
  /\ UNCHANGED <<phase, inHand, code, attended, asked, said, capturing, guests>>

\* The person answers a dialog, once, and may do so when it is of no use any more.
Says(rid, allow) ==
  /\ rid \in DOMAIN asked /\ \A b \in BOOLEAN : <<rid, b>> \notin said
  /\ said' = said \cup {<<rid, allow>>}
  /\ UNCHANGED <<phase, inHand, code, attended, request, asked, capturing, guests>>

Switches ==
  /\ attended' = ~attended
  /\ UNCHANGED <<phase, inHand, code, request, asked, said, capturing, guests>>

HNext ==
  \/ \E s \in SessionId : Asks(s) \/ Takes(s) \/ LetsIn(s) \/ Requests(s)
  \/ Agrees \/ GivesUp \/ Ends \/ NewCode \/ Stops
  \/ \E rid \in DOMAIN asked, allow \in BOOLEAN : Says(rid, allow)
  \/ Switches

HSpec == HInit /\ [][HNext]_hvars
=============================================================================
