---------------------------- MODULE SecureChannel ---------------------------
(***************************************************************************)
(* What the two sides of a session promise each other, without messages,   *)
(* keys or chunks.  Each side judges once whether the other one is who it  *)
(* should be; only a side that was satisfied enters the session; and a     *)
(* side gets the frames the other one sent, each once and in their order.  *)
(***************************************************************************)
EXTENDS Naturals, Sequences

CONSTANT Side

VARIABLES
  genuine,   \* both have the same password, and each was told the other's own fingerprint
  verdict,   \* what each side found: "none" yet, "confirmed" or "failed"
  side,      \* each side is "driving" at the session, in the "session", or has "left"
  sent,      \* how many frames each has sent
  got        \* the frames each has got

cvars == <<genuine, verdict, side, sent, got>>

CInit ==
  /\ genuine \in BOOLEAN
  /\ verdict = [s \in Side |-> "none"] /\ side = [s \in Side |-> "driving"]
  /\ sent = [s \in Side |-> 0] /\ got = [s \in Side |-> <<>>]

\* A verdict is about what both sides have, so that they cannot come to different ones.
Judges(s) ==
  /\ side[s] = "driving" /\ verdict[s] = "none"
  /\ verdict' = [verdict EXCEPT ![s] = IF genuine THEN "confirmed" ELSE "failed"]
  /\ UNCHANGED <<genuine, side, sent, got>>

Enters(s) ==
  /\ side[s] = "driving" /\ verdict[s] = "confirmed"
  /\ side' = [side EXCEPT ![s] = "session"]
  /\ UNCHANGED <<genuine, verdict, sent, got>>

Leaves(s) ==
  /\ side[s] = "driving"
  /\ side' = [side EXCEPT ![s] = "left"]
  /\ UNCHANGED <<genuine, verdict, sent, got>>

Sends(s) ==
  /\ side[s] = "session"
  /\ sent' = [sent EXCEPT ![s] = @ + 1]
  /\ UNCHANGED <<genuine, verdict, side, got>>

\* The next frame that another side has sent.
Gets(s) ==
  /\ side[s] = "session"
  /\ \E p \in Side \ {s} : Len(got[s]) < sent[p]
  /\ got' = [got EXCEPT ![s] = Append(@, Len(@) + 1)]
  /\ UNCHANGED <<genuine, verdict, side, sent>>

CNext == \E s \in Side : Judges(s) \/ Enters(s) \/ Leaves(s) \/ Sends(s) \/ Gets(s)

CSpec == CInit /\ [][CNext]_cvars
=============================================================================
