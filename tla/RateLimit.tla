----------------------------- MODULE RateLimit ------------------------------
(***************************************************************************)
(* The server's fixed-window rate limiter (lib/ratelimit.ts), which stands *)
(* before sign-up, login and connect_request.  Time is a clock that ticks; *)
(* a window is kept as the ticks that remain of it.  Of the attempts that  *)
(* were admitted the model keeps the ages of the last 2 * Limit + 1.       *)
(***************************************************************************)
EXTENDS Integers, FiniteSets

CONSTANTS
  Key,       \* addresses or devices
  Limit,     \* limit
  WindowLen, \* windowMs, in ticks
  MaxKeys    \* maxKeys

ASSUME RateAssumption == Limit \in Nat \ {0} /\ WindowLen \in Nat \ {0} /\ MaxKeys \in Nat

VARIABLES
  remains,   \* resetAt - now of each key in hits, 0 once it is past; NoEntry without one
  count,     \* count; beyond the limit it is the first number beyond it
  ages       \* how long ago each key's last attempts were admitted, the latest first, in
             \* ticks; WindowLen stands for all that is as old, and for no attempt

rtVars == <<remains, count, ages>>

NoEntry == -1

Hits == {k \in Key : remains[k] # NoEntry}

\* Faulty variant: the whole map is cleared.
ForgetsAll(l) == [k \in Key |-> NoEntry]

Sweeps(l) == [k \in Key |-> IF l[k] = 0 THEN NoEntry ELSE l[k]]

Full == Cardinality(Hits) > MaxKeys

\* The windows after the sweep at the head of check.
Kept == IF Full THEN Sweeps(remains) ELSE remains

-----------------------------------------------------------------------------
Recent == 1 .. 2 * Limit + 1

Admit(k) ==
  ages' = [ages EXCEPT ![k] = [i \in Recent |-> IF i = 1 THEN 0 ELSE ages[k][i - 1]]]

\* check, of a key that has no running window.
OpensWindow(k) ==
  /\ Kept[k] \in {NoEntry, 0}
  /\ remains' = [Kept EXCEPT ![k] = WindowLen] /\ count' = [count EXCEPT ![k] = 1]
  /\ Admit(k)

\* check, within a window.
CountsHit(k) ==
  /\ Kept[k] > 0
  /\ remains' = Kept
  /\ count' = [count EXCEPT ![k] = IF @ > Limit THEN @ ELSE @ + 1]
  /\ IF count[k] + 1 > Limit THEN UNCHANGED ages ELSE Admit(k)

ClockTick ==
  /\ remains' = [k \in Key |-> IF remains[k] > 0 THEN remains[k] - 1 ELSE remains[k]]
  /\ ages' = [k \in Key |->
       [i \in Recent |-> IF ages[k][i] < WindowLen THEN ages[k][i] + 1 ELSE WindowLen]]
  /\ UNCHANGED count

RtInit ==
  /\ remains = [k \in Key |-> NoEntry] /\ count = [k \in Key |-> 0]
  /\ ages = [k \in Key |-> [i \in Recent |-> WindowLen]]

RtNext == ClockTick \/ \E k \in Key : OpensWindow(k) \/ CountsHit(k)

RtSpec == RtInit /\ [][RtNext]_rtVars

-----------------------------------------------------------------------------
(***************************************************************************)
(* The variables have their types, and a running window has counted the    *)
(* attempt that opened it.                                                 *)
(***************************************************************************)
RtTypeOK ==
  /\ remains \in [Key -> NoEntry..WindowLen] /\ count \in [Key -> 0..Limit + 1]
  /\ ages \in [Key -> [Recent -> 0..WindowLen]]
  /\ \A k \in Key : remains[k] > 0 => count[k] > 0

(***************************************************************************)
(* However the windows lie and whenever the map is swept, in no stretch of *)
(* a window's length does a key get more than twice the limit: of 2 *      *)
(* Limit + 1 attempts the first is past when the last is admitted.  The    *)
(* sweep that other keys bring about gives a key no new window.            *)
(***************************************************************************)
AtMostTwice == \A k \in Key : ages[k][2 * Limit + 1] = WindowLen
=============================================================================
