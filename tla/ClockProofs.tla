------------------------------ MODULE ClockProofs ---------------------------
(***************************************************************************)
(* What must hold as the clock ticks, for any lengths of time.             *)
(*                                                                         *)
(* A session's allocation at the relay outlives it (Relay), for any        *)
(* lifetime, any least interval and any number of nonces.  The invariant   *)
(* is a budget: what is left of the allocation and what has passed since   *)
(* the last refresh together are never less than the lifetime without the  *)
(* time it took to set the session up, and a refresh is due before that    *)
(* is used up.  While a refresh is on its way no time passes, and at most  *)
(* one datagram is.                                                        *)
(*                                                                         *)
(* The server admits a key at most twice the limit in a window's length    *)
(* (RateLimit), for any keys, limit, window and size of the map.  The      *)
(* invariant lays the windows end to end: what was admitted before the     *)
(* running window is at least as old as the window, and all but the last   *)
(* Limit of those are past.                                                *)
(***************************************************************************)
EXTENDS Relay, RateLimit, SequenceTheorems, TLAPS

\* What is on its way: one datagram of a session, sent since the clock last moved.
OneDatagram ==
  /\ relay # "session" => wire = <<>>
  /\ wire # <<>> => Len(wire) = 1 /\ elapsed = 0

Budget ==
  /\ relay = "pending" => left = Lifetime - elapsed /\ elapsed <= SetupTime
  /\ relay = "session" /\ wire = <<>> =>
       elapsed <= RefreshInterval /\ left + elapsed >= Lifetime - SetupTime
  /\ relay = "session" /\ wire # <<>> => left >= Lifetime - SetupTime - RefreshInterval

RlInv == RlTypeOK /\ OneDatagram /\ (~lost => Budget)

\* A refresh is due after some time, and before the budget is used up.
LEMMA RefreshInTime ==
  /\ RefreshInterval \in Nat /\ RefreshInterval > 0
  /\ {Lifetime, SetupTime} \subseteq Nat /\ Lifetime - SetupTime > RefreshInterval
  BY RelayAssumption DEF RefreshInterval, Most

Datagram == [type : {"refresh", "stale"}, nonce : Nat]

\* The first datagram on its way is the only one.
LEMMA OneSent ==
  ASSUME NEW d \in Datagram
  PROVE  /\ Append(<<>>, d) \in Seq(Datagram) /\ Len(Append(<<>>, d)) = 1
         /\ Append(<<>>, d) # <<>> /\ <<>> \in Seq(Datagram)
  BY EmptySeq, AppendProperties

\* Taking the only datagram leaves none; putting another in its place leaves one.
LEMMA OneTaken ==
  ASSUME wire \in Seq(Datagram), Len(wire) = 1, NEW d \in Datagram
  PROVE  /\ Tail(wire) = <<>> /\ Head(wire) \in Datagram
         /\ Append(Tail(wire), d) \in Seq(Datagram) /\ Len(Append(Tail(wire), d)) = 1
         /\ Append(Tail(wire), d) # <<>>
  <1>1. wire # <<>>  BY EmptySeq
  <1>2. Head(wire) \in Datagram /\ Tail(wire) \in Seq(Datagram) /\ Len(Tail(wire)) = Len(wire) - 1
    BY <1>1, HeadTailProperties
  <1>3. Len(Tail(wire)) = 0  BY <1>2
  <1>4. Tail(wire) = <<>>  BY <1>2, <1>3, EmptySeq
  <1> QED  BY <1>2, <1>4, OneSent

LEMMA RlInvInit == RlInit => RlInv
  <1> SUFFICES ASSUME RlInit PROVE RlInv
    OBVIOUS
  <1>1. wire \in Seq(Datagram)  BY EmptySeq DEF RlInit
  <1>2. left \in 0 .. Lifetime  BY RelayAssumption DEF RlInit
  <1>3. RlTypeOK  BY <1>1, <1>2 DEF RlInit, RlTypeOK, Datagram
  <1> QED  BY <1>3 DEF RlInit, RlInv, OneDatagram, Budget

LEMMA RlInvStep == RlInv /\ [RlNext]_rlVars => RlInv'
  <1> SUFFICES ASSUME RlInv, [RlNext]_rlVars PROVE RlInv'
    OBVIOUS
  <1>0. /\ wire \in Seq(Datagram) /\ nonce \in Nat /\ serverNonce \in Nat
        /\ left \in 0 .. Lifetime /\ elapsed \in Nat
    BY DEF RlInv, RlTypeOK, Datagram
  <1> USE RefreshInTime DEF RlInv, RlTypeOK, OneDatagram, Budget, RelayGoes, Relayed
  <1>1. CASE UNCHANGED rlVars  BY <1>1 DEF rlVars
  <1>2. CASE ParsesEndpoint \/ Challenge \/ AllocateFails
    BY <1>2 DEF ParsesEndpoint, Challenge, AllocateFails
  <1>3. CASE Allocates  BY <1>3 DEF Allocates
  <1>4. CASE CreatePermission  BY <1>4 DEF CreatePermission
  <1>5. CASE SessionStarts  BY <1>5 DEF SessionStarts
  <1>6. CASE SessionCloses
    <2>1. wire' = <<>> /\ <<>> \in Seq(Datagram)  BY <1>6 DEF SessionCloses
    <2> QED  BY <1>6, <2>1 DEF SessionCloses, Datagram
  <1>7. CASE RefreshesTurn
    <2>1. wire = <<>> /\ relay = "session"  BY <1>7 DEF RefreshesTurn, RefreshDue
    <2>2. Refresh(nonce) \in Datagram  BY <1>0 DEF Refresh, Datagram
    <2>3. wire' \in Seq(Datagram) /\ Len(wire') = 1 /\ wire' # <<>>
      BY <1>7, <2>1, <2>2, OneSent DEF RefreshesTurn
    <2> QED  BY <1>7, <2>1, <2>3 DEF RefreshesTurn, Datagram
  <1>8. CASE ServerTakesRefresh
    <2>1. Len(wire) = 1 /\ elapsed = 0 /\ relay = "session"  BY <1>8 DEF ServerTakesRefresh
    <2>2. Stale(serverNonce) \in Datagram  BY <1>0 DEF Stale, Datagram
    <2>3. CASE Head(wire).nonce = serverNonce
      <3>1. wire' = <<>> /\ <<>> \in Seq(Datagram)
        BY <1>0, <1>8, <2>1, <2>2, <2>3, OneTaken, OneSent DEF ServerTakesRefresh
      <3> QED  BY <1>8, <2>1, <2>3, <3>1 DEF ServerTakesRefresh, Datagram
    <2>4. CASE Head(wire).nonce # serverNonce
      <3>1. wire' \in Seq(Datagram) /\ Len(wire') = 1 /\ wire' # <<>>
        BY <1>0, <1>8, <2>1, <2>2, <2>4, OneTaken DEF ServerTakesRefresh
      <3> QED  BY <1>8, <2>1, <2>4, <3>1 DEF ServerTakesRefresh, Datagram
    <2> QED  BY <2>3, <2>4
  <1>9. CASE StaleNonce
    <2>1. Len(wire) = 1 /\ elapsed = 0 /\ relay = "session"  BY <1>9 DEF StaleNonce
    <2>2. Refresh(0) \in Datagram  BY DEF Refresh, Datagram
    <2>3. Head(wire).nonce \in Nat  BY <1>0, <2>1, <2>2, OneTaken DEF Datagram
    <2>4. Refresh(Head(wire).nonce) \in Datagram  BY <2>3 DEF Refresh, Datagram
    <2>5. wire' \in Seq(Datagram) /\ Len(wire') = 1 /\ wire' # <<>>
      BY <1>0, <1>9, <2>1, <2>4, OneTaken DEF StaleNonce, RepeatsRefresh
    <2> QED  BY <1>9, <2>1, <2>3, <2>5 DEF StaleNonce, RepeatsRefresh, Datagram
  <1>10. CASE Rotates  BY <1>10 DEF Rotates
  <1>11. CASE LosesDatagram
    <2>1. Len(wire) = 1 /\ relay = "session"  BY <1>11 DEF LosesDatagram
    <2>2. Stale(0) \in Datagram  BY DEF Stale, Datagram
    <2>3. wire' = <<>> /\ <<>> \in Seq(Datagram)
      BY <1>0, <1>11, <2>1, <2>2, OneTaken, OneSent DEF LosesDatagram
    <2> QED  BY <1>11, <2>3 DEF LosesDatagram, Datagram
  <1>12. CASE Tick  BY <1>0, <1>12 DEF Tick, RefreshDue
  <1> QED
    BY <1>1, <1>2, <1>3, <1>4, <1>5, <1>6, <1>7, <1>8, <1>9, <1>10, <1>11, <1>12 DEF RlNext

\* The invariant holds of every behaviour of the relay.
LEMMA RlInvariant == RlSpec => []RlInv
  BY RlInvInit, RlInvStep, PTL DEF RlSpec

(***************************************************************************)
(* The variables of the client and of the server have their types          *)
(* (RlTypeOK).                                                             *)
(***************************************************************************)
THEOREM RelayTypeCorrect == RlSpec => []RlTypeOK
  <1>1. RlInv => RlTypeOK  BY DEF RlInv
  <1> QED  BY <1>1, RlInvariant, PTL

(***************************************************************************)
(* maybe_refresh_turn and the repetition after a stale nonce keep the      *)
(* allocation of a session alive, unless a datagram is lost.               *)
(***************************************************************************)
THEOREM AllocationAlwaysLives == RlSpec => []AllocationLives
  <1>1. RlInv => AllocationLives
    BY RefreshInTime
    DEF RlInv, RlTypeOK, OneDatagram, Budget, AllocationLives, Relayed
  <1> QED  BY <1>1, RlInvariant, PTL

-----------------------------------------------------------------------------
\* The attempts that the running window has admitted.
Admitted(k) == IF count[k] > Limit THEN Limit ELSE count[k]

\* Attempts before the running window are as old as it, those before the last one past;
\* with no window running all but those of one window are.
WindowsInTurn ==
  \A k \in Key, i \in Recent :
    IF remains[k] > 0
    THEN /\ i > Admitted(k) => ages[k][i] + remains[k] >= WindowLen
         /\ i > Admitted(k) + Limit => ages[k][i] = WindowLen
    ELSE i > Limit => ages[k][i] = WindowLen

RtInv == RtTypeOK /\ WindowsInTurn

\* A sweep leaves running windows as they are, and opens none.
LEMMA SweepKeeps ==
  ASSUME RtTypeOK
  PROVE  /\ Kept \in [Key -> NoEntry .. WindowLen]
         /\ \A k \in Key : Kept[k] = remains[k] \/ (Kept[k] = NoEntry /\ remains[k] = 0)
  BY RateAssumption DEF Kept, Sweeps, RtTypeOK, NoEntry

\* Admitting an attempt makes every other attempt one place older.
LEMMA AdmitShifts ==
  ASSUME RtTypeOK, NEW k \in Key, Admit(k)
  PROVE  /\ ages' \in [Key -> [Recent -> 0 .. WindowLen]]
         /\ \A j \in Key, i \in Recent :
              ages'[j][i] = IF j # k THEN ages[j][i] ELSE IF i = 1 THEN 0 ELSE ages[k][i - 1]
  <1>1. ages[k] \in [Recent -> 0 .. WindowLen]  BY DEF RtTypeOK
  <1>2. \A i \in Recent : i # 1 => i - 1 \in Recent  BY RateAssumption DEF Recent
  <1> DEFINE older == [i \in Recent |-> IF i = 1 THEN 0 ELSE ages[k][i - 1]]
  <1>3. older \in [Recent -> 0 .. WindowLen]  BY <1>1, <1>2, RateAssumption
  <1>4. ages' = [ages EXCEPT ![k] = older]  BY DEF Admit
  <1> HIDE DEF older
  <1>5. /\ ages' \in [Key -> [Recent -> 0 .. WindowLen]]
        /\ \A j \in Key : ages'[j] = IF j = k THEN older ELSE ages[j]
    BY <1>3, <1>4 DEF RtTypeOK
  <1> QED  BY <1>5 DEF older

LEMMA RtInvInit == RtInit => RtInv
  BY RateAssumption DEF RtInit, RtInv, RtTypeOK, WindowsInTurn, NoEntry, Recent

LEMMA OpensWindowKeeps ==
  ASSUME RtInv, NEW k \in Key, OpensWindow(k)
  PROVE  RtInv'
  <1>1. ~(remains[k] > 0)  BY SweepKeeps, RateAssumption DEF RtInv, OpensWindow, NoEntry
  <1>2. RtTypeOK'
    <2>1. remains' \in [Key -> NoEntry .. WindowLen] /\ count' \in [Key -> 0 .. Limit + 1]
      BY RateAssumption, SweepKeeps DEF RtInv, RtTypeOK, OpensWindow, NoEntry
    <2>2. ages' \in [Key -> [Recent -> 0 .. WindowLen]]
      BY AdmitShifts DEF RtInv, OpensWindow
    <2>3. ASSUME NEW j \in Key, remains'[j] > 0 PROVE count'[j] > 0
      BY <2>1, <2>3, RateAssumption, SweepKeeps DEF RtInv, RtTypeOK, OpensWindow, NoEntry
    <2> QED  BY <2>1, <2>2, <2>3 DEF RtTypeOK
  <1>3. ASSUME NEW j \in Key, NEW i \in Recent
        PROVE  IF remains'[j] > 0
               THEN /\ i > Admitted(j)' => ages'[j][i] + remains'[j] >= WindowLen
                    /\ i > Admitted(j)' + Limit => ages'[j][i] = WindowLen
               ELSE i > Limit => ages'[j][i] = WindowLen
    <2>1. CASE j = k
      <3>1. remains'[k] = WindowLen /\ count'[k] = 1
        BY SweepKeeps DEF RtInv, RtTypeOK, OpensWindow
      <3>2. i > 1 => i - 1 \in Recent /\ ages'[k][i] = ages[k][i - 1]
        BY AdmitShifts, RateAssumption DEF RtInv, OpensWindow, Recent
      <3>3. i > 1 + Limit => ages'[k][i] = WindowLen
        BY <1>1, <3>2, RateAssumption DEF RtInv, WindowsInTurn, Recent
      <3> QED
        BY <1>2, <2>1, <3>1, <3>3, RateAssumption DEF RtTypeOK, Admitted, Recent
    <2>2. CASE j # k
      <3>1. count'[j] = count[j] /\ ages'[j][i] = ages[j][i] /\ remains'[j] = Kept[j]
        BY <2>2, SweepKeeps, AdmitShifts DEF RtInv, RtTypeOK, OpensWindow
      <3>2. Admitted(j)' = Admitted(j)  BY <3>1 DEF Admitted
      <3>3. /\ remains'[j] > 0 <=> remains[j] > 0
            /\ remains'[j] > 0 => remains'[j] = remains[j]
        BY <3>1, SweepKeeps, RateAssumption DEF RtInv, RtTypeOK, NoEntry
      <3> QED  BY <3>1, <3>2, <3>3 DEF RtInv, WindowsInTurn
    <2> QED  BY <2>1, <2>2
  <1> QED  BY <1>2, <1>3 DEF RtInv, WindowsInTurn

LEMMA CountsHitKeeps ==
  ASSUME RtInv, NEW k \in Key, CountsHit(k)
  PROVE  RtInv'
  <1>1. remains[k] > 0 /\ remains'[k] = remains[k]  BY SweepKeeps, RateAssumption DEF RtInv, RtTypeOK, CountsHit, NoEntry
  <1>2. /\ count' \in [Key -> 0 .. Limit + 1]
        /\ \A j \in Key : count'[j] = IF j = k /\ count[k] <= Limit THEN count[k] + 1 ELSE count[j]
    BY RateAssumption DEF RtInv, RtTypeOK, CountsHit
  <1>3. RtTypeOK'
    <2>1. remains' \in [Key -> NoEntry .. WindowLen]
      BY SweepKeeps DEF RtInv, CountsHit
    <2>2. ages' \in [Key -> [Recent -> 0 .. WindowLen]]
      BY AdmitShifts DEF RtInv, RtTypeOK, CountsHit
    <2>3. ASSUME NEW j \in Key, remains'[j] > 0 PROVE count'[j] > 0
      BY <1>2, <2>3, RateAssumption, SweepKeeps DEF RtInv, RtTypeOK, CountsHit, NoEntry
    <2> QED  BY <1>2, <2>1, <2>2, <2>3 DEF RtTypeOK
  <1>4. ASSUME NEW j \in Key, NEW i \in Recent
        PROVE  IF remains'[j] > 0
               THEN /\ i > Admitted(j)' => ages'[j][i] + remains'[j] >= WindowLen
                    /\ i > Admitted(j)' + Limit => ages'[j][i] = WindowLen
               ELSE i > Limit => ages'[j][i] = WindowLen
    <2>1. CASE j = k /\ count[k] < Limit
      <3>1. Admitted(k) = count[k] /\ Admitted(k)' = count[k] + 1 /\ count[k] \in Nat
        BY <1>2, <2>1, RateAssumption DEF Admitted, RtInv, RtTypeOK
      <3>2. i > 1 => i - 1 \in Recent /\ ages'[k][i] = ages[k][i - 1]
        <4>1. Admit(k) /\ RtTypeOK
          BY <2>1, <3>1, RateAssumption DEF RtInv, CountsHit
        <4> QED  BY <4>1, AdmitShifts, RateAssumption DEF Recent
      <3>3. i > 1 => /\ i - 1 > Admitted(k) => ages[k][i - 1] + remains[k] >= WindowLen
                     /\ i - 1 > Admitted(k) + Limit => ages[k][i - 1] = WindowLen
        BY <1>1, <3>2 DEF RtInv, WindowsInTurn
      <3> QED  BY <1>1, <2>1, <3>1, <3>2, <3>3, RateAssumption DEF Recent
    <2>2. CASE ~(j = k /\ count[k] < Limit)
      <3>1. count \in [Key -> 0 .. Limit + 1]  BY DEF RtInv, RtTypeOK
      <3>2. ages'[j][i] = ages[j][i]
        BY <2>2, <3>1, AdmitShifts, RateAssumption DEF RtInv, CountsHit
      <3>3. Admitted(j)' = Admitted(j)
        BY <1>2, <2>2, <3>1, RateAssumption DEF Admitted
      <3>4. /\ remains'[j] > 0 <=> remains[j] > 0
            /\ remains'[j] > 0 => remains'[j] = remains[j]
        BY SweepKeeps, RateAssumption DEF RtInv, RtTypeOK, CountsHit, NoEntry
      <3> QED  BY <3>2, <3>3, <3>4 DEF RtInv, WindowsInTurn
    <2> QED  BY <2>1, <2>2
  <1> QED  BY <1>3, <1>4 DEF RtInv, WindowsInTurn

LEMMA ClockTickKeeps ==
  ASSUME RtInv, ClockTick
  PROVE  RtInv'
  <1>1. RtTypeOK'  BY RateAssumption DEF RtInv, RtTypeOK, ClockTick, NoEntry
  <1>2. ASSUME NEW k \in Key, NEW i \in Recent
        PROVE  IF remains'[k] > 0
               THEN /\ i > Admitted(k)' => ages'[k][i] + remains'[k] >= WindowLen
                    /\ i > Admitted(k)' + Limit => ages'[k][i] = WindowLen
               ELSE i > Limit => ages'[k][i] = WindowLen
    <2>1. /\ ages[k][i] \in 0 .. WindowLen /\ remains[k] \in NoEntry .. WindowLen
          /\ ages'[k][i] = IF ages[k][i] < WindowLen THEN ages[k][i] + 1 ELSE WindowLen
          /\ remains'[k] = IF remains[k] > 0 THEN remains[k] - 1 ELSE remains[k]
          /\ Admitted(k)' = Admitted(k) /\ Admitted(k) \in 0 .. Limit
      BY RateAssumption DEF RtInv, RtTypeOK, ClockTick, Admitted
    <2>2. IF remains[k] > 0
          THEN /\ i > Admitted(k) => ages[k][i] + remains[k] >= WindowLen
               /\ i > Admitted(k) + Limit => ages[k][i] = WindowLen
          ELSE i > Limit => ages[k][i] = WindowLen
      BY DEF RtInv, WindowsInTurn
    <2> QED  BY <2>1, <2>2, RateAssumption DEF NoEntry, Recent
  <1> QED  BY <1>1, <1>2 DEF RtInv, WindowsInTurn

LEMMA RtInvStep == RtInv /\ [RtNext]_rtVars => RtInv'
  <1> SUFFICES ASSUME RtInv, [RtNext]_rtVars PROVE RtInv'
    OBVIOUS
  <1>1. CASE UNCHANGED rtVars
    BY <1>1 DEF rtVars, RtInv, RtTypeOK, WindowsInTurn, Admitted
  <1> QED  BY <1>1, ClockTickKeeps, OpensWindowKeeps, CountsHitKeeps DEF RtNext

\* The invariant holds of every behaviour of the limiter.
LEMMA RtInvariant == RtSpec => []RtInv
  BY RtInvInit, RtInvStep, PTL DEF RtSpec

(***************************************************************************)
(* The limiter's variables have their types (RtTypeOK).                    *)
(***************************************************************************)
THEOREM LimiterTypeCorrect == RtSpec => []RtTypeOK
  <1>1. RtInv => RtTypeOK  BY DEF RtInv
  <1> QED  BY <1>1, RtInvariant, PTL

(***************************************************************************)
(* check admits a key at most twice the limit in any stretch of a window's *)
(* length, whatever the sweep forgets.                                     *)
(***************************************************************************)
THEOREM AdmittedAtMostTwice == RtSpec => []AtMostTwice
  <1>1. RtInv => AtMostTwice
    <2> SUFFICES ASSUME RtInv, NEW k \in Key PROVE ages[k][2 * Limit + 1] = WindowLen
      BY DEF AtMostTwice
    <2>1. 2 * Limit + 1 \in Recent /\ Admitted(k) \in 0 .. Limit
      BY RateAssumption DEF RtInv, RtTypeOK, Admitted, Recent
    <2> QED  BY <2>1, RateAssumption DEF RtInv, WindowsInTurn
  <1> QED  BY <1>1, RtInvariant, PTL
=============================================================================
