-------------------------------- MODULE Relay -------------------------------
(***************************************************************************)
(* The relay of one side of a session (relay.rs, and its use in            *)
(* connection.rs): an allocation at the TURN server, made before the       *)
(* session is established and kept alive while it lasts.  The requests of  *)
(* the session are sent without waiting; what the server answers is read   *)
(* by the same loop that reads everything else.                            *)
(*                                                                         *)
(* The server keeps an allocation for its lifetime and may at any time     *)
(* change the nonce that requests have to carry.  A datagram arrives       *)
(* within a tick of the clock or is lost.                                  *)
(***************************************************************************)
EXTENDS Naturals, Sequences

CONSTANTS
  Lifetime,     \* 600 s: what the server grants
  MinInterval,  \* 60 s: the least time between two refreshes
  SetupTime,    \* bound of the model: the longest time between allocation and session
  MaxNonce      \* bound of the model: the nonces the server uses

ASSUME RelayAssumption ==
  /\ {Lifetime, MinInterval, SetupTime, MaxNonce} \subseteq Nat /\ MinInterval > 0
  /\ SetupTime + Lifetime \div 2 < Lifetime /\ SetupTime + MinInterval < Lifetime

VARIABLES
  relay,        \* "none", "challenged", "allocating", "direct" (there is none), "pending"
                \* (there is one, the session is being established), "session", "closed"
  nonce,        \* TurnClient.nonce
  serverNonce,  \* the server's
  left,         \* what is left of the allocation's life; 0 without one
  elapsed,      \* refreshed_at.elapsed(); before the session the time since the allocation
  wire,         \* datagrams between the client and the server
  lost,         \* a datagram was lost
  permission    \* the server lets the peer through: "none", "granted", "refused", "expired"

rlVars == <<relay, nonce, serverNonce, left, elapsed, wire, lost, permission>>

-----------------------------------------------------------------------------
Relayed == relay \in {"pending", "session"}

RelayGoes(from, to) == relay = from /\ relay' = to

\* refresh_request_bytes, with the nonce n; and 438 with the server's.
Refresh(n) == [type |-> "refresh", nonce |-> n]
Stale(n)   == [type |-> "stale", nonce |-> n]

Most(a, b) == IF a > b THEN a ELSE b

\* turn_refresh_interval
RefreshInterval == Most(Lifetime \div 2, MinInterval)

RefreshDue == relay = "session" /\ elapsed >= RefreshInterval

-----------------------------------------------------------------------------
(***************************************************************************)
(* setup_relay: two requests that wait 5 s for an answer.  Whatever goes   *)
(* wrong, the session goes on without a relay.                             *)
(***************************************************************************)
\* parse_turn_endpoint: the server that connect_ready names first, over UDP.
ParsesEndpoint ==
  /\ RelayGoes("none", "challenged") \/ RelayGoes("none", "direct")
  /\ UNCHANGED <<nonce, serverNonce, left, elapsed, wire, lost, permission>>

\* 401, with a realm and a nonce.
Challenge ==
  /\ RelayGoes("challenged", "allocating")
  /\ nonce' = serverNonce
  /\ UNCHANGED <<serverNonce, left, elapsed, wire, lost, permission>>

\* The second request: it is rejected when the nonce is stale already.
Allocates ==
  /\ RelayGoes("allocating", "pending") /\ nonce = serverNonce
  /\ left' = Lifetime /\ elapsed' = 0
  /\ UNCHANGED <<nonce, serverNonce, wire, lost, permission>>

\* No answer, another one, or a rejection.
AllocateFails ==
  /\ RelayGoes("challenged", "direct") \/ RelayGoes("allocating", "direct")
  /\ UNCHANGED <<nonce, serverNonce, left, elapsed, wire, lost, permission>>

\* create_permission, for the address the peer sent; it waits for the answer and is not
\* repeated when the nonce is stale.
CreatePermission ==
  /\ relay = "pending"
  /\ permission' \in {"refused"} \cup IF nonce = serverNonce THEN {"granted"} ELSE {}
  /\ UNCHANGED <<relay, nonce, serverNonce, left, elapsed, wire, lost>>

-----------------------------------------------------------------------------
(***************************************************************************)
(* The session.                                                            *)
(***************************************************************************)
SessionStarts ==
  /\ RelayGoes("pending", "session") /\ elapsed' = 0
  /\ UNCHANGED <<nonce, serverNonce, left, wire, lost, permission>>

\* The session ends, or was never established; the allocation is left to expire.
SessionCloses ==
  /\ relay \in {"direct", "pending", "session"} /\ relay' = "closed"
  /\ left' = 0 /\ wire' = <<>>
  /\ UNCHANGED <<nonce, serverNonce, elapsed, lost, permission>>

\* maybe_refresh_turn
RefreshesTurn ==
  /\ RefreshDue /\ elapsed' = 0
  /\ wire' = Append(wire, Refresh(nonce))
  /\ UNCHANGED <<relay, nonce, serverNonce, left, lost, permission>>

\* The server: an allocation that is there lives on if the nonce is its own.
ServerTakesRefresh ==
  /\ wire # <<>> /\ Head(wire).type = "refresh"
  /\ IF Head(wire).nonce = serverNonce
     THEN /\ left' = IF left > 0 THEN Lifetime ELSE 0
          /\ wire' = Tail(wire)
     ELSE wire' = Append(Tail(wire), Stale(serverNonce)) /\ UNCHANGED left
  /\ UNCHANGED <<relay, nonce, serverNonce, elapsed, lost, permission>>

\* Faulty variant: the next refresh will carry the new nonce.
AwaitsNextRefresh(n) == nonce' = n /\ wire' = Tail(wire)

\* set_nonce, and the request is sent again at once.
RepeatsRefresh(n) == nonce' = n /\ wire' = Append(Tail(wire), Refresh(n))

\* recv_one, on a 438 (parse_from_server).
StaleNonce ==
  /\ Relayed /\ wire # <<>> /\ Head(wire).type = "stale"
  /\ RepeatsRefresh(Head(wire).nonce)
  /\ UNCHANGED <<relay, serverNonce, left, elapsed, lost, permission>>

-----------------------------------------------------------------------------
Rotates ==
  /\ serverNonce < MaxNonce /\ serverNonce' = serverNonce + 1
  /\ UNCHANGED <<relay, nonce, left, elapsed, wire, lost, permission>>

LosesDatagram ==
  /\ wire # <<>> /\ wire' = Tail(wire) /\ lost' = TRUE
  /\ UNCHANGED <<relay, nonce, serverNonce, left, elapsed, permission>>

\* A second, or whatever the unit is.  The loop comes round often enough to send a refresh
\* that is due, and what is on its way arrives.  A permission lasts 300 s at the server, less
\* than an allocation, and nothing renews it: from some tick on it is over.
Tick ==
  /\ Relayed /\ wire = <<>> /\ ~RefreshDue
  /\ relay = "pending" => elapsed < SetupTime
  /\ elapsed' = elapsed + 1
  /\ left' = IF left > 0 THEN left - 1 ELSE 0
  /\ permission' \in {permission} \cup IF permission = "granted" THEN {"expired"} ELSE {}
  /\ UNCHANGED <<relay, nonce, serverNonce, wire, lost>>

-----------------------------------------------------------------------------
RlInit ==
  /\ relay = "none" /\ nonce = 0 /\ serverNonce = 1 /\ left = 0 /\ elapsed = 0
  /\ wire = <<>> /\ lost = FALSE /\ permission = "none"

RlNext ==
  \/ ParsesEndpoint \/ Challenge \/ Allocates \/ AllocateFails \/ CreatePermission
  \/ SessionStarts \/ SessionCloses \/ RefreshesTurn \/ ServerTakesRefresh \/ StaleNonce
  \/ Rotates \/ LosesDatagram \/ Tick

RlSpec == RlInit /\ [][RlNext]_rlVars

-----------------------------------------------------------------------------
\* The variables of the client and of the server have their types.
RlTypeOK ==
  /\ relay \in {"none", "challenged", "allocating", "direct", "pending", "session", "closed"}
  /\ nonce \in Nat /\ serverNonce \in Nat
  /\ left \in 0 .. Lifetime /\ elapsed \in Nat
  /\ wire \in Seq([type : {"refresh", "stale"}, nonce : Nat]) /\ lost \in BOOLEAN
  /\ permission \in {"none", "granted", "refused", "expired"}

(***************************************************************************)
(* While a session lasts its allocation does too, however often the server *)
(* changes its nonce and however late the session was established, unless  *)
(* a datagram is lost: requests are not repeated (connection.rs:215, a     *)
(* long session does not die with its allocation).                         *)
(***************************************************************************)
AllocationLives == Relayed /\ ~lost => left > 0
=============================================================================
