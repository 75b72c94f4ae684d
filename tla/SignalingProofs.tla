-------------------------- MODULE SignalingProofs ---------------------------
(***************************************************************************)
(* Theorems of the signaling endpoint, for any numbers of devices, sockets *)
(* and lookups in progress.  What the endpoint does to the registry is     *)
(* what the registry's own Next allows, so the registry's theorems hold of *)
(* the endpoint; the rest is about who owns which slot.                    *)
(***************************************************************************)
EXTENDS Signaling, RegistryProofs

-----------------------------------------------------------------------------
(***************************************************************************)
(* Types.                                                                  *)
(***************************************************************************)
\* What the endpoint may do to the registry, from the second halves and the messages
\* that need no lookup: a step of Next, or nothing.
LEMMA RegistersStep ==
  ASSUME STypeOK, NEW c \in Conn, NEW call \in calls[c], Registers(c, call)
  PROVE  /\ call.role \in Role
         /\ \/ OldRole(c) = {} /\ GoOnline(call.role, c)
            \/ \E old \in Role : old \in OldRole(c) /\ Reidentify(old, call.role, c)
  <1>1. call \in Call /\ call.type = "register"
    BY DEF Registers, STypeOK
  <1>2. call.role \in Role
    BY <1>1 DEF Call
  <1> QED  BY <1>2 DEF Registers, OldRole

LEMMA ConnectsStep ==
  ASSUME STypeOK, NEW c \in Conn, NEW call \in calls[c], c \in DOMAIN ident, Connects(c, call)
  PROVE  /\ call.target \in Device /\ ident[c] \in Role
         /\ RequestConnect(ident[c], call.target)
         /\ Allowed(c, call.target)
  <1>1. call \in Call /\ call.type = "connect"
    BY DEF Connects, STypeOK
  <1>2. call.target \in Device
    BY <1>1 DEF Call
  <1> QED  BY <1>2 DEF Connects, STypeOK

LEMMA WakesStep ==
  ASSUME STypeOK, NEW c \in Conn, NEW call \in calls[c], Wakes(c, call)
  PROVE  call.target \in Device /\ \E g \in Group : DispatchWake(call.target, g)
  <1>1. call \in Call /\ call.type = "wake"
    BY DEF Wakes, STypeOK
  <1>2. call.target \in Device
    BY <1>1 DEF Call
  <1> QED  BY <1>2 DEF Wakes

\* A lookup that needs an identity is only started by a socket that has one, and no
\* socket loses its identity.
CallersHaveRole ==
  \A c \in Conn : \A call \in calls[c] : call.type # "register" => HasRole(c)

LEMMA BeginStep ==
  ASSUME STypeOK, CallersHaveRole, NEW c \in Conn, NEW call \in Call, Begin(c, call),
         call.type # "register" => HasRole(c)
  PROVE  /\ UNCHANGED vars
         /\ CallersHaveRole'
         /\ calls' \in [Conn -> SUBSET Call] /\ UNCHANGED <<sock, ident, alive, hung>>
  BY DEF Begin, CallersHaveRole, HasRole, STypeOK

LEMMA AnsweredStep ==
  ASSUME STypeOK, CallersHaveRole, NEW c \in Conn, NEW call, Answered(c, call),
         DOMAIN ident \subseteq DOMAIN ident'
  PROVE  CallersHaveRole' /\ calls' \in [Conn -> SUBSET Call]
  BY DEF Answered, CallersHaveRole, HasRole, STypeOK

LEMMA ClosingType ==
  ASSUME STypeOK, NEW C
  PROVE  Closing(C) \in [Conn -> {"open", "closing", "closed"}]
  BY DEF Closing, STypeOK

LEMMA ResumesStep ==
  ASSUME STypeOK, CallersHaveRole, NEW c \in Conn, Resumes(c)
  PROVE  [Next]_vars
  <1> PICK call \in calls[c] :
           \/ RegisterFails(c, call)
           \/ Registers(c, call)
           \/ ConnectDenied(c, call)
           \/ Connects(c, call)
           \/ WakeFails(c, call)
           \/ Wakes(c, call)
    BY DEF Resumes
  <1>1. CASE RegisterFails(c, call) \/ ConnectDenied(c, call) \/ WakeFails(c, call)
    BY <1>1 DEF RegisterFails, ConnectDenied, WakeFails
  <1>2. CASE Registers(c, call)
    BY <1>2, RegistersStep DEF Next
  <1>3. CASE Connects(c, call)
    <2>1. c \in DOMAIN ident
      BY <1>3 DEF Connects, CallersHaveRole, HasRole
    <2> QED  BY <1>3, <2>1, ConnectsStep DEF Next
  <1>4. CASE Wakes(c, call)
    BY <1>4, WakesStep DEF Next
  <1> QED  BY <1>1, <1>2, <1>3, <1>4

\* Every step of the endpoint is a step of the registry, or leaves it alone.
LEMMA RegistryStep ==
  ASSUME STypeOK, CallersHaveRole, [SNext]_svars
  PROVE  [Next]_vars
  <1>1. CASE \E c \in Conn, r \in Role : ReceiveRegister(c, r)
    BY <1>1 DEF ReceiveRegister, Begin
  <1>2. CASE \E c \in Conn, t \in Device : ReceiveConnect(c, t) \/ ReceiveWake(c, t)
    BY <1>2 DEF ReceiveConnect, ReceiveWake, Begin
  <1>3. CASE \E c \in Conn : Resumes(c)
    BY <1>3, ResumesStep
  <1>4. CASE \E c \in Conn, s \in SessionId :
                \/ ReceiveAccept(c, s)
                \/ ReceiveReject(c, s)
                \/ ReceiveSignal(c, s)
                \/ ReceiveClose(c, s)
    <2> PICK c \in Conn, s \in SessionId :
                \/ ReceiveAccept(c, s)
                \/ ReceiveReject(c, s)
                \/ ReceiveSignal(c, s)
                \/ ReceiveClose(c, s)
      BY <1>4
    <2>1. ident[c] \in Role
      BY DEF ReceiveAccept, ReceiveReject, ReceiveSignal, ReceiveClose, Receives, HasRole, STypeOK
    <2> QED
      BY <2>1 DEF ReceiveAccept, ReceiveReject, ReceiveSignal, ReceiveClose, Next
  <1>5. CASE \E c \in Conn : PeerCloses(c) \/ CloseCompletes(c) \/ PeerHangs(c) \/ Pong(c)
    <2> PICK c \in Conn : PeerCloses(c) \/ CloseCompletes(c) \/ PeerHangs(c) \/ Pong(c)
      BY <1>5
    <2>1. CASE OnClose(c)
      <3>1. HoldsSlot(c) => ident[c] \in Role
        BY DEF HoldsSlot, HasRole, STypeOK
      <3> QED  BY <2>1, <3>1 DEF OnClose, Next
    <2>2. CASE PeerHangs(c) \/ Pong(c)
      BY <2>2 DEF PeerHangs, Pong
    <2> QED  BY <2>1, <2>2 DEF PeerCloses, CloseCompletes
  <1>6. CASE Heartbeat
    BY <1>6 DEF Heartbeat
  <1>7. CASE UNCHANGED svars
    BY <1>7 DEF svars
  <1> QED  BY <1>1, <1>2, <1>3, <1>4, <1>5, <1>6, <1>7 DEF SNext

SocketTypeOK ==
  /\ sock \in [Conn -> {"open", "closing", "closed"}]
  /\ DOMAIN ident \subseteq Conn
  /\ ident \in [DOMAIN ident -> Role]
  /\ calls \in [Conn -> SUBSET Call]
  /\ alive \subseteq Conn
  /\ hung \subseteq Conn

LEMMA SocketResumes ==
  ASSUME STypeOK, CallersHaveRole, NEW c \in Conn, Resumes(c)
  PROVE  SocketTypeOK' /\ CallersHaveRole'
  <1> PICK call \in calls[c] :
           \/ RegisterFails(c, call)
           \/ Registers(c, call)
           \/ ConnectDenied(c, call)
           \/ Connects(c, call)
           \/ WakeFails(c, call)
           \/ Wakes(c, call)
    BY DEF Resumes
  <1>1. CASE Registers(c, call)
    <2>1. ident' = Put(ident, c, call.role) /\ call.role \in Role
      BY <1>1, RegistersStep DEF Registers
    <2>2. /\ DOMAIN ident' = DOMAIN ident \cup {c}
          /\ ident' \in [DOMAIN ident' -> Role]
      BY <2>1 DEF Put, STypeOK
    <2>3. CallersHaveRole' /\ calls' \in [Conn -> SUBSET Call]
      BY <1>1, <2>2, AnsweredStep DEF Registers
    <2> QED  BY <1>1, <2>2, <2>3, ClosingType DEF Registers, SocketTypeOK, STypeOK
  <1>2. CASE ~Registers(c, call)
    <2>1. UNCHANGED <<ident, alive, hung>> /\ Answered(c, call)
      BY <1>2 DEF RegisterFails, ConnectDenied, Connects, WakeFails, Wakes
    <2>2. CallersHaveRole' /\ calls' \in [Conn -> SUBSET Call]
      BY <2>1, AnsweredStep
    <2>3. sock' \in [Conn -> {"open", "closing", "closed"}]
      BY <1>2, ClosingType DEF RegisterFails, ConnectDenied, Connects, WakeFails, Wakes, STypeOK
    <2> QED  BY <2>1, <2>2, <2>3 DEF SocketTypeOK, STypeOK
  <1> QED  BY <1>1, <1>2

LEMMA SocketStep ==
  ASSUME STypeOK, CallersHaveRole, [SNext]_svars
  PROVE  SocketTypeOK' /\ CallersHaveRole'
  <1> USE DEF STypeOK, SocketTypeOK
  <1>1. CASE \E c \in Conn, r \in Role : ReceiveRegister(c, r)
    <2> PICK c \in Conn, r \in Role : ReceiveRegister(c, r)
      BY <1>1
    <2>1. [type |-> "register", role |-> r] \in Call
      BY DEF Call
    <2> QED  BY <2>1, BeginStep DEF ReceiveRegister
  <1>2. CASE \E c \in Conn, t \in Device : ReceiveConnect(c, t) \/ ReceiveWake(c, t)
    <2> PICK c \in Conn, t \in Device : ReceiveConnect(c, t) \/ ReceiveWake(c, t)
      BY <1>2
    <2>1. /\ [type |-> "connect", target |-> t] \in Call
          /\ [type |-> "wake", target |-> t] \in Call
      BY DEF Call
    <2> QED  BY <2>1, BeginStep DEF ReceiveConnect, ReceiveWake
  <1>3. CASE \E c \in Conn : Resumes(c)
    BY <1>3, SocketResumes
  <1>4. CASE \E c \in Conn, s \in SessionId :
                \/ ReceiveAccept(c, s)
                \/ ReceiveReject(c, s)
                \/ ReceiveSignal(c, s)
                \/ ReceiveClose(c, s)
    BY <1>4 DEF ReceiveAccept, ReceiveReject, ReceiveSignal, ReceiveClose, Receives,
               socketVars, CallersHaveRole, HasRole
  <1>5. CASE \E c \in Conn : PeerCloses(c) \/ CloseCompletes(c) \/ PeerHangs(c) \/ Pong(c)
    BY <1>5 DEF PeerCloses, CloseCompletes, PeerHangs, Pong, OnClose, CallersHaveRole, HasRole
  <1>6. CASE Heartbeat
    BY <1>6, ClosingType DEF Heartbeat, CallersHaveRole, HasRole
  <1>7. CASE UNCHANGED svars
    BY <1>7 DEF svars, socketVars, CallersHaveRole, HasRole
  <1> QED  BY <1>1, <1>2, <1>3, <1>4, <1>5, <1>6, <1>7 DEF SNext

\* The types of the endpoint's variables; every waiting call that needs an identity has one.
THEOREM SignalingTypeCorrect == SSpec => [](STypeOK /\ CallersHaveRole)
  <1>1. SInit => STypeOK /\ CallersHaveRole
    <2> SUFFICES ASSUME SInit  PROVE STypeOK /\ CallersHaveRole
      OBVIOUS
    <2>1. TypeOK
      BY TypeInit DEF SInit
    <2>2. DOMAIN ident = {} /\ ident \in [DOMAIN ident -> Role]
      BY DEF SInit
    <2> QED  BY <2>1, <2>2 DEF SInit, STypeOK, CallersHaveRole
  <1>2. STypeOK /\ CallersHaveRole /\ [SNext]_svars => (STypeOK /\ CallersHaveRole)'
    <2> SUFFICES ASSUME STypeOK, CallersHaveRole, [SNext]_svars
                 PROVE  STypeOK' /\ CallersHaveRole'
      OBVIOUS
    <2>1. TypeOK'
      BY RegistryStep, TypeStep DEF STypeOK
    <2> QED  BY <2>1, SocketStep DEF STypeOK, SocketTypeOK
  <1> QED  BY <1>1, <1>2, PTL DEF SSpec

\* The endpoint implements the registry: whatever the sockets do, it is driven through
\* its methods only, each on behalf of a role, and all it promises holds.
THEOREM SignalingImplementsRegistry == SSpec => Spec
  <1>1. SInit => Init
    BY DEF SInit
  <1>2. STypeOK /\ CallersHaveRole /\ [SNext]_svars => [Next]_vars
    BY RegistryStep
  <1> QED  BY <1>1, <1>2, SignalingTypeCorrect, PTL DEF SSpec, Spec

-----------------------------------------------------------------------------
(***************************************************************************)
(* Who owns which slot.  MayVacate(q, d) says that role q is online over   *)
(* socket d; these lemmas say what each call makes of it.                  *)
(***************************************************************************)
LEMMA OwnersGoOnline ==
  ASSUME TypeOK, NEW r \in Role, NEW c \in Conn, GoOnline(r, c)
  PROVE  \A q, d : MayVacate(q, d)' <=> IF q = r THEN d = c ELSE MayVacate(q, d)
  <1>1. /\ DOMAIN slot' = DOMAIN slot \cup {r}
        /\ slot'[r].conn = c
        /\ \A q \in DOMAIN slot \ {r} : slot'[q] = slot[q]
    BY DEF GoOnline, Registered, Put
  <1> QED  BY <1>1 DEF MayVacate, Online

LEMMA OwnersGoOffline ==
  ASSUME TypeOK, NEW r \in Role, NEW c \in Conn, GoOffline(r, c)
  PROVE  \A q, d : MayVacate(q, d)' <=> q # r /\ MayVacate(q, d)
  <1>1. /\ DOMAIN slot' = DOMAIN slot \ {r}
        /\ \A q \in DOMAIN slot \ {r} : slot'[q].conn = slot[q].conn
    BY VacatedSlots DEF GoOffline
  <1> QED  BY <1>1 DEF MayVacate, Online

LEMMA OwnersReidentify ==
  ASSUME TypeOK, NEW old \in Role, NEW r \in Role, NEW c \in Conn, Reidentify(old, r, c)
  PROVE  \A q, d : MayVacate(q, d)' <=>
                     IF q = r THEN d = c ELSE q # old /\ MayVacate(q, d)
  <1>1. /\ DOMAIN Vacated(old) = DOMAIN slot \ {old}
        /\ DOMAIN Vacated(old) \subseteq Role
        /\ Vacated(old) \in [DOMAIN Vacated(old) -> SlotEntry]
        /\ \A q \in DOMAIN slot \ {old} : Vacated(old)[q].conn = slot[q].conn
    BY VacatedSlots
  <1>2. /\ DOMAIN slot' = DOMAIN Vacated(old) \cup {r}
        /\ slot'[r].conn = c
        /\ \A q \in DOMAIN Vacated(old) \ {r} : slot'[q] = Vacated(old)[q]
    BY DEF Reidentify, Registered, Put
  <1> QED  BY <1>1, <1>2 DEF MayVacate, Online

\* No other call changes who owns a slot.
OwnersKept == \A q, d : MayVacate(q, d)' <=> MayVacate(q, d)

LEMMA OwnersRequest ==
  ASSUME TypeOK, NEW from \in Role, NEW t \in Device, RequestConnect(from, t)
  PROVE  OwnersKept
  <1> PICK s \in SessionId \ issued : slot' = Joined(Holders(from, t), s)
    BY DEF RequestConnect
  <1>1. /\ DOMAIN Joined(Holders(from, t), s) = DOMAIN slot
        /\ \A r \in DOMAIN slot : Joined(Holders(from, t), s)[r].conn = slot[r].conn
    BY DEF Joined, TypeOK, SlotEntry
  <1> QED  BY <1>1 DEF OwnersKept, MayVacate, Online

LEMMA OwnersEnd ==
  ASSUME TypeOK, NEW s, NEW by, NEW extra, EndSession(s, by, extra)
  PROVE  OwnersKept
  <1>1. slot' = Released(slot, {s}, by)
    BY DEF EndSession
  <1>2. /\ DOMAIN Released(slot, {s}, by) = DOMAIN slot
        /\ \A r \in DOMAIN slot : Released(slot, {s}, by)[r].conn = slot[r].conn
    BY ReleasedSlots DEF TypeOK
  <1> QED  BY <1>1, <1>2 DEF OwnersKept, MayVacate, Online

LEMMA OwnersUnchanged ==
  ASSUME UNCHANGED slot
  PROVE  OwnersKept
  BY DEF OwnersKept, MayVacate, Online

LEMMA OwnersMessage ==
  ASSUME TypeOK, NEW c \in Conn, NEW s \in SessionId,
         \/ ReceiveAccept(c, s)
         \/ ReceiveReject(c, s)
         \/ ReceiveSignal(c, s)
         \/ ReceiveClose(c, s)
  PROVE  OwnersKept /\ UNCHANGED socketVars
  BY OwnersEnd, OwnersUnchanged
     DEF ReceiveAccept, ReceiveReject, ReceiveSignal, ReceiveClose, Receives,
         AcceptConnect, RejectConnect, RelaySignal, CloseSession

\* A registration over socket c leaves c the role r, over no other socket, and takes no
\* other role from anyone but c.
LEMMA OwnersRegisters ==
  ASSUME STypeOK, SlotMatchesSocket, NEW c \in Conn, NEW call \in calls[c], Registers(c, call)
  PROVE  /\ ident' = Put(ident, c, call.role)
         /\ \A q, d : MayVacate(q, d)' <=>
              IF q = call.role THEN d = c ELSE d # c /\ MayVacate(q, d)
  <1>1. \A q : MayVacate(q, c) => q = ident[c] /\ q \in OldRole(c)
    BY DEF MayVacate, Online, SlotMatchesSocket, OldRole, STypeOK, TypeOK
  <1>2. TypeOK /\ ident' = Put(ident, c, call.role)
    BY DEF STypeOK, Registers
  <1>3. CASE OldRole(c) = {} /\ GoOnline(call.role, c)
    <2>1. \A q, d : MayVacate(q, d)' <=> IF q = call.role THEN d = c ELSE MayVacate(q, d)
      BY <1>2, <1>3, RegistersStep, OwnersGoOnline
    <2> QED  BY <1>1, <1>2, <1>3, <2>1
  <1>4. ASSUME NEW old \in OldRole(c), Reidentify(old, call.role, c)
        PROVE  \A q, d : MayVacate(q, d)' <=>
                 IF q = call.role THEN d = c ELSE d # c /\ MayVacate(q, d)
    <2>1. MayVacate(old, c) /\ old = ident[c] /\ old \in Role
      BY DEF OldRole
    <2>2. \A q, d : MayVacate(q, d)' <=>
            IF q = call.role THEN d = c ELSE q # old /\ MayVacate(q, d)
      BY <1>2, <1>4, <2>1, RegistersStep, OwnersReidentify
    <2>3. \A d : MayVacate(old, d) => d = c
      BY <2>1 DEF MayVacate
    <2> QED  BY <1>1, <2>1, <2>2, <2>3
  <1> QED  BY <1>2, <1>3, <1>4, RegistersStep

-----------------------------------------------------------------------------
(***************************************************************************)
(* Every slot belongs to the socket that says so.                          *)
(***************************************************************************)
LEMMA MatchesKept ==
  ASSUME SlotMatchesSocket, UNCHANGED ident, \A q, d : MayVacate(q, d)' => MayVacate(q, d)
  PROVE  SlotMatchesSocket'
  BY DEF SlotMatchesSocket, MayVacate, Online, HasRole

LEMMA MatchesResumes ==
  ASSUME STypeOK, CallersHaveRole, SlotMatchesSocket, NEW c \in Conn, Resumes(c)
  PROVE  SlotMatchesSocket'
  <1> PICK call \in calls[c] :
           \/ RegisterFails(c, call)
           \/ Registers(c, call)
           \/ ConnectDenied(c, call)
           \/ Connects(c, call)
           \/ WakeFails(c, call)
           \/ Wakes(c, call)
    BY DEF Resumes
  <1>1. CASE Registers(c, call)
    <2>1. /\ ident' = Put(ident, c, call.role)
          /\ \A q, d : MayVacate(q, d)' <=>
               IF q = call.role THEN d = c ELSE d # c /\ MayVacate(q, d)
      BY <1>1, OwnersRegisters
    <2>2. /\ DOMAIN ident' = DOMAIN ident \cup {c} /\ ident'[c] = call.role
          /\ \A d \in DOMAIN ident \ {c} : ident'[d] = ident[d]
      BY <2>1 DEF Put
    <2>3. SUFFICES ASSUME NEW r \in DOMAIN slot', NEW d, d = slot'[r].conn
                   PROVE  d \in DOMAIN ident' /\ ident'[d] = r
      BY DEF SlotMatchesSocket, HasRole
    <2>4. MayVacate(r, d)'
      BY <2>3 DEF MayVacate, Online
    <2>5. CASE r = call.role
      BY <2>1, <2>2, <2>4, <2>5
    <2>6. CASE r # call.role
      <3>1. d # c /\ MayVacate(r, d)
        BY <2>1, <2>4, <2>6
      <3> QED  BY <2>2, <3>1 DEF MayVacate, Online, SlotMatchesSocket, HasRole
    <2> QED  BY <2>5, <2>6
  <1>2. CASE Connects(c, call)
    <2>1. c \in DOMAIN ident
      BY <1>2 DEF Connects, CallersHaveRole, HasRole
    <2>2. OwnersKept /\ UNCHANGED ident
      BY <1>2, <2>1, ConnectsStep, OwnersRequest DEF Connects, STypeOK
    <2> QED  BY <2>2, MatchesKept DEF OwnersKept
  <1>3. CASE ~Registers(c, call) /\ ~Connects(c, call)
    <2>1. UNCHANGED <<slot, ident>>
      BY <1>3 DEF RegisterFails, ConnectDenied, WakeFails, Wakes, DispatchWake, vars
    <2> QED  BY <2>1, MatchesKept, OwnersUnchanged DEF OwnersKept
  <1> QED  BY <1>1, <1>2, <1>3

LEMMA OwnersClose ==
  ASSUME STypeOK, NEW c \in Conn, OnClose(c)
  PROVE  /\ UNCHANGED ident
         /\ \A q, d : MayVacate(q, d)' <=> MayVacate(q, d) /\ ~(HasRole(c) /\ d = c /\ q = ident[c])
  <1>1. UNCHANGED ident /\ TypeOK
    BY DEF OnClose, STypeOK
  <1>2. CASE HoldsSlot(c) /\ GoOffline(ident[c], c)
    <2>1. ident[c] \in Role /\ HasRole(c) /\ MayVacate(ident[c], c)
      BY <1>2 DEF HoldsSlot, HasRole, STypeOK
    <2>2. \A q, d : MayVacate(q, d)' <=> q # ident[c] /\ MayVacate(q, d)
      BY <1>1, <1>2, <2>1, OwnersGoOffline
    <2>3. \A d : MayVacate(ident[c], d) => d = c
      BY <2>1 DEF MayVacate
    <2> QED  BY <1>1, <2>1, <2>2, <2>3
  <1>3. CASE ~HoldsSlot(c) /\ UNCHANGED vars
    <2>1. OwnersKept
      BY <1>3, OwnersUnchanged DEF vars
    <2> QED  BY <1>1, <1>3, <2>1 DEF OwnersKept, HoldsSlot
  <1> QED  BY <1>2, <1>3 DEF OnClose

LEMMA MatchesStep ==
  ASSUME STypeOK, CallersHaveRole, SlotMatchesSocket, [SNext]_svars
  PROVE  SlotMatchesSocket'
  <1>1. CASE \E c \in Conn, r \in Role : ReceiveRegister(c, r)
    BY <1>1, MatchesKept, OwnersUnchanged DEF ReceiveRegister, Begin, vars, OwnersKept
  <1>2. CASE \E c \in Conn, t \in Device : ReceiveConnect(c, t) \/ ReceiveWake(c, t)
    BY <1>2, MatchesKept, OwnersUnchanged DEF ReceiveConnect, ReceiveWake, Begin, vars, OwnersKept
  <1>3. CASE \E c \in Conn : Resumes(c)
    BY <1>3, MatchesResumes
  <1>4. CASE \E c \in Conn, s \in SessionId :
                \/ ReceiveAccept(c, s)
                \/ ReceiveReject(c, s)
                \/ ReceiveSignal(c, s)
                \/ ReceiveClose(c, s)
    BY <1>4, OwnersMessage, MatchesKept DEF STypeOK, OwnersKept, socketVars
  <1>5. CASE \E c \in Conn : PeerCloses(c) \/ CloseCompletes(c) \/ PeerHangs(c) \/ Pong(c)
    <2> PICK c \in Conn : PeerCloses(c) \/ CloseCompletes(c) \/ PeerHangs(c) \/ Pong(c)
      BY <1>5
    <2>1. CASE OnClose(c)
      BY <2>1, OwnersClose, MatchesKept
    <2>2. CASE UNCHANGED vars /\ UNCHANGED ident
      BY <2>2, MatchesKept, OwnersUnchanged DEF vars, OwnersKept
    <2> QED  BY <2>1, <2>2 DEF PeerCloses, CloseCompletes, PeerHangs, Pong
  <1>6. CASE Heartbeat
    BY <1>6, MatchesKept, OwnersUnchanged DEF Heartbeat, vars, OwnersKept
  <1>7. CASE UNCHANGED svars
    BY <1>7, MatchesKept, OwnersUnchanged DEF svars, vars, socketVars, OwnersKept
  <1> QED  BY <1>1, <1>2, <1>3, <1>4, <1>5, <1>6, <1>7 DEF SNext

\* Whatever order the registrations of a socket end in, no slot is left under a role its
\* socket has given up.
THEOREM SlotsMatchSockets == SSpec => []SlotMatchesSocket
  <1>1. SInit => SlotMatchesSocket
    <2>1. SInit => DOMAIN slot = {}
      BY DEF SInit, Init
    <2> QED  BY <2>1 DEF SlotMatchesSocket
  <1>2. STypeOK /\ CallersHaveRole /\ SlotMatchesSocket /\ [SNext]_svars => SlotMatchesSocket'
    BY MatchesStep
  <1> QED  BY <1>1, <1>2, SignalingTypeCorrect, PTL DEF SSpec

-----------------------------------------------------------------------------
(***************************************************************************)
(* A closing socket takes its presence with it.                            *)
(***************************************************************************)
\* Only a close event closes a socket.
LEMMA OnlyOnCloseCloses ==
  ASSUME STypeOK, [SNext]_svars, NEW c \in Conn, sock[c] # "closed", sock'[c] = "closed"
  PROVE  OnClose(c)
  <1>1. \A C : Closing(C)[c] # "closed"
    BY DEF Closing
  <1>2. CASE \E d \in Conn : Resumes(d)
    <2> PICK d \in Conn : \E call \in calls[d] :
               \/ RegisterFails(d, call)
               \/ Registers(d, call)
               \/ ConnectDenied(d, call)
               \/ Connects(d, call)
               \/ WakeFails(d, call)
               \/ Wakes(d, call)
      BY <1>2 DEF Resumes
    <2> QED
      BY <1>1 DEF RegisterFails, Registers, ConnectDenied, Connects, WakeFails, Wakes
  <1>3. CASE \E d \in Conn : PeerCloses(d) \/ CloseCompletes(d)
    BY <1>3 DEF PeerCloses, CloseCompletes, OnClose, STypeOK
  <1>4. CASE Heartbeat
    BY <1>1, <1>4 DEF Heartbeat
  <1>5. CASE UNCHANGED sock
    BY <1>5
  <1> QED
    BY <1>2, <1>3, <1>4, <1>5
       DEF SNext, svars, socketVars, ReceiveRegister, ReceiveConnect, ReceiveWake, Begin,
           ReceiveAccept, ReceiveReject, ReceiveSignal, ReceiveClose, Receives, PeerHangs, Pong

\* The step in which a socket becomes closed leaves no slot that points to it.
THEOREM ClosingClears == SSpec => CloseClearsPresence
  <1> DEFINE Clears == \A c \in Conn : sock[c] # "closed" /\ sock'[c] = "closed" =>
                         \A r \in DOMAIN slot' : slot'[r].conn # c
  <1>1. STypeOK /\ CallersHaveRole /\ SlotMatchesSocket /\ [SNext]_svars => Clears
    <2> SUFFICES ASSUME STypeOK, SlotMatchesSocket, [SNext]_svars,
                        NEW c \in Conn, sock[c] # "closed", sock'[c] = "closed"
                 PROVE  \A r \in DOMAIN slot' : slot'[r].conn # c
      OBVIOUS
    <2>1. \A q, d : MayVacate(q, d)' =>
            MayVacate(q, d) /\ ~(HasRole(c) /\ d = c /\ q = ident[c])
      BY OnlyOnCloseCloses, OwnersClose
    <2>2. \A q : MayVacate(q, c) => HasRole(c) /\ q = ident[c]
      BY DEF MayVacate, Online, SlotMatchesSocket
    <2>3. \A q : ~MayVacate(q, c)'
      BY <2>1, <2>2
    <2> QED  BY <2>3 DEF MayVacate, Online
  <1>2. Clears => [Clears]_svars
    OBVIOUS
  <1> QED
    BY <1>1, <1>2, SignalingTypeCorrect, SlotsMatchSockets, PTL DEF SSpec, CloseClearsPresence

-----------------------------------------------------------------------------
(***************************************************************************)
(* A registered socket that is not being closed owns the slot of its role. *)
(***************************************************************************)
\* Nothing but a registration of the role over another socket, which closes this one,
\* takes a slot from an open socket.
LEMMA HoldsKept ==
  ASSUME OpenSocketHoldsItsRole, UNCHANGED ident,
         \A d \in Conn : sock'[d] = "open" => sock[d] = "open",
         \A d \in Conn : sock'[d] = "open" =>
           \A q : MayVacate(q, d) => MayVacate(q, d)'
  PROVE  OpenSocketHoldsItsRole'
  <1> SUFFICES ASSUME NEW d \in Conn, sock'[d] = "open", HasRole(d)',
                      NEW q, q = ident'[d]
               PROVE  MayVacate(q, d)'
    BY DEF OpenSocketHoldsItsRole, MayVacate, Online
  <1>1. HasRole(d) /\ q = ident[d]
    BY DEF HasRole
  <1>2. MayVacate(q, d)
    BY <1>1 DEF OpenSocketHoldsItsRole
  <1> QED  BY <1>2

LEMMA HoldsRegisters ==
  ASSUME STypeOK, SlotMatchesSocket, OpenSocketHoldsItsRole,
         NEW c \in Conn, NEW call \in calls[c], Registers(c, call)
  PROVE  OpenSocketHoldsItsRole'
  <1>1. /\ ident' = Put(ident, c, call.role)
        /\ \A q, d : MayVacate(q, d)' <=>
             IF q = call.role THEN d = c ELSE d # c /\ MayVacate(q, d)
    BY OwnersRegisters
  <1>2. Replaced(call.role, c) \subseteq out'
    BY RegistersStep DEF GoOnline, Reidentify
  <1> SUFFICES ASSUME NEW d \in Conn, sock'[d] = "open", HasRole(d)',
                      NEW q, q = ident'[d]
               PROVE  MayVacate(q, d)'
    BY DEF OpenSocketHoldsItsRole, MayVacate, Online
  <1>3. CASE d = c
    BY <1>1, <1>3 DEF Put
  <1>4. CASE d # c
    <2>1. HasRole(d) /\ q = ident[d]
      BY <1>1, <1>4 DEF Put, HasRole
    <2>2. sock[d] = "open" /\ d \notin {m.to : m \in {n \in out' : n.type = "close"}}
      BY DEF Registers, Closing
    <2>3. MayVacate(q, d)
      BY <2>1, <2>2 DEF OpenSocketHoldsItsRole
    <2>4. q # call.role
      <3> SUFFICES ASSUME q = call.role  PROVE FALSE
        OBVIOUS
      <3>1. [to |-> d, type |-> "close"] \in Replaced(call.role, c)
        BY <1>4, <2>3 DEF Replaced, MayVacate, Online
      <3> QED  BY <1>2, <2>2, <3>1
    <2> QED  BY <1>1, <1>4, <2>3, <2>4
  <1> QED  BY <1>3, <1>4

LEMMA ClosingOpensNone ==
  ASSUME NEW C, NEW d \in Conn, Closing(C)[d] = "open"
  PROVE  sock[d] = "open"
  BY DEF Closing

LEMMA HoldsResumes ==
  ASSUME STypeOK, CallersHaveRole, SlotMatchesSocket, OpenSocketHoldsItsRole,
         NEW c \in Conn, Resumes(c)
  PROVE  OpenSocketHoldsItsRole'
  <1> PICK call \in calls[c] :
           \/ RegisterFails(c, call)
           \/ Registers(c, call)
           \/ ConnectDenied(c, call)
           \/ Connects(c, call)
           \/ WakeFails(c, call)
           \/ Wakes(c, call)
    BY DEF Resumes
  <1>1. CASE Registers(c, call)
    BY <1>1, HoldsRegisters
  <1>2. CASE Connects(c, call)
    <2>1. c \in DOMAIN ident
      BY <1>2 DEF Connects, CallersHaveRole, HasRole
    <2>2. OwnersKept /\ UNCHANGED <<ident, sock>>
      BY <1>2, <2>1, ConnectsStep, OwnersRequest DEF Connects, STypeOK
    <2> QED  BY <2>2, HoldsKept DEF OwnersKept
  <1>3. CASE ~Registers(c, call) /\ ~Connects(c, call)
    <2>1. UNCHANGED <<slot, ident>> /\ (UNCHANGED sock \/ sock' = Closing({c}))
      BY <1>3 DEF RegisterFails, ConnectDenied, WakeFails, Wakes, DispatchWake, vars
    <2> QED  BY <2>1, HoldsKept, OwnersUnchanged, ClosingOpensNone DEF OwnersKept
  <1> QED  BY <1>1, <1>2, <1>3

LEMMA HoldsStep ==
  ASSUME STypeOK, CallersHaveRole, SlotMatchesSocket, OpenSocketHoldsItsRole, [SNext]_svars
  PROVE  OpenSocketHoldsItsRole'
  <1>1. CASE \E c \in Conn : Resumes(c)
    BY <1>1, HoldsResumes
  <1>2. CASE \E c \in Conn : OnClose(c)
    <2> PICK c \in Conn : OnClose(c)
      BY <1>2
    <2>1. /\ UNCHANGED ident
          /\ \A q, d : MayVacate(q, d)' <=> MayVacate(q, d) /\ ~(HasRole(c) /\ d = c /\ q = ident[c])
      BY OwnersClose
    <2>2. sock'[c] = "closed" /\ \A d \in Conn \ {c} : sock'[d] = sock[d]
      BY DEF OnClose, STypeOK
    <2> QED  BY <2>1, <2>2, HoldsKept
  <1>3. CASE \E c \in Conn, s \in SessionId :
                \/ ReceiveAccept(c, s)
                \/ ReceiveReject(c, s)
                \/ ReceiveSignal(c, s)
                \/ ReceiveClose(c, s)
    BY <1>3, OwnersMessage, HoldsKept DEF STypeOK, OwnersKept, socketVars
  <1>4. CASE Heartbeat
    BY <1>4, HoldsKept, OwnersUnchanged, ClosingOpensNone DEF Heartbeat, vars, OwnersKept
  <1>5. CASE UNCHANGED <<slot, sock, ident>>
    BY <1>5, HoldsKept, OwnersUnchanged DEF OwnersKept
  <1> QED
    BY <1>1, <1>2, <1>3, <1>4, <1>5
       DEF SNext, svars, socketVars, vars, ReceiveRegister, ReceiveConnect, ReceiveWake, Begin,
           PeerCloses, CloseCompletes, PeerHangs, Pong

\* No late close of a replaced socket and no change of role takes the slot of an open one.
THEOREM OpenSocketsHoldTheirRoles == SSpec => []OpenSocketHoldsItsRole
  <1>1. SInit => OpenSocketHoldsItsRole
    BY DEF SInit, OpenSocketHoldsItsRole, HasRole
  <1>2. STypeOK /\ CallersHaveRole /\ SlotMatchesSocket /\ OpenSocketHoldsItsRole /\ [SNext]_svars
          => OpenSocketHoldsItsRole'
    BY HoldsStep
  <1> QED  BY <1>1, <1>2, SignalingTypeCorrect, SlotsMatchSockets, PTL DEF SSpec

-----------------------------------------------------------------------------
(***************************************************************************)
(* Nobody the target's lists refuse is ever paired with it.                *)
(***************************************************************************)
\* The sides of a session never change: no step but a request's makes a session.
SidesKept ==
  /\ DOMAIN session' \subseteq DOMAIN session
  /\ \A s \in DOMAIN session' : /\ session'[s].host = session[s].host
                                /\ session'[s].controller = session[s].controller

LEMMA ForgetKeepsSides == ASSUME NEW T, Forget(T)  PROVE SidesKept
  BY DEF Forget, Without, SidesKept

LEMMA AcceptKeepsSides ==
  ASSUME TypeOK, NEW s \in SessionId, NEW by, AcceptConnect(s, by)
  PROVE  SidesKept
  BY DEF AcceptConnect, TypeOK, Session, SidesKept

LEMMA ResumeKeepsSides ==
  ASSUME STypeOK, NEW c \in Conn, NEW call \in calls[c],
         \/ RegisterFails(c, call)
         \/ Registers(c, call)
         \/ ConnectDenied(c, call)
         \/ WakeFails(c, call)
         \/ Wakes(c, call)
  PROVE  SidesKept
  <1>1. CASE Registers(c, call)
    <2>1. UNCHANGED session \/ \E old : Forget(Lost(old))
      BY <1>1, RegistersStep DEF GoOnline, Reidentify
    <2> QED  BY <2>1, ForgetKeepsSides DEF SidesKept
  <1>2. CASE ~Registers(c, call)
    BY <1>2 DEF RegisterFails, ConnectDenied, WakeFails, Wakes, DispatchWake, vars, SidesKept
  <1> QED  BY <1>1, <1>2

LEMMA OthersKeepSides ==
  ASSUME STypeOK, [SNext]_svars, ~ \E c \in Conn : Resumes(c)
  PROVE  SidesKept
  <1>1. CASE \E c \in Conn, s \in SessionId :
                \/ ReceiveAccept(c, s)
                \/ ReceiveReject(c, s)
                \/ ReceiveSignal(c, s)
                \/ ReceiveClose(c, s)
    <2> PICK c \in Conn, s \in SessionId :
                \/ ReceiveAccept(c, s)
                \/ ReceiveReject(c, s)
                \/ ReceiveSignal(c, s)
                \/ ReceiveClose(c, s)
      BY <1>1
    <2>1. \/ AcceptConnect(s, ident[c])
          \/ Forget({s})
          \/ UNCHANGED session
      BY DEF ReceiveAccept, ReceiveReject, ReceiveSignal, ReceiveClose, RejectConnect,
             RelaySignal, CloseSession, EndSession
    <2> QED  BY <2>1, AcceptKeepsSides, ForgetKeepsSides DEF SidesKept, STypeOK
  <1>2. CASE \E c \in Conn : OnClose(c)
    <2>1. UNCHANGED session \/ \E r : Forget(Lost(r))
      BY <1>2 DEF OnClose, GoOffline, vars
    <2> QED  BY <2>1, ForgetKeepsSides DEF SidesKept
  <1>3. CASE UNCHANGED session
    BY <1>3 DEF SidesKept
  <1> QED
    BY <1>1, <1>2, <1>3
       DEF SNext, svars, vars, ReceiveRegister, ReceiveConnect, ReceiveWake, Begin,
           PeerCloses, CloseCompletes, PeerHangs, Pong, Heartbeat

LEMMA BlockedConnects ==
  ASSUME STypeOK, CallersHaveRole, BlockedNeverPaired,
         NEW c \in Conn, NEW call \in calls[c], Connects(c, call)
  PROVE  BlockedNeverPaired'
  <1>1. c \in DOMAIN ident
    BY DEF Connects, CallersHaveRole, HasRole
  <1>2. /\ RequestConnect(ident[c], call.target)
        /\ <<call.target, ident[c][1]>> \notin Blocked
    BY <1>1, ConnectsStep DEF Allowed
  <1> PICK s \in SessionId \ issued :
        session' = Put(session, s, [controller |-> ident[c], host |-> call.target,
                                    status |-> "pending"])
    BY <1>2 DEF RequestConnect
  <1>3. /\ DOMAIN session' = DOMAIN session \cup {s}
        /\ session'[s].host = call.target /\ session'[s].controller = ident[c]
        /\ \A u \in DOMAIN session \ {s} : session'[u] = session[u]
    BY DEF Put
  <1> QED  BY <1>2, <1>3 DEF BlockedNeverPaired

LEMMA BlockedStep ==
  ASSUME STypeOK, CallersHaveRole, BlockedNeverPaired, [SNext]_svars
  PROVE  BlockedNeverPaired'
  <1>1. CASE \E c \in Conn : \E call \in calls[c] : Connects(c, call)
    BY <1>1, BlockedConnects
  <1>2. CASE /\ \E c \in Conn : Resumes(c)
             /\ ~ \E c \in Conn : \E call \in calls[c] : Connects(c, call)
    BY <1>2, ResumeKeepsSides DEF Resumes, SidesKept, BlockedNeverPaired
  <1>3. CASE ~ \E c \in Conn : Resumes(c)
    BY <1>3, OthersKeepSides DEF SidesKept, BlockedNeverPaired
  <1> QED  BY <1>1, <1>2, <1>3

\* Whatever the socket becomes while the lookup of its request is under way.
THEOREM BlockedAreNeverPaired == SSpec => []BlockedNeverPaired
  <1>1. SInit => BlockedNeverPaired
    <2>1. SInit => DOMAIN session = {}
      BY DEF SInit, Init
    <2> QED  BY <2>1 DEF BlockedNeverPaired
  <1>2. STypeOK /\ CallersHaveRole /\ BlockedNeverPaired /\ [SNext]_svars => BlockedNeverPaired'
    BY BlockedStep
  <1> QED  BY <1>1, <1>2, SignalingTypeCorrect, PTL DEF SSpec

-----------------------------------------------------------------------------
(***************************************************************************)
(* What the registry promises, the server that calls it promises: the      *)
(* steps of ws/signaling.ts, with their lookups and late closes, never     *)
(* use the registry in a way that breaks its invariants, the announcement  *)
(* of an end or the bounds of its traffic.                                 *)
(***************************************************************************)
THEOREM ServerKeepsRegistry ==
  SSpec => /\ [](HeldAreLive /\ HostHoldsSession /\ InboundBounded /\ AuditBalanced)
           /\ EndIsAnnounced /\ TrafficStaysInside
  BY SignalingImplementsRegistry, HeldSessionsAreLive, HostCountsEverySession, CapacityRespected,
     AuditIsBalanced, EndsAreAnnounced, NothingLeavesTheSession, PTL

(***************************************************************************)
(* The server is a SessionBroker: over the sockets too, a session is asked *)
(* for once, of a reachable host with room, is accepted at most once, ends *)
(* once and never comes back.                                              *)
(***************************************************************************)
THEOREM ServerImplementsBroker == SSpec => ImplementsBroker
  BY SignalingImplementsRegistry, RegistryImplementsBroker
=============================================================================
