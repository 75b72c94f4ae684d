--------------------------- MODULE RegistryProofs ---------------------------
(***************************************************************************)
(* Theorems of the registry, for any sets of devices, sockets and session  *)
(* ids and any capacity.                                                   *)
(***************************************************************************)
EXTENDS Registry, FiniteSetTheorems, SequenceTheorems, TLAPS

-----------------------------------------------------------------------------
(***************************************************************************)
(* Facts about the operators.                                              *)
(***************************************************************************)
\* What taking sessions out of slots leaves of a slot table.
LEMMA ReleasedSlots ==
  ASSUME NEW sl, NEW T, NEW actor,
         DOMAIN sl \subseteq Role, sl \in [DOMAIN sl -> SlotEntry]
  PROVE  LET R == Released(sl, T, actor) IN
         /\ DOMAIN R = DOMAIN sl
         /\ R \in [DOMAIN sl -> SlotEntry]
         /\ \A r \in DOMAIN sl :
              /\ R[r].conn = sl[r].conn
              /\ R[r].sessions = sl[r].sessions \ {s \in T : r \in Sides(s)}
  <1>1. \A r \in DOMAIN sl : sl[r] \in SlotEntry
    OBVIOUS
  <1>2. \A r \in DOMAIN sl :
          Released(sl, T, actor)[r]
            = [sl[r] EXCEPT !.sessions = sl[r].sessions \ {s \in T : r \in Sides(s)}]
    BY DEF Released
  <1>3. ASSUME NEW r \in DOMAIN sl
        PROVE  /\ Released(sl, T, actor)[r].conn = sl[r].conn
               /\ Released(sl, T, actor)[r].sessions = sl[r].sessions \ {s \in T : r \in Sides(s)}
               /\ Released(sl, T, actor)[r] \in SlotEntry
    <2> DEFINE gone == {s \in T : r \in Sides(s)}
               e    == sl[r]
    <2>1. e \in [conn : Conn, sessions : SUBSET SessionId]
      BY <1>1 DEF SlotEntry
    <2>2. Released(sl, T, actor)[r] = [e EXCEPT !.sessions = e.sessions \ gone]
      BY <1>2
    <2> HIDE DEF gone, e
    <2>3. LET n == [e EXCEPT !.sessions = e.sessions \ gone] IN
            /\ n.conn = e.conn
            /\ n.sessions = e.sessions \ gone
            /\ n \in [conn : Conn, sessions : SUBSET SessionId]
      BY <2>1
    <2> QED  BY <2>2, <2>3 DEF gone, e, SlotEntry
  <1> QED  BY <1>3 DEF Released

\* Removing a role from a slot table, and registering one.
LEMMA WithoutSlots ==
  ASSUME NEW sl, NEW S, DOMAIN sl \subseteq Role, sl \in [DOMAIN sl -> SlotEntry]
  PROVE  LET W == Without(sl, S) IN
         /\ DOMAIN W = DOMAIN sl \ S
         /\ W \in [DOMAIN W -> SlotEntry]
         /\ \A r \in DOMAIN W : W[r] = sl[r]
  BY DEF Without

LEMMA RegisteredSlots ==
  ASSUME NEW sl, NEW r \in Role, NEW c \in Conn,
         DOMAIN sl \subseteq Role, sl \in [DOMAIN sl -> SlotEntry]
  PROVE  LET R == Registered(sl, r, c) IN
         /\ DOMAIN R = DOMAIN sl \cup {r}
         /\ DOMAIN R \subseteq Role
         /\ R \in [DOMAIN R -> SlotEntry]
         /\ R[r].conn = c
         /\ R[r].sessions = Inherited(sl, r)
         /\ \A q \in DOMAIN sl \ {r} : R[q] = sl[q]
  <1>1. Inherited(sl, r) \subseteq SessionId
    BY DEF Inherited, SlotEntry
  <1>2. [conn |-> c, sessions |-> Inherited(sl, r)] \in SlotEntry
    BY <1>1 DEF SlotEntry
  <1> QED  BY <1>2 DEF Registered, Put

\* What offline leaves of the slot table.
LEMMA VacatedSlots ==
  ASSUME NEW r, TypeOK
  PROVE  /\ DOMAIN Vacated(r) = DOMAIN slot \ {r}
         /\ DOMAIN Vacated(r) \subseteq Role
         /\ Vacated(r) \in [DOMAIN Vacated(r) -> SlotEntry]
         /\ \A q \in DOMAIN slot \ {r} :
              /\ Vacated(r)[q].conn = slot[q].conn
              /\ Vacated(r)[q].sessions = slot[q].sessions \ {s \in Lost(r) : q \in Sides(s)}
  <1> DEFINE W == Without(slot, {r})
  <1>1. /\ DOMAIN W = DOMAIN slot \ {r}
        /\ W \in [DOMAIN W -> SlotEntry]
        /\ \A q \in DOMAIN W : W[q] = slot[q]
    BY WithoutSlots DEF TypeOK
  <1>2. DOMAIN W \subseteq Role
    BY <1>1 DEF TypeOK
  <1> HIDE DEF W
  <1>3. LET R == Released(W, Lost(r), r) IN
         /\ DOMAIN R = DOMAIN W
         /\ R \in [DOMAIN W -> SlotEntry]
         /\ \A q \in DOMAIN W :
              /\ R[q].conn = W[q].conn
              /\ R[q].sessions = W[q].sessions \ {s \in Lost(r) : q \in Sides(s)}
    BY <1>1, <1>2, ReleasedSlots
  <1> QED  BY <1>1, <1>2, <1>3 DEF Vacated, W

\* The frames a call sends have the type of messages.
LEMMA FramesAreMessages ==
  ASSUME TypeOK, NEW R, NEW s \in SessionId,
         NEW type \in {"incoming_request", "connect_ready", "connect_err", "signal", "session_close"}
  PROVE  Frames(R, type, s) \subseteq Message
  <1> SUFFICES ASSUME NEW r \in R, Online(r)
               PROVE  [to |-> slot[r].conn, type |-> type, sid |-> s] \in Message
    BY DEF Frames
  <1>1. slot[r].conn \in Conn
    BY DEF TypeOK, Online, SlotEntry
  <1> QED  BY <1>1 DEF Message

LEMMA NoticesAreMessages ==
  ASSUME TypeOK, NEW T \in SUBSET DOMAIN session, NEW actor
  PROVE  Notices(T, actor) \subseteq Message
  <1> SUFFICES ASSUME NEW s \in T
               PROVE  Frames(Sides(s) \ {actor}, "session_close", s) \subseteq Message
    BY DEF Notices
  <1>1. s \in SessionId
    BY DEF TypeOK
  <1> QED  BY <1>1, FramesAreMessages

LEMMA ReplacedAreMessages ==
  ASSUME TypeOK, NEW r, NEW c
  PROVE  Replaced(r, c) \subseteq Message
  <1> SUFFICES ASSUME Online(r)
               PROVE  [to |-> slot[r].conn, type |-> "close"] \in Message
    BY DEF Replaced
  <1>1. slot[r].conn \in Conn
    BY DEF TypeOK, Online, SlotEntry
  <1> QED  BY <1>1 DEF Message

\* Forgetting sessions keeps the types of the session table and of the audit log.
LEMMA ForgetType ==
  ASSUME TypeOK, NEW T, Forget(T)
  PROVE  /\ DOMAIN session' = DOMAIN session \ T
         /\ \A s \in DOMAIN session' : session'[s] = session[s]
         /\ session' \in [DOMAIN session' -> Session]
         /\ hooks' \in [SessionId -> Seq({"start", "end"})]
  <1>1. /\ DOMAIN session' = DOMAIN session \ T
        /\ \A s \in DOMAIN session' : session'[s] = session[s]
        /\ session' \in [DOMAIN session' -> Session]
    BY DEF Forget, Without, TypeOK
  <1>2. \A s \in SessionId : Append(hooks[s], "end") \in Seq({"start", "end"})
    BY DEF TypeOK
  <1>3. hooks' \in [SessionId -> Seq({"start", "end"})]
    BY <1>2 DEF Forget, Ended, TypeOK
  <1> QED  BY <1>1, <1>3

-----------------------------------------------------------------------------
(***************************************************************************)
(* Type correctness.                                                       *)
(***************************************************************************)
LEMMA TypeInit == Init => TypeOK
  BY DEF Init, TypeOK

LEMMA TypeGoOnline ==
  ASSUME TypeOK, NEW r \in Role, NEW c \in Conn, GoOnline(r, c)
  PROVE  TypeOK'
  <1>1. /\ DOMAIN slot' \subseteq Role
        /\ slot' \in [DOMAIN slot' -> SlotEntry]
    BY RegisteredSlots DEF TypeOK, GoOnline
  <1>2. out' \subseteq Message
    BY ReplacedAreMessages DEF GoOnline
  <1> QED  BY <1>1, <1>2 DEF TypeOK, GoOnline

LEMMA TypeGoOffline ==
  ASSUME TypeOK, NEW r \in Role, NEW c \in Conn, GoOffline(r, c)
  PROVE  TypeOK'
  <1>1. /\ DOMAIN slot' \subseteq Role
        /\ slot' \in [DOMAIN slot' -> SlotEntry]
    BY VacatedSlots DEF GoOffline
  <1>2. /\ DOMAIN session' \subseteq SessionId
        /\ session' \in [DOMAIN session' -> Session]
        /\ hooks' \in [SessionId -> Seq({"start", "end"})]
    BY ForgetType DEF GoOffline, TypeOK
  <1>3. out' \subseteq Message
    BY NoticesAreMessages DEF GoOffline, Lost
  <1> QED  BY <1>1, <1>2, <1>3 DEF TypeOK, GoOffline

LEMMA TypeReidentify ==
  ASSUME TypeOK, NEW old \in Role, NEW r \in Role, NEW c \in Conn, Reidentify(old, r, c)
  PROVE  TypeOK'
  <1>1. /\ DOMAIN Vacated(old) \subseteq Role
        /\ Vacated(old) \in [DOMAIN Vacated(old) -> SlotEntry]
    BY VacatedSlots
  <1>2. /\ DOMAIN slot' \subseteq Role
        /\ slot' \in [DOMAIN slot' -> SlotEntry]
    BY <1>1, RegisteredSlots DEF Reidentify
  <1>3. /\ DOMAIN session' \subseteq SessionId
        /\ session' \in [DOMAIN session' -> Session]
        /\ hooks' \in [SessionId -> Seq({"start", "end"})]
    BY ForgetType DEF Reidentify, TypeOK
  <1>4. Notices(Lost(old), old) \subseteq Message
    BY NoticesAreMessages DEF Lost
  <1>5. out' \subseteq Message
    BY <1>4, ReplacedAreMessages DEF Reidentify
  <1> QED  BY <1>2, <1>3, <1>5 DEF TypeOK, Reidentify

\* The slot table after a request: session s is added to the slots of both its sides.
LEMMA JoinedSlots ==
  ASSUME TypeOK, NEW H, NEW s \in SessionId
  PROVE  LET J == Joined(H, s) IN
         /\ DOMAIN J = DOMAIN slot
         /\ J \in [DOMAIN slot -> SlotEntry]
         /\ \A r \in DOMAIN slot :
              /\ J[r].conn = slot[r].conn
              /\ J[r].sessions = IF r \in H THEN slot[r].sessions \cup {s} ELSE slot[r].sessions
  <1> DEFINE J == Joined(H, s)
  <1>1. ASSUME NEW r \in DOMAIN slot
        PROVE  /\ J[r] \in SlotEntry
               /\ J[r].conn = slot[r].conn
               /\ J[r].sessions = IF r \in H THEN slot[r].sessions \cup {s} ELSE slot[r].sessions
    <2> DEFINE e == slot[r]
    <2>1. e \in [conn : Conn, sessions : SUBSET SessionId]
      BY DEF TypeOK, SlotEntry
    <2>2. J[r] = IF r \in H THEN [e EXCEPT !.sessions = e.sessions \cup {s}] ELSE e
      BY DEF Joined
    <2> HIDE DEF e, J
    <2>3. LET n == [e EXCEPT !.sessions = e.sessions \cup {s}] IN
            /\ n.conn = e.conn
            /\ n.sessions = e.sessions \cup {s}
            /\ n \in [conn : Conn, sessions : SUBSET SessionId]
      BY <2>1
    <2>4. /\ J[r] \in [conn : Conn, sessions : SUBSET SessionId]
          /\ J[r].conn = e.conn
          /\ J[r].sessions = IF r \in H THEN e.sessions \cup {s} ELSE e.sessions
      BY <2>1, <2>2, <2>3
    <2> QED  BY <2>4 DEF e, SlotEntry
  <1>2. DOMAIN J = DOMAIN slot
    BY DEF Joined
  <1>3. J = [r \in DOMAIN slot |-> J[r]]
    BY DEF Joined
  <1> QED  BY <1>1, <1>2, <1>3

\* Nor does a request change the socket of any slot.
LEMMA JoinedSockets ==
  ASSUME TypeOK, NEW H, NEW s \in SessionId
  PROVE  /\ DOMAIN Joined(H, s) = DOMAIN slot
         /\ \A r \in DOMAIN slot : Joined(H, s)[r].conn = slot[r].conn
  <1>1. DOMAIN Joined(H, s) = DOMAIN slot
    BY DEF Joined
  <1>2. ASSUME NEW r \in DOMAIN slot
        PROVE  Joined(H, s)[r].conn = slot[r].conn
    <2>1. slot[r] \in [conn : Conn, sessions : SUBSET SessionId]
      BY DEF TypeOK, SlotEntry
    <2>2. Joined(H, s)[r] = IF r \in H THEN [slot[r] EXCEPT !.sessions = slot[r].sessions \cup {s}]
                           ELSE slot[r]
      BY DEF Joined
    <2>3. [slot[r] EXCEPT !.sessions = slot[r].sessions \cup {s}].conn = slot[r].conn
      BY <2>1
    <2> QED  BY <2>2, <2>3
  <1> QED  BY <1>1, <1>2

LEMMA TypeRequestConnect ==
  ASSUME TypeOK, NEW from \in Role, NEW t \in Device, RequestConnect(from, t)
  PROVE  TypeOK'
  <1> PICK s \in SessionId \ issued :
        /\ issued' = issued \cup {s}
        /\ session' = Put(session, s, [controller |-> from, host |-> t, status |-> "pending"])
        /\ slot' = Joined(Holders(from, t), s)
        /\ out' = Frames({Host(t)}, "incoming_request", s)
        /\ UNCHANGED hooks
    BY DEF RequestConnect
  <1>1. /\ DOMAIN slot' \subseteq Role
        /\ slot' \in [DOMAIN slot' -> SlotEntry]
    BY JoinedSlots DEF TypeOK
  <1>2. [controller |-> from, host |-> t, status |-> "pending"] \in Session
    BY DEF Session
  <1>3. /\ DOMAIN session' \subseteq SessionId
        /\ session' \in [DOMAIN session' -> Session]
    BY <1>2 DEF TypeOK, Put
  <1>4. out' \subseteq Message
    BY FramesAreMessages
  <1> QED  BY <1>1, <1>3, <1>4 DEF TypeOK

LEMMA TypeAcceptConnect ==
  ASSUME TypeOK, NEW s \in SessionId, NEW by \in Role, AcceptConnect(s, by)
  PROVE  TypeOK'
  <1>1. session[s] \in Session
    BY DEF AcceptConnect, MayAccept, Live, TypeOK
  <1>2. [session[s] EXCEPT !.status = "ready"] \in Session
    BY <1>1 DEF Session
  <1>3. /\ DOMAIN session' \subseteq SessionId
        /\ session' \in [DOMAIN session' -> Session]
    BY <1>2 DEF AcceptConnect, TypeOK
  <1>4. Append(hooks[s], "start") \in Seq({"start", "end"})
    BY DEF TypeOK
  <1>5. hooks' \in [SessionId -> Seq({"start", "end"})]
    BY <1>4 DEF AcceptConnect, TypeOK
  <1>6. out' \subseteq Message
    BY FramesAreMessages DEF AcceptConnect
  <1> QED  BY <1>3, <1>5, <1>6 DEF AcceptConnect, TypeOK

LEMMA TypeEndSession ==
  ASSUME TypeOK, NEW s \in DOMAIN session, NEW by \in Role, NEW extra \in SUBSET Message,
         EndSession(s, by, extra)
  PROVE  TypeOK'
  <1>1. /\ DOMAIN slot' \subseteq Role
        /\ slot' \in [DOMAIN slot' -> SlotEntry]
    BY ReleasedSlots DEF EndSession, TypeOK
  <1>2. /\ DOMAIN session' \subseteq SessionId
        /\ session' \in [DOMAIN session' -> Session]
        /\ hooks' \in [SessionId -> Seq({"start", "end"})]
    BY ForgetType DEF EndSession, TypeOK
  <1>3. Notices({s}, by) \subseteq Message
    BY NoticesAreMessages
  <1> QED  BY <1>1, <1>2, <1>3 DEF EndSession, TypeOK

LEMMA TypeStep == TypeOK /\ [Next]_vars => TypeOK'
  <1> SUFFICES ASSUME TypeOK, [Next]_vars
               PROVE  TypeOK'
    OBVIOUS
  <1>1. CASE \E r \in Role, c \in Conn : GoOnline(r, c)
    BY <1>1, TypeGoOnline
  <1>2. CASE \E r \in Role, c \in Conn : GoOffline(r, c)
    BY <1>2, TypeGoOffline
  <1>3. CASE \E old, r \in Role, c \in Conn : Reidentify(old, r, c)
    BY <1>3, TypeReidentify
  <1>4. CASE \E from \in Role, t \in Device : RequestConnect(from, t)
    BY <1>4, TypeRequestConnect
  <1>5. CASE \E s \in SessionId, by \in Role : AcceptConnect(s, by)
    BY <1>5, TypeAcceptConnect
  <1>6. ASSUME NEW s \in SessionId, NEW by \in Role, RejectConnect(s, by)
        PROVE  TypeOK'
    <2>1. Frames({session[s].controller}, "connect_err", s) \subseteq Message
      BY FramesAreMessages
    <2> QED  BY <1>6, <2>1, TypeEndSession DEF RejectConnect, Live
  <1>7. ASSUME NEW s \in SessionId, NEW by \in Role, RelaySignal(s, by)
        PROVE  TypeOK'
    <2>1. out' \subseteq Message
      BY <1>7, FramesAreMessages DEF RelaySignal
    <2> QED  BY <1>7, <2>1 DEF RelaySignal, TypeOK
  <1>8. CASE \E s \in SessionId, by \in Role : CloseSession(s, by)
    BY <1>8, TypeEndSession DEF CloseSession, Live
  <1>9. ASSUME NEW t \in Device, NEW g \in Group, DispatchWake(t, g)
        PROVE  TypeOK'
    <2>1. ASSUME NEW r \in Wakers(t, g)
          PROVE  [to |-> slot[r].conn, type |-> "wake_dispatch", dev |-> r[1]] \in Message
      <3>1. PICK d \in Device \ {t} : r \in HelperOf(d, g)
        BY DEF Wakers
      <3>2. r \in {Host(d), <<d, "controller">>} /\ Helps(r, g)
        BY <3>1 DEF HelperOf
      <3>3. r \in Role /\ Online(r)
        BY <3>2 DEF Helps, Host, Role, Kind
      <3>4. slot[r].conn \in Conn /\ r[1] \in Device
        BY <3>3 DEF TypeOK, Online, SlotEntry, Role
      <3> QED  BY <3>4 DEF Message
    <2>2. out' \subseteq Message
      BY <1>9, <2>1 DEF DispatchWake
    <2> QED  BY <1>9, <2>2 DEF DispatchWake, TypeOK
  <1>10. CASE UNCHANGED vars
    BY <1>10 DEF vars, TypeOK
  <1> QED
    BY <1>1, <1>2, <1>3, <1>4, <1>5, <1>6, <1>7, <1>8, <1>9, <1>10 DEF Next

\* The types of the registry's tables hold in every reachable state.
THEOREM TypeCorrect == Spec => []TypeOK
  BY TypeInit, TypeStep, PTL DEF Spec

-----------------------------------------------------------------------------
(***************************************************************************)
(* The two tables agree, and the capacity is respected.  HeldAreLive,      *)
(* HostHoldsSession and InboundBounded need each other: the code checks    *)
(* the size of the host's slot, which bounds its inbound sessions because  *)
(* the slot holds all of them.  LiveAreIssued makes a new id new, and      *)
(* HeldFinite gives the cardinalities a meaning.                           *)
(***************************************************************************)
LiveAreIssued == DOMAIN session \subseteq issued

HeldFinite == \A r \in DOMAIN slot : IsFiniteSet(slot[r].sessions)

IndexInv ==
  /\ HeldAreLive
  /\ HostHoldsSession
  /\ LiveAreIssued
  /\ HeldFinite
  /\ InboundBounded

LEMMA InboundFinite ==
  ASSUME TypeOK, IndexInv, NEW d \in Device
  PROVE  IsFiniteSet(Inbound(d))
  <1>1. CASE Online(Host(d))
    <2>1. Inbound(d) \subseteq slot[Host(d)].sessions
      BY DEF IndexInv, HostHoldsSession, Inbound
    <2> QED  BY <1>1, <2>1, FS_Subset DEF IndexInv, HeldFinite, Online
  <1>2. CASE ~Online(Host(d))
    <2>1. Inbound(d) = {}
      BY <1>2 DEF IndexInv, HostHoldsSession, Inbound
    <2> QED  BY <2>1, FS_EmptySet
  <1> QED  BY <1>1, <1>2

\* Fewer inbound sessions stay within the capacity.
LEMMA FewerInbound ==
  ASSUME TypeOK, IndexInv, \A d \in Device : Inbound(d)' \subseteq Inbound(d)
  PROVE  InboundBounded'
  <1> SUFFICES ASSUME NEW d \in Device
               PROVE  Cardinality(Inbound(d)') <= MaxInbound
    BY DEF InboundBounded
  <1>1. IsFiniteSet(Inbound(d))
    BY InboundFinite
  <1>2. /\ IsFiniteSet(Inbound(d)')
        /\ Cardinality(Inbound(d)') <= Cardinality(Inbound(d))
    BY <1>1, FS_Subset
  <1>3. Cardinality(Inbound(d)) \in Nat /\ Cardinality(Inbound(d)') \in Nat
    BY <1>1, <1>2, FS_CardinalityType
  <1> QED  BY <1>2, <1>3, MaxInboundAssumption DEF IndexInv, InboundBounded

LEMMA IndexInit == Init => IndexInv
  <1> SUFFICES ASSUME Init  PROVE IndexInv
    OBVIOUS
  <1>1. DOMAIN slot = {} /\ DOMAIN session = {}
    BY DEF Init
  <1>2. HeldAreLive /\ HostHoldsSession /\ LiveAreIssued /\ HeldFinite
    BY <1>1 DEF HeldAreLive, HostHoldsSession, LiveAreIssued, HeldFinite
  <1>3. \A d \in Device : Inbound(d) = {}
    BY <1>1 DEF Inbound
  <1>4. InboundBounded
    BY <1>3, FS_EmptySet, MaxInboundAssumption DEF InboundBounded
  <1> QED  BY <1>2, <1>4 DEF IndexInv

(***************************************************************************)
(* Every action that ends sessions: T are forgotten, the slots that remain *)
(* lose exactly those of T they are sides of or are new and empty, and the *)
(* host of a session that stays keeps its slot.                            *)
(***************************************************************************)
LEMMA IndexEnd ==
  ASSUME TypeOK, IndexInv, NEW T \in SUBSET DOMAIN session, Forget(T), UNCHANGED issued,
         \A q \in DOMAIN slot' :
           \/ slot'[q].sessions = {}
           \/ /\ q \in DOMAIN slot
              /\ slot'[q].sessions = slot[q].sessions \ {s \in T : q \in Sides(s)},
         \A s \in DOMAIN session \ T :
           /\ Host(session[s].host) \in DOMAIN slot'
           /\ slot'[Host(session[s].host)].sessions
                = slot[Host(session[s].host)].sessions
                    \ {u \in T : Host(session[s].host) \in Sides(u)}
  PROVE  IndexInv'
  <1>1. /\ DOMAIN session' = DOMAIN session \ T
        /\ \A s \in DOMAIN session' : session'[s] = session[s]
    BY ForgetType
  <1>2. \A s \in DOMAIN session' : Sides(s)' = Sides(s)
    BY <1>1 DEF Sides
  <1>3. HeldAreLive'
    <2> SUFFICES ASSUME NEW q \in DOMAIN slot', NEW s \in slot'[q].sessions
                 PROVE  s \in DOMAIN session' /\ q \in Sides(s)'
      BY DEF HeldAreLive, Live
    <2>1. /\ q \in DOMAIN slot
          /\ s \in slot[q].sessions
          /\ ~(s \in T /\ q \in Sides(s))
      OBVIOUS
    <2>2. s \in DOMAIN session /\ q \in Sides(s)
      BY <2>1 DEF IndexInv, HeldAreLive, Live
    <2> QED  BY <1>1, <1>2, <2>1, <2>2
  <1>4. HostHoldsSession'
    BY <1>1 DEF IndexInv, HostHoldsSession, Online
  <1>5. LiveAreIssued'
    BY <1>1 DEF IndexInv, LiveAreIssued
  <1>6. HeldFinite'
    BY FS_EmptySet, FS_Subset DEF IndexInv, HeldFinite
  <1>7. \A d \in Device : Inbound(d)' \subseteq Inbound(d)
    BY <1>1 DEF Inbound
  <1>8. InboundBounded'
    BY <1>7, FewerInbound
  <1> QED  BY <1>3, <1>4, <1>5, <1>6, <1>8 DEF IndexInv

\* offline may lose a role only together with every session of that role's slot.
LEMMA SurvivorsHost ==
  ASSUME TypeOK, IndexInv, NEW r, NEW s \in DOMAIN session \ Lost(r), Online(r)
  PROVE  /\ Host(session[s].host) # r
         /\ Host(session[s].host) \in DOMAIN slot
  BY DEF IndexInv, HostHoldsSession, Lost, Online

LEMMA IndexGoOnline ==
  ASSUME TypeOK, IndexInv, NEW r \in Role, NEW c \in Conn, GoOnline(r, c)
  PROVE  IndexInv'
  <1>1. /\ DOMAIN slot' = DOMAIN slot \cup {r}
        /\ slot'[r].sessions = Inherited(slot, r)
        /\ \A q \in DOMAIN slot \ {r} : slot'[q] = slot[q]
    <2>1. slot' = Registered(slot, r, c)
      BY DEF GoOnline
    <2> QED  BY <2>1 DEF Registered, Put
  <1>2. /\ \A q \in DOMAIN slot : slot'[q].sessions = slot[q].sessions
        /\ r \notin DOMAIN slot => slot'[r].sessions = {}
    BY <1>1 DEF Inherited
  <1>3. UNCHANGED <<session, issued>>
    BY DEF GoOnline
  <1>4. \A s : Sides(s)' = Sides(s)
    BY <1>3 DEF Sides
  <1>5. HeldAreLive'
    BY <1>1, <1>2, <1>3, <1>4 DEF IndexInv, HeldAreLive, Live
  <1>6. HostHoldsSession'
    BY <1>1, <1>2, <1>3 DEF IndexInv, HostHoldsSession, Online
  <1>7. LiveAreIssued'
    BY <1>3 DEF IndexInv, LiveAreIssued
  <1>8. HeldFinite'
    BY <1>1, <1>2, FS_EmptySet DEF IndexInv, HeldFinite
  <1>9. InboundBounded'
    BY <1>3 DEF IndexInv, InboundBounded, Inbound
  <1> QED  BY <1>5, <1>6, <1>7, <1>8, <1>9 DEF IndexInv

LEMMA IndexGoOffline ==
  ASSUME TypeOK, IndexInv, NEW r \in Role, NEW c \in Conn, GoOffline(r, c)
  PROVE  IndexInv'
  <1>1. /\ DOMAIN slot' = DOMAIN slot \ {r}
        /\ \A q \in DOMAIN slot \ {r} :
             slot'[q].sessions = slot[q].sessions \ {s \in Lost(r) : q \in Sides(s)}
    BY VacatedSlots DEF GoOffline
  <1>2. \A s \in DOMAIN session \ Lost(r) :
          Host(session[s].host) # r /\ Host(session[s].host) \in DOMAIN slot
    BY SurvivorsHost DEF GoOffline, MayVacate
  <1>3. Lost(r) \in SUBSET DOMAIN session
    BY DEF Lost
  <1> QED  BY <1>1, <1>2, <1>3, IndexEnd DEF GoOffline

LEMMA IndexReidentify ==
  ASSUME TypeOK, IndexInv, NEW old \in Role, NEW r \in Role, NEW c \in Conn,
         Reidentify(old, r, c)
  PROVE  IndexInv'
  <1>1. /\ DOMAIN Vacated(old) = DOMAIN slot \ {old}
        /\ DOMAIN Vacated(old) \subseteq Role
        /\ Vacated(old) \in [DOMAIN Vacated(old) -> SlotEntry]
        /\ \A q \in DOMAIN slot \ {old} :
             Vacated(old)[q].sessions = slot[q].sessions \ {s \in Lost(old) : q \in Sides(s)}
    BY VacatedSlots
  <1>2. /\ DOMAIN slot' = DOMAIN Vacated(old) \cup {r}
        /\ slot'[r].sessions = Inherited(Vacated(old), r)
        /\ \A q \in DOMAIN Vacated(old) \ {r} : slot'[q] = Vacated(old)[q]
    <2>1. slot' = Registered(Vacated(old), r, c)
      BY DEF Reidentify
    <2> QED  BY <2>1 DEF Registered, Put
  <1>3. /\ \A q \in DOMAIN slot \ {old} :
             /\ q \in DOMAIN slot'
             /\ slot'[q].sessions = slot[q].sessions \ {s \in Lost(old) : q \in Sides(s)}
        /\ \A q \in DOMAIN slot' : q \notin DOMAIN slot \ {old} => slot'[q].sessions = {}
    BY <1>1, <1>2 DEF Inherited
  <1>4. \A s \in DOMAIN session \ Lost(old) :
          Host(session[s].host) # old /\ Host(session[s].host) \in DOMAIN slot
    BY SurvivorsHost DEF Reidentify, MayVacate
  <1>5. Lost(old) \in SUBSET DOMAIN session
    BY DEF Lost
  <1> QED  BY <1>3, <1>4, <1>5, IndexEnd DEF Reidentify

LEMMA IndexEndSession ==
  ASSUME TypeOK, IndexInv, NEW s \in DOMAIN session, NEW by, NEW extra,
         EndSession(s, by, extra)
  PROVE  IndexInv'
  <1>1. /\ DOMAIN slot' = DOMAIN slot
        /\ \A q \in DOMAIN slot :
             slot'[q].sessions = slot[q].sessions \ {u \in {s} : q \in Sides(u)}
    BY ReleasedSlots DEF EndSession, TypeOK
  <1>2. \A u \in DOMAIN session \ {s} : Host(session[u].host) \in DOMAIN slot
    BY DEF IndexInv, HostHoldsSession, Online
  <1> QED  BY <1>1, <1>2, IndexEnd DEF EndSession

LEMMA IndexRequestConnect ==
  ASSUME TypeOK, IndexInv, NEW from \in Role, NEW t \in Device, RequestConnect(from, t)
  PROVE  IndexInv'
  <1> PICK s \in SessionId \ issued :
        /\ issued' = issued \cup {s}
        /\ session' = Put(session, s, [controller |-> from, host |-> t, status |-> "pending"])
        /\ slot' = Joined(Holders(from, t), s)
    BY DEF RequestConnect
  <1>0. Online(Host(t)) /\ HasRoom(t)
    BY DEF RequestConnect
  <1>1. /\ DOMAIN slot' = DOMAIN slot
        /\ \A r \in DOMAIN slot :
             slot'[r].sessions
               = IF r \in {from, Host(t)} THEN slot[r].sessions \cup {s} ELSE slot[r].sessions
    BY JoinedSlots, SMTT(30) DEF Holders
  <1>2. /\ s \notin DOMAIN session
        /\ DOMAIN session' = DOMAIN session \cup {s}
        /\ session'[s].controller = from /\ session'[s].host = t
        /\ \A u \in DOMAIN session : session'[u] = session[u]
    BY DEF IndexInv, LiveAreIssued, Put
  <1>3. Sides(s)' = {from, Host(t)} /\ \A u \in DOMAIN session : Sides(u)' = Sides(u)
    BY <1>2 DEF Sides
  <1>4. HeldAreLive'
    <2> SUFFICES ASSUME NEW q \in DOMAIN slot, NEW u \in slot'[q].sessions
                 PROVE  u \in DOMAIN session' /\ q \in Sides(u)'
      BY <1>1 DEF HeldAreLive, Live
    <2>1. CASE u \in slot[q].sessions
      <3>1. u \in DOMAIN session /\ q \in Sides(u)
        BY <2>1 DEF IndexInv, HeldAreLive, Live
      <3> QED  BY <1>2, <1>3, <3>1
    <2>2. CASE u \notin slot[q].sessions
      <3>1. u = s /\ q \in {from, Host(t)}
        BY <1>1, <2>2
      <3> QED  BY <1>2, <1>3, <3>1
    <2> QED  BY <2>1, <2>2
  <1>5. HostHoldsSession'
    <2> SUFFICES ASSUME NEW u \in DOMAIN session'
                 PROVE  /\ Host(session'[u].host) \in DOMAIN slot'
                        /\ u \in slot'[Host(session'[u].host)].sessions
      BY DEF HostHoldsSession, Online
    <2>1. CASE u = s
      BY <1>0, <1>1, <1>2, <2>1 DEF Online
    <2>2. CASE u \in DOMAIN session
      <3>1. /\ Host(session[u].host) \in DOMAIN slot
            /\ u \in slot[Host(session[u].host)].sessions
        BY <2>2 DEF IndexInv, HostHoldsSession, Online
      <3> QED  BY <1>1, <1>2, <2>2, <3>1
    <2> QED  BY <1>2, <2>1, <2>2
  <1>6. LiveAreIssued'
    BY <1>2 DEF IndexInv, LiveAreIssued
  <1>7. HeldFinite'
    <2>1. \A r \in DOMAIN slot : IsFiniteSet(slot[r].sessions)
                                /\ IsFiniteSet(slot[r].sessions \cup {s})
      BY FS_AddElement DEF IndexInv, HeldFinite
    <2>2. \A r \in DOMAIN slot : slot'[r].sessions = slot[r].sessions
                                \/ slot'[r].sessions = slot[r].sessions \cup {s}
      BY <1>1
    <2> QED  BY <1>1, <2>1, <2>2 DEF HeldFinite
  <1>8. ASSUME NEW d \in Device
        PROVE  Cardinality(Inbound(d)') <= MaxInbound
    <2>1. CASE d # t
      <3>1. Inbound(d)' = Inbound(d)
        BY <1>2, <2>1 DEF Inbound
      <3> QED  BY <3>1 DEF IndexInv, InboundBounded
    <2>2. CASE d = t
      <3>1. Inbound(d)' = Inbound(d) \cup {s}
        BY <1>2, <2>2 DEF Inbound
      <3>2. Inbound(d) \subseteq slot[Host(t)].sessions
        BY <2>2 DEF IndexInv, HostHoldsSession, Inbound
      <3>3. IsFiniteSet(slot[Host(t)].sessions)
        BY <1>0 DEF IndexInv, HeldFinite, Online
      <3>4. /\ IsFiniteSet(Inbound(d))
            /\ Cardinality(Inbound(d)) <= Cardinality(slot[Host(t)].sessions)
        BY <3>2, <3>3, FS_Subset
      <3>5. s \notin Inbound(d)
        BY <1>2 DEF Inbound
      <3>6. Cardinality(Inbound(d) \cup {s}) = Cardinality(Inbound(d)) + 1
        BY <3>4, <3>5, FS_AddElement
      <3>7. Cardinality(Inbound(d)) \in Nat /\ Cardinality(slot[Host(t)].sessions) \in Nat
        BY <3>3, <3>4, FS_CardinalityType
      <3>8. Cardinality(slot[Host(t)].sessions) < MaxInbound
        BY <1>0 DEF HasRoom
      <3> QED  BY <3>1, <3>4, <3>6, <3>7, <3>8, MaxInboundAssumption
    <2> QED  BY <2>1, <2>2
  <1>9. InboundBounded'
    BY <1>8 DEF InboundBounded
  <1> QED  BY <1>4, <1>5, <1>6, <1>7, <1>9 DEF IndexInv

\* Accepting changes nothing but the status of a session.
LEMMA IndexAcceptConnect ==
  ASSUME TypeOK, IndexInv, NEW s \in SessionId, NEW by \in Role, AcceptConnect(s, by)
  PROVE  IndexInv'
  <1>1. /\ DOMAIN session' = DOMAIN session
        /\ \A u \in DOMAIN session :
             session'[u].controller = session[u].controller /\ session'[u].host = session[u].host
    BY DEF AcceptConnect, TypeOK, Session
  <1>2. UNCHANGED <<slot, issued>>
    BY DEF AcceptConnect
  <1>3. \A u \in DOMAIN session : Sides(u)' = Sides(u)
    BY <1>1 DEF Sides
  <1>4. \A d \in Device : Inbound(d)' = Inbound(d)
    BY <1>1 DEF Inbound
  <1>5. HeldAreLive'
    BY <1>1, <1>2, <1>3 DEF IndexInv, HeldAreLive, Live
  <1>6. HostHoldsSession'
    BY <1>1, <1>2 DEF IndexInv, HostHoldsSession, Online
  <1>7. LiveAreIssued' /\ HeldFinite'
    BY <1>1, <1>2 DEF IndexInv, LiveAreIssued, HeldFinite
  <1>8. InboundBounded'
    BY <1>4 DEF IndexInv, InboundBounded
  <1> QED  BY <1>5, <1>6, <1>7, <1>8 DEF IndexInv

LEMMA IndexUnchanged ==
  ASSUME IndexInv, UNCHANGED <<slot, session, issued>>
  PROVE  IndexInv'
  BY DEF IndexInv, HeldAreLive, HostHoldsSession, LiveAreIssued, HeldFinite, InboundBounded,
         Live, Online, Sides, Inbound

LEMMA IndexStep == TypeOK /\ IndexInv /\ [Next]_vars => IndexInv'
  <1> SUFFICES ASSUME TypeOK, IndexInv, [Next]_vars
               PROVE  IndexInv'
    OBVIOUS
  <1>1. CASE \E r \in Role, c \in Conn : GoOnline(r, c)
    BY <1>1, IndexGoOnline
  <1>2. CASE \E r \in Role, c \in Conn : GoOffline(r, c)
    BY <1>2, IndexGoOffline
  <1>3. CASE \E old, r \in Role, c \in Conn : Reidentify(old, r, c)
    BY <1>3, IndexReidentify
  <1>4. CASE \E from \in Role, t \in Device : RequestConnect(from, t)
    BY <1>4, IndexRequestConnect
  <1>5. CASE \E s \in SessionId, by \in Role : AcceptConnect(s, by)
    BY <1>5, IndexAcceptConnect
  <1>6. CASE \E s \in SessionId, by \in Role : RejectConnect(s, by)
    BY <1>6, IndexEndSession DEF RejectConnect, Live
  <1>7. CASE \E s \in SessionId, by \in Role : RelaySignal(s, by)
    BY <1>7, IndexUnchanged DEF RelaySignal
  <1>8. CASE \E s \in SessionId, by \in Role : CloseSession(s, by)
    BY <1>8, IndexEndSession DEF CloseSession, Live
  <1>9. CASE \E t \in Device, g \in Group : DispatchWake(t, g)
    BY <1>9, IndexUnchanged DEF DispatchWake
  <1>10. CASE UNCHANGED vars
    BY <1>10, IndexUnchanged DEF vars
  <1> QED
    BY <1>1, <1>2, <1>3, <1>4, <1>5, <1>6, <1>7, <1>8, <1>9, <1>10 DEF Next

LEMMA IndexCorrect == Spec => []IndexInv
  BY TypeCorrect, IndexInit, IndexStep, PTL DEF Spec

\* A slot lists only live sessions it is a side of, in every reachable state: what a
\* replaced registration leaves to its successor never includes an ended session.
THEOREM HeldSessionsAreLive == Spec => []HeldAreLive
  <1>1. IndexInv => HeldAreLive
    BY DEF IndexInv
  <1> QED  BY <1>1, IndexCorrect, PTL

\* Every live session is counted in the slot of a host that is online.
THEOREM HostCountsEverySession == Spec => []HostHoldsSession
  <1>1. IndexInv => HostHoldsSession
    BY DEF IndexInv
  <1> QED  BY <1>1, IndexCorrect, PTL

\* No host ever has more inbound sessions than maxInboundPerHost.
THEOREM CapacityRespected == Spec => []InboundBounded
  <1>1. IndexInv => InboundBounded
    BY DEF IndexInv
  <1> QED  BY <1>1, IndexCorrect, PTL

-----------------------------------------------------------------------------
(***************************************************************************)
(* The audit.  An id that was not handed out has no record: a new request  *)
(* starts with an empty one.                                               *)
(***************************************************************************)
UnissuedUnrecorded == \A s \in SessionId \ issued : hooks[s] = <<>>

AuditInv == AuditBalanced /\ UnissuedUnrecorded

\* What AuditBalanced says of a session that waits, of one that runs, and of one that is gone.
LEMMA AuditCases ==
  AuditBalanced <=>
    \A s \in SessionId :
      /\ s \in DOMAIN session /\ session[s].status = "ready" => hooks[s] = <<"start">>
      /\ s \in DOMAIN session /\ session[s].status # "ready" => hooks[s] = <<>>
      /\ s \notin DOMAIN session => hooks[s] \in {<<>>, <<"start", "end">>}
  BY DEF AuditBalanced, Live

\* Every action that forgets sessions: those that ran get their end, the others nothing.
LEMMA AuditEnd ==
  ASSUME TypeOK, IndexInv, AuditInv, NEW T \in SUBSET DOMAIN session, Forget(T),
         UNCHANGED issued
  PROVE  AuditInv'
  <1>1. /\ DOMAIN session' = DOMAIN session \ T
        /\ \A s \in DOMAIN session' : session'[s] = session[s]
    BY ForgetType
  <1>2. \A s \in SessionId :
          hooks'[s] = IF s \in T /\ session[s].status = "ready"
                      THEN Append(hooks[s], "end") ELSE hooks[s]
    BY DEF Forget, Ended
  <1>3. Append(<<"start">>, "end") = <<"start", "end">>
    <2>1. <<"start">> \in Seq({"start", "end"}) /\ Len(<<"start">>) = 1
      OBVIOUS
    <2> DEFINE q == Append(<<"start">>, "end")
    <2>2. q \in Seq({"start", "end"}) /\ Len(q) = 2 /\ q[1] = "start" /\ q[2] = "end"
      BY <2>1
    <2>3. /\ <<"start", "end">> \in Seq({"start", "end"}) /\ Len(<<"start", "end">>) = 2
          /\ <<"start", "end">>[1] = "start" /\ <<"start", "end">>[2] = "end"
      OBVIOUS
    <2> HIDE DEF q
    <2>4. \A i \in 1 .. 2 : q[i] = <<"start", "end">>[i]
      BY <2>2, <2>3
    <2>5. q = <<"start", "end">>
      BY <2>2, <2>3, <2>4, SeqEqual
    <2> QED  BY <2>5 DEF q
  <1>4. ASSUME NEW s \in SessionId
        PROVE  /\ s \in DOMAIN session' /\ session'[s].status = "ready" => hooks'[s] = <<"start">>
               /\ s \in DOMAIN session' /\ session'[s].status # "ready" => hooks'[s] = <<>>
               /\ s \notin DOMAIN session' => hooks'[s] \in {<<>>, <<"start", "end">>}
    <2>1. /\ s \in DOMAIN session /\ session[s].status = "ready" => hooks[s] = <<"start">>
          /\ s \in DOMAIN session /\ session[s].status # "ready" => hooks[s] = <<>>
          /\ s \notin DOMAIN session => hooks[s] \in {<<>>, <<"start", "end">>}
      BY AuditCases DEF AuditInv
    <2> QED  BY <1>1, <1>2, <1>3, <2>1
  <1>5. AuditBalanced'
    BY <1>4 DEF AuditBalanced, Live
  <1>6. UnissuedUnrecorded'
    BY <1>2 DEF AuditInv, UnissuedUnrecorded, IndexInv, LiveAreIssued
  <1> QED  BY <1>5, <1>6 DEF AuditInv

LEMMA AuditRequestConnect ==
  ASSUME TypeOK, IndexInv, AuditInv, NEW from \in Role, NEW t \in Device, RequestConnect(from, t)
  PROVE  AuditInv'
  <1> PICK s \in SessionId \ issued :
        /\ issued' = issued \cup {s}
        /\ session' = Put(session, s, [controller |-> from, host |-> t, status |-> "pending"])
        /\ UNCHANGED hooks
    BY DEF RequestConnect
  <1>1. /\ DOMAIN session' = DOMAIN session \cup {s}
        /\ session'[s].status = "pending"
        /\ \A u \in DOMAIN session \ {s} : session'[u] = session[u]
    BY DEF Put
  <1>2. hooks[s] = <<>>
    BY DEF AuditInv, UnissuedUnrecorded
  <1>3. AuditBalanced'
    BY <1>1, <1>2, AuditCases DEF AuditInv, AuditBalanced, Live
  <1> QED  BY <1>3 DEF AuditInv, UnissuedUnrecorded

LEMMA AuditAcceptConnect ==
  ASSUME TypeOK, IndexInv, AuditInv, NEW s \in SessionId, NEW by \in Role, AcceptConnect(s, by)
  PROVE  AuditInv'
  <1>1. s \in DOMAIN session /\ session[s].status = "pending" /\ session[s] \in Session
    BY DEF AcceptConnect, MayAccept, Live, TypeOK
  <1>2. /\ DOMAIN session' = DOMAIN session
        /\ session'[s].status = "ready"
        /\ \A u \in DOMAIN session \ {s} : session'[u] = session[u]
    BY <1>1 DEF AcceptConnect, Session
  <1>3. /\ hooks'[s] = Append(hooks[s], "start")
        /\ \A u \in SessionId \ {s} : hooks'[u] = hooks[u]
    BY DEF AcceptConnect, TypeOK
  <1>4. hooks[s] = <<>>
    BY <1>1, AuditCases DEF AuditInv
  <1>5. hooks'[s] = <<"start">>
    BY <1>3, <1>4
  <1>6. ASSUME NEW u \in SessionId
        PROVE  /\ u \in DOMAIN session' /\ session'[u].status = "ready" => hooks'[u] = <<"start">>
               /\ u \in DOMAIN session' /\ session'[u].status # "ready" => hooks'[u] = <<>>
               /\ u \notin DOMAIN session' => hooks'[u] \in {<<>>, <<"start", "end">>}
    <2>1. CASE u = s
      BY <1>1, <1>2, <1>5, <2>1
    <2>2. CASE u # s
      <3>1. /\ hooks'[u] = hooks[u]
            /\ u \in DOMAIN session => session'[u] = session[u]
        BY <1>2, <1>3, <2>2
      <3> QED  BY <1>2, <3>1, AuditCases DEF AuditInv
    <2> QED  BY <2>1, <2>2
  <1>8. AuditBalanced'
    BY <1>6 DEF AuditBalanced, Live
  <1>7. UnissuedUnrecorded'
    BY <1>1, <1>3 DEF AcceptConnect, AuditInv, UnissuedUnrecorded, IndexInv, LiveAreIssued
  <1> QED  BY <1>7, <1>8 DEF AuditInv

LEMMA AuditUnchanged ==
  ASSUME AuditInv, UNCHANGED <<session, issued, hooks>>
  PROVE  AuditInv'
  BY DEF AuditInv, AuditBalanced, UnissuedUnrecorded, Live

LEMMA AuditStep == TypeOK /\ IndexInv /\ AuditInv /\ [Next]_vars => AuditInv'
  <1> SUFFICES ASSUME TypeOK, IndexInv, AuditInv, [Next]_vars
               PROVE  AuditInv'
    OBVIOUS
  <1>0. \A r : Lost(r) \in SUBSET DOMAIN session
    BY DEF Lost
  <1>1. CASE \E r \in Role, c \in Conn : GoOnline(r, c)
    BY <1>1, AuditUnchanged DEF GoOnline
  <1>2. CASE \E r \in Role, c \in Conn : GoOffline(r, c)
    BY <1>0, <1>2, AuditEnd DEF GoOffline
  <1>3. CASE \E old, r \in Role, c \in Conn : Reidentify(old, r, c)
    BY <1>0, <1>3, AuditEnd DEF Reidentify
  <1>4. CASE \E from \in Role, t \in Device : RequestConnect(from, t)
    BY <1>4, AuditRequestConnect
  <1>5. CASE \E s \in SessionId, by \in Role : AcceptConnect(s, by)
    BY <1>5, AuditAcceptConnect
  <1>6. CASE \E s \in SessionId, by \in Role : RejectConnect(s, by)
    BY <1>6, AuditEnd DEF RejectConnect, EndSession, Live
  <1>7. CASE \E s \in SessionId, by \in Role : RelaySignal(s, by)
    BY <1>7, AuditUnchanged DEF RelaySignal
  <1>8. CASE \E s \in SessionId, by \in Role : CloseSession(s, by)
    BY <1>8, AuditEnd DEF CloseSession, EndSession, Live
  <1>9. CASE \E t \in Device, g \in Group : DispatchWake(t, g)
    BY <1>9, AuditUnchanged DEF DispatchWake
  <1>10. CASE UNCHANGED vars
    BY <1>10, AuditUnchanged DEF vars
  <1> QED
    BY <1>1, <1>2, <1>3, <1>4, <1>5, <1>6, <1>7, <1>8, <1>9, <1>10 DEF Next

\* The audit of every session is balanced: a start and an end for one that was accepted and
\* is over, whichever of the five ways it ended, and nothing for one that never was.
THEOREM AuditIsBalanced == Spec => []AuditBalanced
  <1>1. Init => AuditInv
    BY DEF Init, AuditInv, AuditBalanced, UnissuedUnrecorded, Live
  <1>2. AuditInv => AuditBalanced
    BY DEF AuditInv
  <1> QED  BY <1>1, <1>2, TypeCorrect, IndexCorrect, AuditStep, PTL DEF Spec

-----------------------------------------------------------------------------
(***************************************************************************)
(* What the calls send.                                                    *)
(***************************************************************************)
\* The other side of a session is a side of it, and so is who speaks.
LEMMA PeersAreSides ==
  ASSUME NEW s, NEW by, NEW r \in PeerOf(s, by)
  PROVE  r \in Sides(s) /\ by \in Sides(s)
  BY DEF PeerOf, Sides

\* Ending sessions tells every side that stays online, except the one that caused it.
LEMMA EndIsTold ==
  ASSUME NEW T, NEW s \in T, NEW actor, NEW r \in Sides(s) \ {actor}, Online(r)
  PROVE  [to |-> slot[r].conn, type |-> "session_close", sid |-> s] \in Notices(T, actor)
  BY DEF Notices, Frames

\* A session never ends behind the back of a side that is online: offline and a change of
\* role tell the peers of the slot's sessions, a rejection and a close the other side.
THEOREM EndsAreAnnounced == Spec => EndIsAnnounced
  <1> DEFINE Announced ==
        \A s \in DOMAIN session \ DOMAIN session' :
          \E actor \in Sides(s) : \A r \in Sides(s) \ {actor} :
            Online(r) => /\ Online(r)'
                         /\ [to |-> slot[r].conn, type |-> "session_close", sid |-> s] \in out'
  <1>1. TypeOK /\ IndexInv /\ [Next]_vars => Announced
    <2> SUFFICES ASSUME TypeOK, IndexInv, [Next]_vars,
                        NEW s \in DOMAIN session, s \notin DOMAIN session'
                 PROVE  \E actor \in Sides(s) : \A r \in Sides(s) \ {actor} :
                          Online(r) =>
                            /\ Online(r)'
                            /\ [to |-> slot[r].conn, type |-> "session_close", sid |-> s] \in out'
      OBVIOUS
    <2>1. ASSUME NEW T \in SUBSET DOMAIN session, NEW actor, Forget(T), Notices(T, actor) \subseteq out',
                 \A u \in T : actor \in Sides(u), DOMAIN slot \ {actor} \subseteq DOMAIN slot'
          PROVE  \E a \in Sides(s) : \A r \in Sides(s) \ {a} :
                   Online(r) =>
                     /\ Online(r)'
                     /\ [to |-> slot[r].conn, type |-> "session_close", sid |-> s] \in out'
      <3>1. s \in T
        BY <2>1 DEF Forget, Without
      <3>2. ASSUME NEW r \in Sides(s) \ {actor}, Online(r)
            PROVE  /\ Online(r)'
                   /\ [to |-> slot[r].conn, type |-> "session_close", sid |-> s] \in out'
        <4>1. Online(r)'
          BY <2>1, <3>2 DEF Online
        <4> QED  BY <2>1, <3>1, <3>2, <4>1, EndIsTold
      <3>3. actor \in Sides(s)
        BY <2>1, <3>1
      <3> QED  BY <3>2, <3>3
    <2>2. \A r : Lost(r) \in SUBSET DOMAIN session
      BY DEF Lost
    <2>3. \A r \in DOMAIN slot : \A u \in Lost(r) : r \in Sides(u)
      BY DEF IndexInv, HeldAreLive, Lost
    <2>4. ASSUME NEW r \in Role, NEW c \in Conn, GoOffline(r, c)
          PROVE  /\ Forget(Lost(r)) /\ Notices(Lost(r), r) \subseteq out'
                 /\ r \in DOMAIN slot /\ DOMAIN slot \ {r} \subseteq DOMAIN slot'
      BY <2>4, VacatedSlots DEF GoOffline, MayVacate, Online
    <2>5. ASSUME NEW old \in Role, NEW r \in Role, NEW c \in Conn, Reidentify(old, r, c)
          PROVE  /\ Forget(Lost(old)) /\ Notices(Lost(old), old) \subseteq out'
                 /\ old \in DOMAIN slot /\ DOMAIN slot \ {old} \subseteq DOMAIN slot'
      BY <2>5, VacatedSlots DEF Reidentify, MayVacate, Online, Registered, Put
    <2>6. ASSUME NEW u \in DOMAIN session, NEW by, NEW extra, EndSession(u, by, extra)
          PROVE  /\ Forget({u}) /\ Notices({u}, by) \subseteq out'
                 /\ DOMAIN slot \ {by} \subseteq DOMAIN slot'
      BY <2>6 DEF EndSession, Released
    <2>7. CASE \E r \in Role, c \in Conn : GoOffline(r, c)
      <3>1. PICK r \in Role, c \in Conn : GoOffline(r, c)
        BY <2>7
      <3> QED  BY <2>1, <2>2, <2>3, <2>4, <3>1
    <2>8. CASE \E old, r \in Role, c \in Conn : Reidentify(old, r, c)
      <3>1. PICK old \in Role, r \in Role, c \in Conn : Reidentify(old, r, c)
        BY <2>8
      <3> QED  BY <2>1, <2>2, <2>3, <2>5, <3>1
    <2>9. CASE \E u \in SessionId, by \in Role : RejectConnect(u, by)
      <3>1. PICK u \in SessionId, by \in Role : RejectConnect(u, by)
        BY <2>9
      <3>2. u \in DOMAIN session /\ by \in Sides(u)
        BY <3>1 DEF RejectConnect, Live, Sides
      <3>3. /\ Forget({u}) /\ Notices({u}, by) \subseteq out'
            /\ DOMAIN slot \ {by} \subseteq DOMAIN slot'
        BY <2>6, <3>1, <3>2 DEF RejectConnect
      <3>4. {u} \in SUBSET DOMAIN session /\ \A w \in {u} : by \in Sides(w)
        BY <3>2
      <3> QED  BY <2>1, <3>3, <3>4
    <2>10. CASE \E u \in SessionId, by \in Role : CloseSession(u, by)
      <3>1. PICK u \in SessionId, by \in Role : CloseSession(u, by)
        BY <2>10
      <3>2. u \in DOMAIN session /\ by \in Sides(u)
        BY <3>1, PeersAreSides DEF CloseSession, Live
      <3>3. /\ Forget({u}) /\ Notices({u}, by) \subseteq out'
            /\ DOMAIN slot \ {by} \subseteq DOMAIN slot'
        BY <2>6, <3>1, <3>2 DEF CloseSession
      <3>4. {u} \in SUBSET DOMAIN session /\ \A w \in {u} : by \in Sides(w)
        BY <3>2
      <3> QED  BY <2>1, <3>3, <3>4
    <2>11. CASE \E from \in Role, t \in Device : RequestConnect(from, t)
      <3>1. DOMAIN session \subseteq DOMAIN session'
        BY <2>11 DEF RequestConnect, Put
      <3> QED  BY <3>1
    <2>12. CASE \E u \in SessionId, by \in Role : AcceptConnect(u, by)
      <3>1. DOMAIN session' = DOMAIN session
        BY <2>12 DEF AcceptConnect
      <3> QED  BY <3>1
    <2>13. CASE UNCHANGED session
      BY <2>13
    <2> QED
      BY <2>7, <2>8, <2>9, <2>10, <2>11, <2>12, <2>13
      DEF Next, GoOnline, RelaySignal, DispatchWake, vars
  <1> QED  BY <1>1, TypeCorrect, IndexCorrect, PTL DEF Spec, EndIsAnnounced

\* A frame about a session goes to the socket of an online role of the set it is for.
LEMMA FrameAddresses ==
  ASSUME NEW R, NEW type, NEW s, NEW m \in Frames(R, type, s)
  PROVE  m.sid = s /\ m.type = type /\ \E r \in R : Online(r) /\ slot[r].conn = m.to
  BY DEF Frames

LEMMA NoticeAddresses ==
  ASSUME NEW T, NEW actor, NEW m \in Notices(T, actor)
  PROVE  /\ m.sid \in T /\ m.type = "session_close"
         /\ \E r \in Sides(m.sid) : Online(r) /\ slot[r].conn = m.to
  <1>1. PICK s \in T : m \in Frames(Sides(s) \ {actor}, "session_close", s)
    BY DEF Notices
  <1>2. m.sid = s /\ m.type = "session_close"
        /\ \E r \in Sides(s) \ {actor} : Online(r) /\ slot[r].conn = m.to
    BY <1>1, FrameAddresses
  <1> QED  BY <1>2

\* Nothing about a session reaches a socket outside it: requests, answers, relayed signals
\* and closings go to the two sides as the tables have them.
THEOREM NothingLeavesTheSession == Spec => TrafficStaysInside
  <1> DEFINE Inside(m) ==
        \/ Live(m.sid) /\ \E r \in Sides(m.sid) : Online(r) /\ slot[r].conn = m.to
        \/ Live(m.sid)' /\ \E r \in Sides(m.sid)' : Online(r)' /\ slot'[r].conn = m.to
  <1> DEFINE StaysInside ==
        \A m \in out' :
          m.type \notin {"close", "wake_dispatch"} =>
            \/ /\ Live(m.sid)
               /\ \E r \in Sides(m.sid) : Online(r) /\ slot[r].conn = m.to
            \/ /\ Live(m.sid)'
               /\ \E r \in Sides(m.sid)' : Online(r)' /\ slot'[r].conn = m.to
  <1>1. TypeOK /\ IndexInv /\ [Next]_vars => StaysInside \/ UNCHANGED vars
    <2> SUFFICES ASSUME TypeOK, IndexInv, Next, NEW m \in out',
                        m.type \notin {"close", "wake_dispatch"}
                 PROVE  Inside(m)
      OBVIOUS
    <2>1. \A r, c : m \notin Replaced(r, c)
      BY DEF Replaced
    <2>2. ASSUME NEW T \in SUBSET DOMAIN session, NEW actor, m \in Notices(T, actor)
          PROVE  Inside(m)
      BY <2>2, NoticeAddresses DEF Live
    <2>3. ASSUME NEW s \in DOMAIN session, NEW R \in SUBSET Sides(s), NEW type,
                 m \in Frames(R, type, s)
          PROVE  Inside(m)
      BY <2>3, FrameAddresses DEF Live
    <2>4. \A r : Lost(r) \in SUBSET DOMAIN session
      BY DEF Lost
    <2>5. CASE \E r \in Role, c \in Conn : GoOnline(r, c)
      BY <2>1, <2>5 DEF GoOnline
    <2>6. CASE \E r \in Role, c \in Conn : GoOffline(r, c)
      BY <2>2, <2>4, <2>6 DEF GoOffline
    <2>7. CASE \E old, r \in Role, c \in Conn : Reidentify(old, r, c)
      BY <2>1, <2>2, <2>4, <2>7 DEF Reidentify
    <2>8. CASE \E from \in Role, t \in Device : RequestConnect(from, t)
      <3>1. PICK from \in Role, t \in Device, s \in SessionId \ issued :
              /\ session' = Put(session, s, [controller |-> from, host |-> t, status |-> "pending"])
              /\ slot' = Joined(Holders(from, t), s)
              /\ out' = Frames({Host(t)}, "incoming_request", s)
        BY <2>8 DEF RequestConnect
      <3>2. m.sid = s /\ Online(Host(t)) /\ slot[Host(t)].conn = m.to
        BY <3>1, FrameAddresses
      <3>3. s \in DOMAIN session' /\ session'[s].host = t
        BY <3>1 DEF Put
      <3>4. Host(t) \in DOMAIN slot' /\ slot'[Host(t)].conn = slot[Host(t)].conn
        BY <3>1, <3>2, JoinedSockets DEF Online
      <3>5. Host(t) \in Sides(s)'
        BY <3>3 DEF Sides
      <3> QED  BY <3>2, <3>3, <3>4, <3>5 DEF Live, Online
    <2>9. CASE \E s \in SessionId, by \in Role : AcceptConnect(s, by)
      BY <2>3, <2>9 DEF AcceptConnect, MayAccept, Live
    <2>10. CASE \E s \in SessionId, by \in Role : RejectConnect(s, by)
      <3>1. PICK s \in DOMAIN session, by \in Role :
              out' = Notices({s}, by) \cup Frames({session[s].controller}, "connect_err", s)
        BY <2>10 DEF RejectConnect, EndSession, Live
      <3>2. {session[s].controller} \in SUBSET Sides(s) /\ {s} \in SUBSET DOMAIN session
        BY DEF Sides
      <3> QED  BY <2>2, <2>3, <3>1, <3>2
    <2>11. CASE \E s \in SessionId, by \in Role : RelaySignal(s, by)
      <3>1. PICK s \in DOMAIN session, by \in Role : out' = Frames(PeerOf(s, by), "signal", s)
        BY <2>11 DEF RelaySignal, Live
      <3>2. PeerOf(s, by) \in SUBSET Sides(s)
        BY PeersAreSides
      <3> QED  BY <2>3, <3>1, <3>2
    <2>12. CASE \E s \in SessionId, by \in Role : CloseSession(s, by)
      <3>1. PICK s \in DOMAIN session, by \in Role : out' = Notices({s}, by)
        BY <2>12 DEF CloseSession, EndSession, Live
      <3>2. {s} \in SUBSET DOMAIN session
        OBVIOUS
      <3> QED  BY <2>2, <3>1, <3>2
    <2>13. CASE \E t \in Device, g \in Group : DispatchWake(t, g)
      BY <2>13 DEF DispatchWake
    <2> QED
      BY <2>5, <2>6, <2>7, <2>8, <2>9, <2>10, <2>11, <2>12, <2>13 DEF Next
  <1> QED  BY <1>1, TypeCorrect, IndexCorrect, PTL DEF Spec, TrafficStaysInside

\* A machine that is online in both roles is asked once to send a magic packet.
THEOREM WakesOnce == Spec => OneWakePerDevice
  <1> DEFINE Once ==
        \A m, n \in out' :
          m.type = "wake_dispatch" /\ n.type = "wake_dispatch" /\ m.dev = n.dev => m = n
  <1>1. [Next]_vars => Once \/ UNCHANGED vars
    <2> SUFFICES ASSUME Next  PROVE Once
      OBVIOUS
    <2>1. \A r, c : \A m \in Replaced(r, c) : m.type # "wake_dispatch"
      BY DEF Replaced
    <2>2. \A T, actor : \A m \in Notices(T, actor) : m.type # "wake_dispatch"
      BY DEF Notices, Frames
    <2>3. \A R, s : /\ \A m \in Frames(R, "incoming_request", s) : m.type # "wake_dispatch"
                    /\ \A m \in Frames(R, "connect_ready", s) : m.type # "wake_dispatch"
                    /\ \A m \in Frames(R, "connect_err", s) : m.type # "wake_dispatch"
                    /\ \A m \in Frames(R, "signal", s) : m.type # "wake_dispatch"
      BY DEF Frames
    <2>4. CASE \E t \in Device, g \in Group : DispatchWake(t, g)
      <3>1. PICK t \in Device, g \in Group : DispatchWake(t, g)
        BY <2>4
      <3>2. ASSUME NEW r \in Wakers(t, g)
            PROVE  \E d \in Device : r[1] = d /\ r \in HelperOf(d, g)
        <4>1. PICK d \in Device \ {t} : r \in HelperOf(d, g)
          BY DEF Wakers
        <4>2. r \in {Host(d), <<d, "controller">>}
          BY <4>1 DEF HelperOf
        <4> QED  BY <4>1, <4>2 DEF Host
      <3>3. \A d : \A r, q \in HelperOf(d, g) : r = q
        BY DEF HelperOf
      <3>4. \A r, q \in Wakers(t, g) : r[1] = q[1] => r = q
        BY <3>2, <3>3
      <3> QED  BY <3>1, <3>4 DEF DispatchWake
    <2>5. CASE \A m \in out' : m.type # "wake_dispatch"
      BY <2>5
    <2> QED
      BY <2>1, <2>2, <2>3, <2>4, <2>5, ZenonT(60)
      DEF Next, GoOnline, GoOffline, Reidentify, RequestConnect, AcceptConnect, RejectConnect,
          RelaySignal, CloseSession, EndSession
  <1> QED  BY <1>1, PTL DEF Spec, OneWakePerDevice

-----------------------------------------------------------------------------
(***************************************************************************)
(* The registry implements the session broker.  A call that ends sessions  *)
(* or changes who is online is the broker's End; a request is Ask; an      *)
(* acceptance is Accept; relaying and waking stutter.                      *)
(***************************************************************************)
\* The broker's view of the two tables.
LEMMA BrokerView ==
  ASSUME TypeOK
  PROVE  /\ Broker!InProgress = DOMAIN session
         /\ \A d : Broker!Load(d) = Inbound(d)
  <1>1. \A s \in DOMAIN session : s \in SessionId /\ session[s].status \in {"pending", "ready"}
    BY DEF TypeOK, Session
  <1>2. \A s \in SessionId : Phase[s] \in {"pending", "ready"} <=> s \in DOMAIN session
    BY <1>1 DEF Phase, Live
  <1>3. Broker!InProgress = DOMAIN session
    BY <1>1, <1>2 DEF Broker!InProgress
  <1> QED  BY <1>3 DEF Broker!Load, Inbound

LEMMA BrokerInit == Init => Broker!BInit
  <1> SUFFICES ASSUME Init  PROVE Broker!BInit
    OBVIOUS
  <1>1. DOMAIN slot = {} /\ DOMAIN session = {} /\ issued = {}
    BY DEF Init
  <1>2. Phase = [s \in SessionId |-> "unborn"]
    BY <1>1 DEF Phase, Live
  <1>3. [s \in DOMAIN session |-> session[s].host] = [s \in {} |-> {}]
    BY <1>1
  <1>4. {d \in Device : Online(Host(d))} = {}
    BY <1>1 DEF Online
  <1> QED  BY <1>2, <1>3, <1>4 DEF Broker!BInit

\* An action that ends the sessions T, and every session of a host that goes offline.
LEMMA BrokerEnd ==
  ASSUME TypeOK, IndexInv, NEW T \in SUBSET DOMAIN session, UNCHANGED issued,
         DOMAIN session' = DOMAIN session \ T,
         \A s \in DOMAIN session' : session'[s] = session[s],
         \A d \in Device : Online(Host(d)) /\ ~Online(Host(d))' => Inbound(d) \subseteq T
  PROVE  Broker!BNext
  <1>1. T \in SUBSET Broker!InProgress
    BY BrokerView
  <1>2. {d \in Device : Online(Host(d))'} \in SUBSET Device
    OBVIOUS
  <1>3. \A d \in {e \in Device : Online(Host(e))} \ {e \in Device : Online(Host(e))'} :
          Broker!Load(d) \subseteq T
    BY BrokerView
  <1>4. Phase' = [s \in SessionId |-> IF s \in T THEN "over" ELSE Phase[s]]
    BY DEF Phase, Live, IndexInv, LiveAreIssued
  <1>5. [s \in DOMAIN session' |-> session'[s].host]
          = [s \in Broker!InProgress \ T |-> [t \in DOMAIN session |-> session[t].host][s]]
    BY BrokerView
  <1>6. Broker!End(T)
    BY <1>2, <1>3, <1>4, <1>5 DEF Broker!End
  <1> QED  BY <1>1, <1>6 DEF Broker!BNext

LEMMA BrokerRequest ==
  ASSUME TypeOK, IndexInv, NEW from \in Role, NEW t \in Device, RequestConnect(from, t)
  PROVE  Broker!BNext
  <1> PICK s \in SessionId \ issued :
        /\ issued' = issued \cup {s}
        /\ session' = Put(session, s, [controller |-> from, host |-> t, status |-> "pending"])
        /\ slot' = Joined(Holders(from, t), s)
    BY DEF RequestConnect
  <1>0. Online(Host(t)) /\ HasRoom(t)
    BY DEF RequestConnect
  <1>1. s \notin DOMAIN session
    BY DEF IndexInv, LiveAreIssued
  <1>2. /\ DOMAIN session' = DOMAIN session \cup {s}
        /\ session'[s].host = t /\ session'[s].status = "pending"
        /\ \A u \in DOMAIN session : session'[u] = session[u]
    BY <1>1 DEF Put
  <1>3. Phase[s] = "unborn"
    BY <1>1 DEF Phase, Live
  <1>4. Cardinality(Broker!Load(t)) < MaxInbound
    <2>1. Inbound(t) \subseteq slot[Host(t)].sessions
      BY DEF IndexInv, HostHoldsSession, Inbound
    <2>2. IsFiniteSet(slot[Host(t)].sessions)
      BY <1>0 DEF IndexInv, HeldFinite, Online
    <2>3. /\ IsFiniteSet(Inbound(t))
          /\ Cardinality(Inbound(t)) <= Cardinality(slot[Host(t)].sessions)
      BY <2>1, <2>2, FS_Subset
    <2>4. Cardinality(Inbound(t)) \in Nat /\ Cardinality(slot[Host(t)].sessions) \in Nat
      BY <2>2, <2>3, FS_CardinalityType
    <2>5. Cardinality(Inbound(t)) < MaxInbound
      BY <1>0, <2>3, <2>4, MaxInboundAssumption DEF HasRoom
    <2> QED  BY <2>5, BrokerView
  <1>5. Phase' = [Phase EXCEPT ![s] = "pending"]
    <2>1. \A u \in SessionId \ {s} : Phase'[u] = Phase[u]
      BY <1>2 DEF Phase, Live
    <2>2. Phase'[s] = "pending"
      BY <1>2 DEF Phase, Live
    <2> QED  BY <2>1, <2>2 DEF Phase
  <1>6. [u \in DOMAIN session' |-> session'[u].host]
          = [u \in Broker!InProgress \cup {s} |->
               IF u = s THEN t ELSE [v \in DOMAIN session |-> session[v].host][u]]
    BY <1>1, <1>2, BrokerView
  <1>7. {d \in Device : Online(Host(d))}' = {d \in Device : Online(Host(d))}
    BY JoinedSlots DEF Online
  <1>8. Broker!Cardinality(Broker!Load(t)) < MaxInbound
    BY <1>4 DEF Broker!Cardinality, Cardinality
  <1>9. Broker!Ask(s, t)
    BY <1>0, <1>3, <1>5, <1>6, <1>7, <1>8 DEF Broker!Ask
  <1> QED  BY <1>9 DEF Broker!BNext

LEMMA BrokerAccept ==
  ASSUME TypeOK, NEW s \in SessionId, NEW by \in Role, AcceptConnect(s, by)
  PROVE  Broker!BNext
  <1>1. /\ s \in DOMAIN session /\ session[s].status = "pending"
        /\ DOMAIN session' = DOMAIN session
        /\ session'[s].status = "ready"
        /\ \A u \in DOMAIN session : session'[u].host = session[u].host
        /\ \A u \in DOMAIN session \ {s} : session'[u] = session[u]
    BY DEF AcceptConnect, MayAccept, Live, TypeOK, Session
  <1>2. UNCHANGED <<slot, issued>>
    BY DEF AcceptConnect
  <1>3. Phase[s] = "pending"
    BY <1>1 DEF Phase, Live
  <1>4. Phase' = [Phase EXCEPT ![s] = "ready"]
    <2>1. \A u \in SessionId \ {s} : Phase'[u] = Phase[u]
      BY <1>1, <1>2 DEF Phase, Live
    <2>2. Phase'[s] = "ready"
      BY <1>1 DEF Phase, Live
    <2> QED  BY <2>1, <2>2 DEF Phase
  <1>5. [u \in DOMAIN session' |-> session'[u].host] = [u \in DOMAIN session |-> session[u].host]
    BY <1>1
  <1>6. {d \in Device : Online(Host(d))}' = {d \in Device : Online(Host(d))}
    BY <1>2 DEF Online
  <1>7. Broker!Accept(s)
    BY <1>3, <1>4, <1>5, <1>6 DEF Broker!Accept
  <1> QED  BY <1>7 DEF Broker!BNext

LEMMA BrokerEndSession ==
  ASSUME TypeOK, IndexInv, NEW s \in DOMAIN session, NEW by, NEW extra,
         EndSession(s, by, extra)
  PROVE  Broker!BNext
  <1>1. DOMAIN slot' = DOMAIN slot
    BY ReleasedSlots DEF EndSession, TypeOK
  <1>2. /\ DOMAIN session' = DOMAIN session \ {s}
        /\ \A u \in DOMAIN session' : session'[u] = session[u]
    BY ForgetType DEF EndSession
  <1> QED  BY <1>1, <1>2, BrokerEnd DEF EndSession, Online

\* offline takes every inbound session of the role's slot, so it may end the host's
\* reachability.
LEMMA VacatedInbound ==
  ASSUME TypeOK, IndexInv, NEW r \in DOMAIN slot, NEW d \in Device, Host(d) = r
  PROVE  Inbound(d) \subseteq Lost(r)
  BY DEF IndexInv, HostHoldsSession, Inbound, Lost

LEMMA BrokerGoOnline ==
  ASSUME TypeOK, IndexInv, NEW r \in Role, NEW c \in Conn, GoOnline(r, c)
  PROVE  Broker!BNext
  <1>1. DOMAIN slot \subseteq DOMAIN slot' /\ UNCHANGED <<session, issued>>
    BY DEF GoOnline, Registered, Put
  <1>2. {} \in SUBSET DOMAIN session
    OBVIOUS
  <1> QED  BY <1>1, <1>2, BrokerEnd DEF Online

LEMMA BrokerGoOffline ==
  ASSUME TypeOK, IndexInv, NEW r \in Role, NEW c \in Conn, GoOffline(r, c)
  PROVE  Broker!BNext
  <1>1. DOMAIN slot' = DOMAIN slot \ {r} /\ r \in DOMAIN slot
    BY VacatedSlots DEF GoOffline, MayVacate, Online
  <1>2. /\ DOMAIN session' = DOMAIN session \ Lost(r)
        /\ \A u \in DOMAIN session' : session'[u] = session[u]
    BY ForgetType DEF GoOffline
  <1>3. \A d \in Device : Online(Host(d)) /\ ~Online(Host(d))' => Inbound(d) \subseteq Lost(r)
    BY <1>1, VacatedInbound DEF Online
  <1>4. Lost(r) \in SUBSET DOMAIN session
    BY DEF Lost
  <1> QED  BY <1>2, <1>3, <1>4, BrokerEnd DEF GoOffline

LEMMA BrokerReidentify ==
  ASSUME TypeOK, IndexInv, NEW old \in Role, NEW r \in Role, NEW c \in Conn,
         Reidentify(old, r, c)
  PROVE  Broker!BNext
  <1>1. DOMAIN Vacated(old) = DOMAIN slot \ {old} /\ old \in DOMAIN slot
    BY VacatedSlots DEF Reidentify, MayVacate, Online
  <1>2. DOMAIN slot \ {old} \subseteq DOMAIN slot'
    BY <1>1 DEF Reidentify, Registered, Put
  <1>3. /\ DOMAIN session' = DOMAIN session \ Lost(old)
        /\ \A u \in DOMAIN session' : session'[u] = session[u]
    BY ForgetType DEF Reidentify
  <1>4. \A d \in Device : Online(Host(d)) /\ ~Online(Host(d))' => Inbound(d) \subseteq Lost(old)
    BY <1>1, <1>2, VacatedInbound DEF Online
  <1>5. Lost(old) \in SUBSET DOMAIN session
    BY DEF Lost
  <1> QED  BY <1>3, <1>4, <1>5, BrokerEnd DEF Reidentify

LEMMA BrokerUnchanged ==
  ASSUME UNCHANGED <<slot, session, issued>>
  PROVE  UNCHANGED Broker!bvars
  BY DEF Broker!bvars, Phase, Live, Online

LEMMA BrokerStep == TypeOK /\ IndexInv /\ [Next]_vars => [Broker!BNext]_(Broker!bvars)
  <1> SUFFICES ASSUME TypeOK, IndexInv, [Next]_vars
               PROVE  [Broker!BNext]_(Broker!bvars)
    OBVIOUS
  <1>1. CASE \E r \in Role, c \in Conn : GoOnline(r, c)
    BY <1>1, BrokerGoOnline
  <1>2. CASE \E r \in Role, c \in Conn : GoOffline(r, c)
    BY <1>2, BrokerGoOffline
  <1>3. CASE \E old, r \in Role, c \in Conn : Reidentify(old, r, c)
    BY <1>3, BrokerReidentify
  <1>4. CASE \E from \in Role, t \in Device : RequestConnect(from, t)
    BY <1>4, BrokerRequest
  <1>5. CASE \E s \in SessionId, by \in Role : AcceptConnect(s, by)
    BY <1>5, BrokerAccept
  <1>6. CASE \E s \in SessionId, by \in Role : RejectConnect(s, by)
    BY <1>6, BrokerEndSession DEF RejectConnect, Live
  <1>7. CASE \E s \in SessionId, by \in Role : RelaySignal(s, by)
    BY <1>7, BrokerUnchanged DEF RelaySignal
  <1>8. CASE \E s \in SessionId, by \in Role : CloseSession(s, by)
    BY <1>8, BrokerEndSession DEF CloseSession, Live
  <1>9. CASE \E t \in Device, g \in Group : DispatchWake(t, g)
    BY <1>9, BrokerUnchanged DEF DispatchWake
  <1>10. CASE UNCHANGED vars
    BY <1>10, BrokerUnchanged DEF vars
  <1> QED
    BY <1>1, <1>2, <1>3, <1>4, <1>5, <1>6, <1>7, <1>8, <1>9, <1>10 DEF Next

\* Whatever the sequence of calls, a session is asked for once, of a reachable host with
\* room, is accepted at most once, ends once and never comes back.
THEOREM RegistryImplementsBroker == Spec => ImplementsBroker
  BY TypeCorrect, IndexCorrect, BrokerInit, BrokerStep, PTL
     DEF Spec, ImplementsBroker, Broker!BSpec
=============================================================================
