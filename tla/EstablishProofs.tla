---------------------------- MODULE EstablishProofs -------------------------
(***************************************************************************)
(* A key that is confirmed is the same on both sides, neither side fails   *)
(* where the other confirms, and every frame arrives (Establish), for any  *)
(* passwords and any frames.                                               *)
(*                                                                         *)
(* The first invariant is about what a side has not looked at yet: the     *)
(* handshake's messages that the other side has sent and it has not read,  *)
(* in their order, and only after them what is sealed.  So no message of   *)
(* the handshake is ever out of turn, and a handshake fails only when the  *)
(* two tags differ.                                                        *)
(*                                                                         *)
(* The second is about the chunks among these messages, and among those    *)
(* that are kept aside: each is the one that follows, from the one the     *)
(* Reassembler waits for to the next that will be sent (Brings).           *)
(***************************************************************************)
EXTENDS Establish, SequenceTheorems, WellFoundedInduction, TLAPS

-----------------------------------------------------------------------------
Keys   == {NoKey} \cup (({"shared"} \cup Side) \X Password)
Tags   == [key : Keys, fps : SUBSET Fingerprint]
Sealed == [type : {"sealed"}, seal : [key : Keys, label : Side], seq : Nat, idx : Nat, count : Nat]
Msg    == [type : {"pake"}, password : Password] \cup [type : {"binding"}, tag : Tags] \cup Sealed

\* How many messages of the handshake a side has sent, and how many it has read.
SentIn(state) == IF state = "none" THEN 0 ELSE IF state = "pake" THEN 1 ELSE 2
ReadIn(state) == IF state \in {"none", "pake"} THEN 0 ELSE IF state = "binding" THEN 1 ELSE 2

\* The unread messages u: the handshake's that were sent and not read, then sealed ones, which
\* come after both of the handshake's.
InTurn(u, sent, read, first, second) ==
  /\ u \in Seq(Msg)
  /\ read <= sent /\ sent - read <= Len(u)
  /\ sent < 2 => Len(u) = sent - read
  /\ \A i \in 1 .. Len(u) :
       IF i <= sent - read THEN u[i] = IF read + i = 1 THEN first ELSE second
       ELSE u[i] \in Sealed

Unread(s) == inbox[s] \o line[s]

StreamOK(s) ==
  /\ inbox[s] \in Seq(Msg) /\ line[s] \in Seq(Msg) /\ deferred[s] \in Seq(Sealed)
  /\ InTurn(Unread(s), SentIn(hs[Peer(s)]), ReadIn(hs[s]),
            Pake(passwordOf[Peer(s)]), Binding(Tag(Peer(s), keyOf[Peer(s)])))

Early(s) == hs[s] \in {"none", "pake"}

\* What a side has derived and judged.
ShakeOK(s) ==
  /\ peerFp[s] \in {Peer(s), "other"}
  /\ keyOf[s] = IF Early(s) THEN NoKey ELSE DerivedKey(s, passwordOf[Peer(s)])
  /\ side[s] = "session" => hs[s] = "confirmed"
  /\ hs[s] = "none" => inbox[s] = <<>>
  /\ hs[s] \in {"confirmed", "failed"} => ~Early(Peer(s))
  /\ hs[s] = "confirmed" => Tag(s, keyOf[s]) = Tag(Peer(s), keyOf[Peer(s)])
  /\ hs[s] = "failed" => Tag(s, keyOf[s]) # Tag(Peer(s), keyOf[Peer(s)])

EsInv == EsTypeOK /\ \A s \in Side : StreamOK(s) /\ ShakeOK(s)

-----------------------------------------------------------------------------
\* The two sides.
LEMMA Sides ==
  ASSUME NEW s \in Side
  PROVE  /\ Peer(s) \in Side /\ Peer(Peer(s)) = s /\ Peer(s) # s
         /\ \A t \in Side : t = s \/ t = Peer(s)
  BY DEF Side, Peer

\* The kinds of messages are told apart by their type.
LEMMA Kinds ==
  ASSUME NEW p \in Password, NEW tag \in Tags
  PROVE  /\ Pake(p) \in Msg \ Sealed /\ Binding(tag) \in Msg \ Sealed
         /\ Pake(p).type = "pake" /\ Binding(tag).type = "binding"
         /\ Pake(p).password = p /\ Binding(tag).tag = tag
         /\ \A m \in Sealed : m.type = "sealed"
         /\ Sealed \subseteq Msg
  BY DEF Pake, Binding, Msg, Sealed

LEMMA KeysTyped ==
  ASSUME NEW s \in Side, EsTypeOK
  PROVE  /\ NoKey \in Keys
         /\ \A p \in Password : DerivedKey(s, p) \in Keys
         /\ \A k \in Keys : Tag(s, k) \in Tags
  BY DEF Keys, Tags, Tag, DerivedKey, EsTypeOK, Fingerprint

\* What is sent comes after what has been sent.
Regroups(a, b, c) == a \o (b \o c) = (a \o b) \o c

LEMMA LaterSent ==
  ASSUME NEW a \in Seq(Msg), NEW b \in Seq(Msg), NEW c \in Seq(Msg)
  PROVE  a \o b \in Seq(Msg) /\ Regroups(a, b, c)
  <1>1. a \o b \in Seq(Msg)  BY ConcatProperties
  <1>2. (a \o b) \o c = a \o (b \o c)  BY ConcatAssociative
  <1> QED  BY <1>1, <1>2 DEF Regroups

\* What a side has not looked at, after it has looked at one message.
LEMMA AfterOne ==
  ASSUME NEW a \in Seq(Msg), NEW b \in Seq(Msg), a # <<>>
  PROVE  /\ a \o b \in Seq(Msg) /\ a \o b # <<>> /\ (a \o b)[1] = Head(a)
         /\ Tail(a) \o b \in Seq(Msg) /\ Len(Tail(a) \o b) = Len(a \o b) - 1
         /\ \A i \in 1 .. Len(Tail(a) \o b) : (Tail(a) \o b)[i] = (a \o b)[i + 1]
  <1>1. /\ Len(a) \in Nat /\ Len(a) > 0 /\ Len(b) \in Nat /\ Tail(a) \in Seq(Msg)
        /\ Len(Tail(a)) = Len(a) - 1
        /\ \A i \in 1 .. Len(Tail(a)) : Tail(a)[i] = a[i + 1]
    BY EmptySeq, HeadTailProperties, LenProperties
  <1>2. /\ a \o b \in Seq(Msg) /\ Len(a \o b) = Len(a) + Len(b)
        /\ \A i \in 1 .. Len(a) + Len(b) :
             (a \o b)[i] = IF i <= Len(a) THEN a[i] ELSE b[i - Len(a)]
    BY ConcatProperties
  <1>3. /\ Tail(a) \o b \in Seq(Msg) /\ Len(Tail(a) \o b) = Len(Tail(a)) + Len(b)
        /\ \A i \in 1 .. Len(Tail(a)) + Len(b) :
             (Tail(a) \o b)[i] = IF i <= Len(Tail(a)) THEN Tail(a)[i] ELSE b[i - Len(Tail(a))]
    BY <1>1, ConcatProperties
  <1>4. (a \o b)[1] = Head(a)  BY <1>1, <1>2
  <1>5. a \o b # <<>>  BY <1>1, <1>2, EmptySeq
  <1>6. ASSUME NEW i \in 1 .. Len(Tail(a) \o b) PROVE (Tail(a) \o b)[i] = (a \o b)[i + 1]
    BY <1>1, <1>2, <1>3
  <1> QED  BY <1>1, <1>2, <1>3, <1>4, <1>5, <1>6

\* A message of the handshake is read in its turn.
LEMMA ReadInTurn ==
  ASSUME NEW u \in Seq(Msg), NEW v \in Seq(Msg), u # <<>>,
         NEW sent \in 0 .. 2, NEW read \in 0 .. 2, NEW m1, NEW m2,
         InTurn(u, sent, read, m1, m2), u[1] \notin Sealed,
         Len(v) = Len(u) - 1, \A i \in 1 .. Len(v) : v[i] = u[i + 1]
  PROVE  /\ read < sent /\ u[1] = IF read = 0 THEN m1 ELSE m2
         /\ InTurn(v, sent, read + 1, m1, m2)
  <1>1. Len(u) \in Nat /\ Len(u) > 0 /\ Len(v) \in Nat  BY EmptySeq, LenProperties
  <1>2. read < sent /\ u[1] = IF read = 0 THEN m1 ELSE m2  BY <1>1 DEF InTurn
  <1>3. ASSUME NEW i \in 1 .. Len(v)
        PROVE  IF i <= sent - (read + 1) THEN v[i] = IF read + 1 + i = 1 THEN m1 ELSE m2
               ELSE v[i] \in Sealed
    <2>1. i + 1 \in 1 .. Len(u) /\ v[i] = u[i + 1]  BY <1>1
    <2>2. IF i + 1 <= sent - read THEN u[i + 1] = IF read + (i + 1) = 1 THEN m1 ELSE m2
          ELSE u[i + 1] \in Sealed
      BY <2>1 DEF InTurn
    <2>3. i + 1 <= sent - read <=> i <= sent - (read + 1)  OBVIOUS
    <2>4. read + (i + 1) = read + 1 + i  OBVIOUS
    <2> QED  BY <2>1, <2>2, <2>3, <2>4
  <1> QED  BY <1>1, <1>2, <1>3 DEF InTurn

\* What is sealed comes when the handshake has been read.
LEMMA SkipInTurn ==
  ASSUME NEW u \in Seq(Msg), NEW v \in Seq(Msg), u # <<>>,
         NEW sent \in 0 .. 2, NEW read \in 0 .. 2, NEW m1, NEW m2, m1 \notin Sealed,
         m2 \notin Sealed, InTurn(u, sent, read, m1, m2), u[1] \in Sealed,
         Len(v) = Len(u) - 1, \A i \in 1 .. Len(v) : v[i] = u[i + 1]
  PROVE  sent = 2 /\ read = 2 /\ InTurn(v, sent, read, m1, m2)
  <1>1. Len(u) \in Nat /\ Len(u) > 0 /\ Len(v) \in Nat  BY EmptySeq, LenProperties
  <1>2. ~(1 <= sent - read)  BY <1>1 DEF InTurn
  <1>3. sent = 2 /\ read = 2  BY <1>1, <1>2 DEF InTurn
  <1>4. ASSUME NEW i \in 1 .. Len(v) PROVE v[i] \in Sealed
    <2>1. i + 1 \in 1 .. Len(u) /\ v[i] = u[i + 1]  BY <1>1
    <2> QED  BY <1>3, <2>1 DEF InTurn
  <1> QED  BY <1>1, <1>3, <1>4 DEF InTurn

\* The first and the second message of a handshake are sent.
LEMMA SendInTurn ==
  ASSUME NEW u \in Seq(Msg), NEW sent \in 0 .. 1, NEW read \in 0 .. 2, NEW m1, NEW m2, NEW n2,
         NEW m \in Msg, m = (IF sent = 0 THEN m1 ELSE n2), InTurn(u, sent, read, m1, m2)
  PROVE  u \o <<m>> \in Seq(Msg) /\ InTurn(u \o <<m>>, sent + 1, read, m1, n2)
  <1>1. /\ Len(u) \in Nat /\ <<m>> \in Seq(Msg) /\ Len(<<m>>) = 1 /\ <<m>>[1] = m
    BY LenProperties
  <1>2. /\ u \o <<m>> \in Seq(Msg) /\ Len(u \o <<m>>) = Len(u) + 1
        /\ \A i \in 1 .. Len(u) + 1 :
             (u \o <<m>>)[i] = IF i <= Len(u) THEN u[i] ELSE <<m>>[i - Len(u)]
    BY <1>1, ConcatProperties
  <1>3. read <= sent /\ Len(u) = sent - read  BY DEF InTurn
  <1>4. ASSUME NEW i \in 1 .. Len(u) + 1
        PROVE  i <= sent + 1 - read /\ (u \o <<m>>)[i] = IF read + i = 1 THEN m1 ELSE n2
    <2>1. CASE i <= Len(u)
      <3>1. u[i] = IF read + i = 1 THEN m1 ELSE m2  BY <1>3, <2>1 DEF InTurn
      <3>2. read + i = 1  BY <1>3, <2>1
      <3> QED  BY <1>2, <1>3, <2>1, <3>1, <3>2
    <2>2. CASE i = Len(u) + 1
      <3>1. (u \o <<m>>)[i] = m  BY <1>1, <1>2, <2>2
      <3>2. read + i = sent + 1  BY <1>3, <2>2
      <3> QED  BY <1>3, <2>2, <3>1, <3>2
    <2> QED  BY <1>1, <2>1, <2>2
  <1> QED  BY <1>1, <1>2, <1>3, <1>4 DEF InTurn

\* Sealed messages are sent after both.
LEMMA SealInTurn ==
  ASSUME NEW u \in Seq(Msg), NEW read \in 0 .. 2, NEW m1, NEW m2, NEW ms \in Seq(Sealed),
         ms \in Seq(Msg), InTurn(u, 2, read, m1, m2)
  PROVE  u \o ms \in Seq(Msg) /\ InTurn(u \o ms, 2, read, m1, m2)
  <1>1. Len(u) \in Nat /\ Len(ms) \in Nat  BY LenProperties
  <1>2. /\ u \o ms \in Seq(Msg) /\ Len(u \o ms) = Len(u) + Len(ms)
        /\ \A i \in 1 .. Len(u) + Len(ms) :
             (u \o ms)[i] = IF i <= Len(u) THEN u[i] ELSE ms[i - Len(u)]
    BY ConcatProperties
  <1>3. \A i \in 1 .. Len(ms) : ms[i] \in Sealed  BY ElementOfSeq
  <1>4. ASSUME NEW i \in 1 .. Len(u \o ms)
        PROVE  IF i <= 2 - read THEN (u \o ms)[i] = IF read + i = 1 THEN m1 ELSE m2
               ELSE (u \o ms)[i] \in Sealed
    <2>1. CASE i <= Len(u)  BY <1>1, <1>2, <2>1 DEF InTurn
    <2>2. CASE ~(i <= Len(u))
      <3>1. i - Len(u) \in 1 .. Len(ms)  BY <1>1, <1>2, <2>2
      <3>2. ~(i <= 2 - read)  BY <1>1, <2>2 DEF InTurn
      <3> QED  BY <1>2, <1>3, <2>2, <3>1, <3>2
    <2> QED  BY <2>1, <2>2
  <1> QED  BY <1>1, <1>2, <1>4 DEF InTurn

-----------------------------------------------------------------------------
\* The invariant is about two sides.
LEMMA BothSides ==
  ASSUME NEW s \in Side, EsTypeOK', StreamOK(s)', StreamOK(Peer(s))', ShakeOK(s)',
         ShakeOK(Peer(s))'
  PROVE  EsInv'
  BY Sides DEF EsInv

\* What the states say of a step of one side.
LEMMA StatesTyped ==
  ASSUME NEW s \in Side, EsTypeOK
  PROVE  /\ SentIn(hs[s]) \in 0 .. 2 /\ ReadIn(hs[s]) \in 0 .. 2
         /\ passwordOf[s] \in Password
  BY DEF SentIn, ReadIn, EsTypeOK

LEMMA EsInvInit == EsInit => EsInv
  <1> SUFFICES ASSUME EsInit PROVE EsInv
    OBVIOUS
  <1>1. EsTypeOK
    <2>1. Len(FrameSizes) \in Nat  BY EstablishAssumption, LenProperties
    <2>2. passwordOf \in [Side -> Password] /\ peerFp \in [Side -> Fingerprint]
      BY DEF EsInit
    <2>3. frameLog \in [Side -> Seq(Nat)]  BY EmptySeq DEF EsInit
    <2> QED  BY <2>1, <2>2, <2>3 DEF EsInit, EsTypeOK, Fresh
  <1>2. ASSUME NEW s \in Side PROVE StreamOK(s) /\ ShakeOK(s)
    <2>1. inbox[s] = <<>> /\ line[s] = <<>> /\ deferred[s] = <<>> /\ hs[s] = "none"
          /\ hs[Peer(s)] = "none"
      BY Sides DEF EsInit
    <2>2. Unread(s) = <<>>  BY <2>1, EmptySeq, ConcatEmptySeq DEF Unread
    <2>3. <<>> \in Seq(Msg) /\ <<>> \in Seq(Sealed) /\ Len(<<>>) = 0  BY EmptySeq
    <2>4. \A m1, m2 : InTurn(<<>>, 0, 0, m1, m2)  BY <2>3 DEF InTurn
    <2>5. SentIn(hs[Peer(s)]) = 0 /\ ReadIn(hs[s]) = 0  BY <2>1 DEF SentIn, ReadIn
    <2>6. StreamOK(s)  BY <2>1, <2>2, <2>3, <2>4, <2>5 DEF StreamOK
    <2>7. ShakeOK(s)  BY <2>1 DEF EsInit, ShakeOK, Early
    <2> QED  BY <2>6, <2>7
  <1> QED  BY <1>1, <1>2 DEF EsInv

-----------------------------------------------------------------------------
LEMMA HandshakeStarts ==
  ASSUME EsInv, NEW s \in Side, StartsHandshake(s)
  PROVE  EsInv'
  <1>0. EsTypeOK /\ StreamOK(s) /\ ShakeOK(s) /\ StreamOK(Peer(s)) /\ ShakeOK(Peer(s))
    BY Sides DEF EsInv
  <1>1. /\ hs[s] = "none" /\ hs'[s] = "pake" /\ hs'[Peer(s)] = hs[Peer(s)]
        /\ line'[s] = line[s]
        /\ line'[Peer(s)] = line[Peer(s)] \o <<Pake(passwordOf[s])>>
        /\ UNCHANGED <<passwordOf, peerFp, channel, keyOf, side, inbox, deferred, sentFrames,
                       assembly, frameLog>>
    BY <1>0, Sides DEF StartsHandshake, Sends, EsTypeOK, inputs, stream
  <1>2. EsTypeOK'  BY <1>0, <1>1 DEF EsTypeOK, StartsHandshake, Sends
  <1>3. StreamOK(s)'
    <2>1. ReadIn(hs'[s]) = ReadIn(hs[s])  BY <1>1 DEF ReadIn
    <2> QED  BY <1>0, <1>1, <2>1 DEF StreamOK, Unread, Tag
  <1>4. StreamOK(Peer(s))'
    <2> DEFINE m == Pake(passwordOf[s])
    <2> DEFINE u == Unread(Peer(s))
    <2>1. m \in Msg /\ <<m>> \in Seq(Msg)  BY <1>0, StatesTyped, Kinds DEF Msg, Pake
    <2>2. inbox[Peer(s)] \in Seq(Msg) /\ line[Peer(s)] \in Seq(Msg)  BY <1>0 DEF StreamOK
    <2>3. u \in Seq(Msg) /\ Unread(Peer(s))' = u \o <<m>>
      <3>1. Unread(Peer(s))' = inbox[Peer(s)] \o (line[Peer(s)] \o <<m>>)
        BY <1>1 DEF Unread
      <3> HIDE DEF m
      <3>2. <<m>> \in Seq(Msg)  BY <2>1
      <3>3. /\ inbox[Peer(s)] \o line[Peer(s)] \in Seq(Msg)
            /\ Regroups(inbox[Peer(s)], line[Peer(s)], <<m>>)
        BY <2>2, <3>2, LaterSent
      <3> QED  BY <3>1, <3>3 DEF Unread, Regroups
    <2>4. InTurn(u, 0, ReadIn(hs[Peer(s)]), m, Binding(Tag(s, keyOf[s])))
      BY <1>0, <1>1, Sides DEF StreamOK, SentIn
    <2>5. ReadIn(hs[Peer(s)]) \in 0 .. 2  BY <1>0, Sides, StatesTyped
    <2> HIDE DEF m, u
    <2>6. InTurn(u \o <<m>>, 0 + 1, ReadIn(hs[Peer(s)]), m, Binding(Tag(s, keyOf[s])))
      BY <2>1, <2>3, <2>4, <2>5, SendInTurn
    <2>7. line'[Peer(s)] \in Seq(Msg)  BY <1>1, <2>1, <2>2, ConcatProperties DEF m
    <2> QED
      <3>1. Peer(Peer(s)) = s /\ SentIn(hs'[s]) = 0 + 1 /\ Tag(s, keyOf[s])' = Tag(s, keyOf[s])
        BY <1>1, Sides DEF SentIn, Tag
      <3>2. inbox'[Peer(s)] \in Seq(Msg) /\ deferred'[Peer(s)] \in Seq(Sealed)
        BY <1>0, <1>1 DEF StreamOK
      <3> QED  BY <1>1, <2>3, <2>6, <2>7, <3>1, <3>2 DEF StreamOK, m
  <1>5. ShakeOK(s)' /\ ShakeOK(Peer(s))'
    BY <1>0, <1>1, Sides DEF ShakeOK, Early, Tag, DerivedKey
  <1> QED  BY <1>2, <1>3, <1>4, <1>5, BothSides

LEMMA DrainKeeps ==
  ASSUME EsInv, NEW s \in Side, Drains(s)
  PROVE  EsInv'
  <1>0. EsTypeOK /\ StreamOK(s) /\ ShakeOK(s) /\ StreamOK(Peer(s)) /\ ShakeOK(Peer(s))
    BY Sides DEF EsInv
  <1>1. PICK n \in 1 .. MaxBatch :
          /\ n <= Len(line[s])
          /\ inbox' = [inbox EXCEPT ![s] = SubSeq(line[s], 1, n)]
          /\ line' = [line EXCEPT ![s] = SubSeq(@, n + 1, Len(@))]
    BY DEF Drains
  <1>2. /\ inbox'[s] = SubSeq(line[s], 1, n) /\ line'[s] = SubSeq(line[s], n + 1, Len(line[s]))
        /\ inbox'[Peer(s)] = inbox[Peer(s)] /\ line'[Peer(s)] = line[Peer(s)]
        /\ inbox[s] = <<>> /\ hs[s] # "none"
        /\ UNCHANGED <<passwordOf, peerFp, channel, hs, keyOf, side, deferred, sentFrames,
                       assembly, frameLog>>
    BY <1>0, <1>1, Sides DEF Drains, EsTypeOK, inputs, shakes, stream
  <1>3. EsTypeOK'  BY <1>0, <1>1, <1>2 DEF EsTypeOK
  <1>4. StreamOK(s)'
    <2>1. line[s] \in Seq(Msg) /\ Len(line[s]) \in Nat /\ n \in Nat /\ 1 <= n
      BY <1>0, EstablishAssumption, LenProperties DEF StreamOK
    <2>2. inbox'[s] \in Seq(Msg) /\ line'[s] \in Seq(Msg)
      <3>1. \A i \in 1 .. Len(line[s]) : line[s][i] \in Msg  BY <2>1, ElementOfSeq
      <3>2. \A i \in 1 .. n : line[s][i] \in Msg  BY <1>1, <2>1, <3>1
      <3>3. \A i \in n + 1 .. Len(line[s]) : line[s][i] \in Msg  BY <2>1, <3>1
      <3>4. SubSeq(line[s], 1, n) \in Seq(Msg)  BY <2>1, <3>2, SubSeqProperties
      <3>5. n + 1 \in Int /\ Len(line[s]) \in Int  BY <2>1
      <3>6. SubSeq(line[s], n + 1, Len(line[s])) \in Seq(Msg)  BY <3>3, <3>5, SubSeqProperties
      <3> QED  BY <1>2, <3>4, <3>6
    <2>3. SubSeq(line[s], 1, n) \o SubSeq(line[s], n + 1, Len(line[s])) = line[s]
      BY <1>1, <2>1, ConcatAdjacentSubSeq, SubSeqFull
    <2>4. Unread(s)' = Unread(s)
      BY <1>2, <2>1, <2>3, ConcatEmptySeq DEF Unread
    <2> QED  BY <1>0, <1>2, <2>2, <2>4 DEF StreamOK, Tag
  <1>5. StreamOK(Peer(s))'  BY <1>0, <1>2 DEF StreamOK, Unread, Tag
  <1>6. ShakeOK(s)' /\ ShakeOK(Peer(s))'
    BY <1>0, <1>2 DEF ShakeOK, Early, Tag, DerivedKey
  <1> QED  BY <1>3, <1>4, <1>5, <1>6, BothSides

\* What a look at a message of the handshake, or at a sealed one, finds.
LEMMA LookFinds ==
  ASSUME EsInv, NEW s \in Side, inbox[s] # <<>>
  PROVE  /\ Head(inbox[s]) \in Msg
         /\ Tail(inbox[s]) \in Seq(Msg)
         /\ Head(inbox[s]) \notin Sealed =>
              /\ ReadIn(hs[s]) < SentIn(hs[Peer(s)])
              /\ Head(inbox[s]) = IF ReadIn(hs[s]) = 0 THEN Pake(passwordOf[Peer(s)])
                                  ELSE Binding(Tag(Peer(s), keyOf[Peer(s)]))
              /\ InTurn(Tail(inbox[s]) \o line[s], SentIn(hs[Peer(s)]), ReadIn(hs[s]) + 1,
                        Pake(passwordOf[Peer(s)]), Binding(Tag(Peer(s), keyOf[Peer(s)])))
         /\ Head(inbox[s]) \in Sealed =>
              /\ ReadIn(hs[s]) = 2 /\ SentIn(hs[Peer(s)]) = 2
              /\ InTurn(Tail(inbox[s]) \o line[s], SentIn(hs[Peer(s)]), ReadIn(hs[s]),
                        Pake(passwordOf[Peer(s)]), Binding(Tag(Peer(s), keyOf[Peer(s)])))
  <1> DEFINE m1 == Pake(passwordOf[Peer(s)])
  <1> DEFINE m2 == Binding(Tag(Peer(s), keyOf[Peer(s)]))
  <1>0. EsTypeOK /\ StreamOK(s) /\ ShakeOK(Peer(s)) /\ Peer(s) \in Side
    BY Sides DEF EsInv
  <1>1. /\ ReadIn(hs[s]) \in 0 .. 2 /\ SentIn(hs[Peer(s)]) \in 0 .. 2
        /\ passwordOf[Peer(s)] \in Password /\ passwordOf[s] \in Password
    BY <1>0, StatesTyped
  <1>2. keyOf[Peer(s)] \in Keys  BY <1>0, <1>1, Sides, KeysTyped DEF ShakeOK
  <1>3. m1 \in Msg \ Sealed /\ m2 \in Msg \ Sealed  BY <1>0, <1>1, <1>2, KeysTyped, Kinds
  <1>4. /\ inbox[s] \in Seq(Msg) /\ line[s] \in Seq(Msg)
        /\ InTurn(Unread(s), SentIn(hs[Peer(s)]), ReadIn(hs[s]), m1, m2)
    BY <1>0 DEF StreamOK
  <1> DEFINE v == Tail(inbox[s]) \o line[s]
  <1>5. /\ Unread(s) \in Seq(Msg) /\ Unread(s) # <<>> /\ Unread(s)[1] = Head(inbox[s])
        /\ v \in Seq(Msg) /\ Len(v) = Len(Unread(s)) - 1
        /\ \A i \in 1 .. Len(v) : v[i] = Unread(s)[i + 1]
    BY <1>4, AfterOne DEF Unread
  <1>6. Head(inbox[s]) \in Msg /\ Tail(inbox[s]) \in Seq(Msg)
    BY <1>4, HeadTailProperties
  <1> HIDE DEF m1, m2, v
  <1>7. ASSUME Head(inbox[s]) \notin Sealed
        PROVE  /\ ReadIn(hs[s]) < SentIn(hs[Peer(s)])
               /\ Head(inbox[s]) = IF ReadIn(hs[s]) = 0 THEN m1 ELSE m2
               /\ InTurn(v, SentIn(hs[Peer(s)]), ReadIn(hs[s]) + 1, m1, m2)
    BY <1>1, <1>4, <1>5, <1>7, ReadInTurn, SMTT(30)
  <1>8. ASSUME Head(inbox[s]) \in Sealed
        PROVE  /\ ReadIn(hs[s]) = 2 /\ SentIn(hs[Peer(s)]) = 2
               /\ InTurn(v, SentIn(hs[Peer(s)]), ReadIn(hs[s]), m1, m2)
    <2>1. Unread(s)[1] \in Sealed  BY <1>5, <1>8
    <2>2. m1 \notin Sealed /\ m2 \notin Sealed  BY <1>3
    <2> QED  BY <1>1, <1>4, <1>5, <2>1, <2>2, SkipInTurn, SMTT(30)
  <1> QED  BY <1>6, <1>7, <1>8 DEF m1, m2, v

\* What a look changes at the side that looks.
LEMMA LookChanges ==
  ASSUME EsTypeOK, NEW s \in Side, NEW type, Looks(s, type)
  PROVE  /\ inbox[s] # <<>> /\ Head(inbox[s]).type = type /\ side[s] = "driving"
         /\ inbox'[s] = Tail(inbox[s]) /\ inbox'[Peer(s)] = inbox[Peer(s)]
         /\ DOMAIN inbox' = Side
         /\ UNCHANGED <<passwordOf, peerFp, channel, side, sentFrames, assembly, frameLog>>
  BY Sides DEF Looks, EsTypeOK, Driving, inputs, stream

\* The other side's first message comes while it is waited for, and its second one next.
LEMMA PakeFound ==
  ASSUME EsInv, NEW s \in Side, OnPake(s)
  PROVE  /\ Head(inbox[s]) \notin Sealed /\ hs[s] = "pake" /\ ReadIn(hs[s]) = 0
         /\ Head(inbox[s]).password = passwordOf[Peer(s)]
  <1>0. EsTypeOK /\ ShakeOK(s)  BY DEF EsInv
  <1>1. inbox[s] # <<>> /\ Head(inbox[s]).type = "pake"
    BY <1>0, LookChanges DEF OnPake
  <1>3. Head(inbox[s]) \notin Sealed  BY <1>1 DEF Sealed
  <1>4. ReadIn(hs[s]) = 0 /\ Head(inbox[s]).password = passwordOf[Peer(s)]
    <2>1. Head(inbox[s]) = IF ReadIn(hs[s]) = 0 THEN Pake(passwordOf[Peer(s)])
                           ELSE Binding(Tag(Peer(s), keyOf[Peer(s)]))
      BY <1>1, <1>3, LookFinds
    <2> QED  BY <1>1, <2>1 DEF Pake, Binding
  <1>5. hs[s] = "pake"  BY <1>0, <1>1, <1>4 DEF ReadIn, ShakeOK
  <1> QED  BY <1>3, <1>4, <1>5

LEMMA BindingFound ==
  ASSUME EsInv, NEW s \in Side, OnBinding(s)
  PROVE  /\ Head(inbox[s]) \notin Sealed /\ hs[s] = "binding" /\ ~Early(Peer(s))
         /\ hs' = [hs EXCEPT ![s] = IF Tag(s, keyOf[s]) = Tag(Peer(s), keyOf[Peer(s)])
                                    THEN "confirmed" ELSE "failed"]
  <1>0. EsTypeOK  BY DEF EsInv
  <1>1. inbox[s] # <<>> /\ Head(inbox[s]).type = "binding"
    BY <1>0, LookChanges DEF OnBinding
  <1>2. Head(inbox[s]) \notin Sealed  BY <1>1 DEF Sealed
  <1>3. /\ ReadIn(hs[s]) = 1 /\ SentIn(hs[Peer(s)]) = 2
        /\ Head(inbox[s]).tag = Tag(Peer(s), keyOf[Peer(s)])
    <2>1. ReadIn(hs[s]) \in 0 .. 2 /\ SentIn(hs[Peer(s)]) \in 0 .. 2
      BY <1>0, Sides, StatesTyped
    <2>2. /\ Head(inbox[s]) = IF ReadIn(hs[s]) = 0 THEN Pake(passwordOf[Peer(s)])
                              ELSE Binding(Tag(Peer(s), keyOf[Peer(s)]))
          /\ ReadIn(hs[s]) < SentIn(hs[Peer(s)])
      BY <1>1, <1>2, LookFinds
    <2>3. ReadIn(hs[s]) # 0  BY <1>1, <2>2 DEF Pake
    <2> QED  BY <2>1, <2>2, <2>3 DEF Binding
  <1>4. hs[s] = "binding" /\ ~Early(Peer(s))
    BY <1>3 DEF ReadIn, SentIn, Early
  <1> QED  BY <1>0, <1>2, <1>3, <1>4 DEF OnBinding, Matches, EsTypeOK

LEMMA OnPakeKeeps ==
  ASSUME EsInv, NEW s \in Side, OnPake(s)
  PROVE  EsInv'
  <1>0. EsTypeOK /\ StreamOK(s) /\ ShakeOK(s) /\ StreamOK(Peer(s)) /\ ShakeOK(Peer(s))
    BY Sides DEF EsInv
  <1>1. /\ inbox[s] # <<>> /\ Head(inbox[s]).type = "pake"
        /\ inbox'[s] = Tail(inbox[s]) /\ inbox'[Peer(s)] = inbox[Peer(s)] /\ DOMAIN inbox' = Side
        /\ side[s] = "driving"
        /\ UNCHANGED <<passwordOf, peerFp, channel, side, sentFrames, assembly, frameLog>>
    BY <1>0, LookChanges DEF OnPake
  <1>2. passwordOf[Peer(s)] \in Password /\ passwordOf[s] \in Password
    BY <1>0, Sides, StatesTyped
  <1>3. Head(inbox[s]) \notin Sealed  BY PakeFound
  <1>4. ReadIn(hs[s]) = 0 /\ Head(inbox[s]).password = passwordOf[Peer(s)]  BY PakeFound
  <1>5. hs[s] = "pake"  BY PakeFound
  <1> DEFINE key == DerivedKey(s, passwordOf[Peer(s)])
  <1>6. /\ hs'[s] = "binding" /\ hs'[Peer(s)] = hs[Peer(s)]
        /\ keyOf'[s] = key /\ keyOf'[Peer(s)] = keyOf[Peer(s)]
        /\ line'[s] = line[s] /\ line'[Peer(s)] = line[Peer(s)] \o <<Binding(Tag(s, key))>>
        /\ hs' \in [Side -> {"none", "pake", "binding", "confirmed", "failed"}]
        /\ DOMAIN line' = Side /\ DOMAIN keyOf' = Side /\ UNCHANGED deferred
    <2>1. /\ hs' = [hs EXCEPT ![s] = "binding"] /\ keyOf' = [keyOf EXCEPT ![s] = key]
          /\ line' = [line EXCEPT ![Peer(s)] = @ \o <<Binding(Tag(s, key))>>]
          /\ UNCHANGED deferred
      BY <1>4, <1>5 DEF OnPake, Sends
    <2>2. /\ hs \in [Side -> {"none", "pake", "binding", "confirmed", "failed"}]
          /\ DOMAIN keyOf = Side /\ DOMAIN line = Side
      BY <1>0 DEF EsTypeOK
    <2> HIDE DEF key
    <2> QED  BY <2>1, <2>2, Sides
  <1>7. EsTypeOK'  BY <1>0, <1>1, <1>6 DEF EsTypeOK
  <1>8. keyOf[s] = NoKey /\ hs[Peer(s)] \notin {"confirmed", "failed"}
    BY <1>0, <1>5, Sides DEF ShakeOK, Early
  <1>9. StreamOK(s)'
    <2>1. ReadIn(hs'[s]) = ReadIn(hs[s]) + 1  BY <1>5, <1>6 DEF ReadIn
    <2>2. Tail(inbox[s]) \in Seq(Msg)  BY <1>1, LookFinds
    <2> QED
      BY <1>0, <1>1, <1>3, <1>6, <2>1, <2>2, LookFinds DEF StreamOK, Unread, Tag
  <1>10. StreamOK(Peer(s))'
    <2> DEFINE m == Binding(Tag(s, key))
    <2> DEFINE u == Unread(Peer(s))
    <2>1. m \in Msg /\ <<m>> \in Seq(Msg)
      BY <1>0, <1>2, KeysTyped, Kinds DEF Msg, Binding
    <2>2. inbox[Peer(s)] \in Seq(Msg) /\ line[Peer(s)] \in Seq(Msg)  BY <1>0 DEF StreamOK
    <2>3. u \in Seq(Msg) /\ Unread(Peer(s))' = u \o <<m>>
      <3>1. Unread(Peer(s))' = inbox[Peer(s)] \o (line[Peer(s)] \o <<m>>)
        BY <1>1, <1>6 DEF Unread
      <3> HIDE DEF m
      <3>2. <<m>> \in Seq(Msg)  BY <2>1
      <3>3. /\ inbox[Peer(s)] \o line[Peer(s)] \in Seq(Msg)
            /\ Regroups(inbox[Peer(s)], line[Peer(s)], <<m>>)
        BY <2>2, <3>2, LaterSent
      <3> QED  BY <3>1, <3>3 DEF Unread, Regroups
    <2> DEFINE first == Pake(passwordOf[s])
    <2> DEFINE before == Binding(Tag(s, keyOf[s]))
    <2>4. InTurn(u, 1, ReadIn(hs[Peer(s)]), first, before)
      BY <1>0, <1>5, Sides DEF StreamOK, SentIn
    <2>5. ReadIn(hs[Peer(s)]) \in 0 .. 2  BY <1>0, Sides, StatesTyped
    <2>6. line'[Peer(s)] \in Seq(Msg)
      <3>1. line'[Peer(s)] = line[Peer(s)] \o <<m>>  BY <1>6
      <3> HIDE DEF m
      <3> QED  BY <2>1, <2>2, <3>1, ConcatProperties
    <2> HIDE DEF m, u, first, before
    <2>7. InTurn(u \o <<m>>, 1 + 1, ReadIn(hs[Peer(s)]), first, m)
      BY <2>1, <2>3, <2>4, <2>5, SendInTurn
    <2>8. /\ Peer(Peer(s)) = s /\ SentIn(hs'[s]) = 1 + 1
          /\ first = Pake(passwordOf'[s]) /\ m = Binding(Tag(s, keyOf[s])')
      BY <1>1, <1>6, Sides DEF SentIn, Tag, m, first
    <2>9. inbox'[Peer(s)] \in Seq(Msg) /\ deferred'[Peer(s)] \in Seq(Sealed)
      BY <1>0, <1>1, <1>6 DEF StreamOK
    <2> QED  BY <1>6, <2>3, <2>6, <2>7, <2>8, <2>9 DEF StreamOK, Tag
  <1>11. ShakeOK(s)' /\ ShakeOK(Peer(s))'
    BY <1>0, <1>1, <1>5, <1>6, <1>8, Sides DEF ShakeOK, Early, DerivedKey
  <1> QED  BY <1>7, <1>9, <1>10, <1>11, BothSides

LEMMA OnBindingKeeps ==
  ASSUME EsInv, NEW s \in Side, OnBinding(s)
  PROVE  EsInv'
  <1>0. EsTypeOK /\ StreamOK(s) /\ ShakeOK(s) /\ StreamOK(Peer(s)) /\ ShakeOK(Peer(s))
    BY Sides DEF EsInv
  <1>1. /\ inbox[s] # <<>> /\ Head(inbox[s]).type = "binding"
        /\ inbox'[s] = Tail(inbox[s]) /\ inbox'[Peer(s)] = inbox[Peer(s)] /\ DOMAIN inbox' = Side
        /\ side[s] = "driving"
        /\ UNCHANGED <<passwordOf, peerFp, channel, side, sentFrames, assembly, frameLog>>
        /\ UNCHANGED <<keyOf, line, deferred>>
    BY <1>0, LookChanges DEF OnBinding
  <1>2. Head(inbox[s]) \notin Sealed  BY BindingFound
  <1>4. hs[s] = "binding" /\ ~Early(Peer(s))  BY BindingFound
  <1>5. /\ hs' \in [Side -> {"none", "pake", "binding", "confirmed", "failed"}]
        /\ hs'[Peer(s)] = hs[Peer(s)]
        /\ hs'[s] = IF Tag(s, keyOf[s]) = Tag(Peer(s), keyOf[Peer(s)]) THEN "confirmed"
                    ELSE "failed"
    <2> DEFINE found == IF Tag(s, keyOf[s]) = Tag(Peer(s), keyOf[Peer(s)]) THEN "confirmed"
                        ELSE "failed"
    <2>1. hs' = [hs EXCEPT ![s] = found] /\ found \in {"confirmed", "failed"}  BY BindingFound
    <2> HIDE DEF found
    <2>2. /\ hs' \in [Side -> {"none", "pake", "binding", "confirmed", "failed"}]
          /\ hs'[Peer(s)] = hs[Peer(s)] /\ hs'[s] = found
      BY <1>0, <2>1, Sides DEF EsTypeOK
    <2> QED  BY <2>2 DEF found
  <1>6. EsTypeOK'  BY <1>0, <1>1, <1>5 DEF EsTypeOK
  <1>7. \A t \in Side : Tag(t, keyOf[t])' = Tag(t, keyOf[t])  BY <1>1 DEF Tag
  <1>8. StreamOK(s)'
    <2>1. ReadIn(hs'[s]) = ReadIn(hs[s]) + 1  BY <1>4, <1>5 DEF ReadIn
    <2>2. Tail(inbox[s]) \in Seq(Msg)  BY <1>1, LookFinds
    <2>3. Tag(Peer(s), keyOf[Peer(s)])' = Tag(Peer(s), keyOf[Peer(s)])  BY <1>7, Sides
    <2> QED
      BY <1>0, <1>1, <1>2, <1>5, <2>1, <2>2, <2>3, LookFinds DEF StreamOK, Unread
  <1>9. StreamOK(Peer(s))'
    <2>1. SentIn(hs'[s]) = SentIn(hs[s])  BY <1>4, <1>5 DEF SentIn
    <2> QED  BY <1>0, <1>1, <1>5, <1>7, <2>1, Sides DEF StreamOK, Unread
  <1>10. ShakeOK(s)' /\ ShakeOK(Peer(s))'
    BY <1>0, <1>1, <1>4, <1>5, <1>7, Sides DEF ShakeOK, Early, DerivedKey
  <1> QED  BY <1>6, <1>8, <1>9, <1>10, BothSides

LEMMA OnOtherKeeps ==
  ASSUME EsInv, NEW s \in Side, OnOther(s)
  PROVE  EsInv'
  <1>0. EsTypeOK /\ StreamOK(s) /\ ShakeOK(s) /\ StreamOK(Peer(s)) /\ ShakeOK(Peer(s))
    BY Sides DEF EsInv
  <1>1. /\ inbox[s] # <<>> /\ Head(inbox[s]).type = "sealed"
        /\ inbox'[s] = Tail(inbox[s]) /\ inbox'[Peer(s)] = inbox[Peer(s)] /\ DOMAIN inbox' = Side
        /\ side[s] = "driving"
        /\ UNCHANGED <<passwordOf, peerFp, channel, side, sentFrames, assembly, frameLog>>
        /\ UNCHANGED <<hs, keyOf, line>>
    BY <1>0, LookChanges DEF OnOther, shakes
  <1>2. Head(inbox[s]) \in Sealed /\ Tail(inbox[s]) \in Seq(Msg)
    BY <1>1, LookFinds DEF Msg
  <1>3. /\ deferred'[s] = Append(deferred[s], Head(inbox[s])) /\ deferred'[s] \in Seq(Sealed)
        /\ deferred'[Peer(s)] = deferred[Peer(s)] /\ DOMAIN deferred' = Side
    BY <1>0, <1>2, Sides, AppendProperties DEF OnOther, Defers, EsTypeOK, StreamOK
  <1>4. EsTypeOK'  BY <1>0, <1>1, <1>3 DEF EsTypeOK
  <1>5. \A t \in Side : Tag(t, keyOf[t])' = Tag(t, keyOf[t])  BY <1>1 DEF Tag
  <1>6. StreamOK(s)'
    BY <1>0, <1>1, <1>2, <1>3, <1>5, LookFinds, Sides DEF StreamOK, Unread
  <1>7. StreamOK(Peer(s))'  BY <1>0, <1>1, <1>3, <1>5, Sides DEF StreamOK, Unread
  <1>8. ShakeOK(s)' /\ ShakeOK(Peer(s))'
    BY <1>0, <1>1, <1>2, <1>5, LookFinds, Sides DEF ShakeOK, Early, DerivedKey, ReadIn
  <1> QED  BY <1>4, <1>6, <1>7, <1>8, BothSides

-----------------------------------------------------------------------------
LEMMA StillKeeps ==
  ASSUME EsInv, NEW s \in Side, ChannelOpens(s) \/ GivesUpDriving(s)
  PROVE  EsInv'
  <1>0. EsTypeOK /\ StreamOK(s) /\ ShakeOK(s) /\ StreamOK(Peer(s)) /\ ShakeOK(Peer(s))
    BY Sides DEF EsInv
  <1>1. /\ UNCHANGED <<passwordOf, peerFp, hs, keyOf, line, inbox, deferred, sentFrames, assembly,
                       frameLog>>
        /\ side' \in [Side -> {"driving", "session", "left"}]
        /\ side'[s] \in {side[s], "left"} /\ side'[Peer(s)] = side[Peer(s)]
        /\ channel' \in [Side -> BOOLEAN]
    BY <1>0, Sides DEF ChannelOpens, GivesUpDriving, inputs, shakes, stream, EsTypeOK
  <1>2. EsTypeOK'  BY <1>0, <1>1 DEF EsTypeOK
  <1>3. StreamOK(s)' /\ StreamOK(Peer(s))'  BY <1>0, <1>1 DEF StreamOK, Unread, Tag
  <1>4. ShakeOK(s)' /\ ShakeOK(Peer(s))'  BY <1>0, <1>1 DEF ShakeOK, Early, Tag, DerivedKey
  <1> QED  BY <1>2, <1>3, <1>4, BothSides

\* When both have sent and read everything of the handshake, all the rest is sealed.
LEMMA AllSealed ==
  ASSUME NEW u \in Seq(Msg), NEW m1, NEW m2
  PROVE  InTurn(u, 2, 2, m1, m2) <=> u \in Seq(Sealed)
  <1>1. Len(u) \in Nat  BY LenProperties
  <1>2. InTurn(u, 2, 2, m1, m2) => u \in Seq(Sealed)
    <2>1. InTurn(u, 2, 2, m1, m2) => \A i \in 1 .. Len(u) : u[i] \in Sealed
      BY <1>1 DEF InTurn
    <2>2. u = [i \in 1 .. Len(u) |-> u[i]]  BY LenProperties
    <2> QED  BY <1>1, <2>1, <2>2, IsASeq
  <1>3. u \in Seq(Sealed) => InTurn(u, 2, 2, m1, m2)
    BY <1>1, ElementOfSeq DEF InTurn
  <1> QED  BY <1>2, <1>3

LEMMA SealedAreMsgs ==
  /\ Seq(Sealed) \subseteq Seq(Msg)
  /\ \A a, b \in Seq(Sealed) : a \o b \in Seq(Sealed)
  BY SeqMonotonic, ConcatProperties DEF Msg

\* A side that has confirmed has nothing but sealed messages to look at.
LEMMA ConfirmedSealed ==
  ASSUME EsInv, NEW s \in Side, hs[s] = "confirmed"
  PROVE  /\ ReadIn(hs[s]) = 2 /\ SentIn(hs[Peer(s)]) = 2 /\ Unread(s) \in Seq(Sealed)
         /\ keyOf[s] \in Keys
  <1>1. EsTypeOK /\ StreamOK(s) /\ ShakeOK(s) /\ Peer(s) \in Side  BY Sides DEF EsInv
  <1>2. ReadIn(hs[s]) = 2 /\ SentIn(hs[Peer(s)]) = 2
    BY <1>1 DEF ReadIn, SentIn, ShakeOK, Early
  <1>3. Unread(s) \in Seq(Msg)  BY <1>1 DEF StreamOK, InTurn
  <1>4. Unread(s) \in Seq(Sealed)  BY <1>1, <1>2, <1>3, AllSealed DEF StreamOK
  <1>5. passwordOf[Peer(s)] \in Password  BY <1>1, StatesTyped
  <1>6. keyOf[s] \in Keys  BY <1>1, <1>5, KeysTyped DEF ShakeOK
  <1> QED  BY <1>2, <1>4, <1>6

LEMMA ConfirmedKeeps ==
  ASSUME EsInv, NEW s \in Side, Confirmed(s)
  PROVE  EsInv'
  <1>0. EsTypeOK /\ StreamOK(s) /\ ShakeOK(s) /\ StreamOK(Peer(s)) /\ ShakeOK(Peer(s))
    BY Sides DEF EsInv
  <1>1. /\ hs[s] = "confirmed" /\ inbox[s] = <<>>
        /\ inbox'[s] = deferred[s] /\ inbox'[Peer(s)] = inbox[Peer(s)] /\ DOMAIN inbox' = Side
        /\ deferred'[s] = <<>> /\ deferred'[Peer(s)] = deferred[Peer(s)]
        /\ DOMAIN deferred' = Side
        /\ side' \in [Side -> {"driving", "session", "left"}]
        /\ side'[Peer(s)] = side[Peer(s)]
        /\ UNCHANGED <<passwordOf, peerFp, channel, hs, keyOf, line, sentFrames, assembly, frameLog>>
    BY <1>0, Sides DEF Confirmed, inputs, shakes, stream, EsTypeOK
  <1>2. EsTypeOK'  BY <1>0, <1>1 DEF EsTypeOK
  <1>3. StreamOK(s)'
    <2>1. line[s] \in Seq(Sealed)
      BY <1>0, <1>1, ConfirmedSealed, ConcatEmptySeq DEF Unread, StreamOK
    <2>2. deferred[s] \in Seq(Sealed) /\ <<>> \in Seq(Sealed)  BY <1>0, EmptySeq DEF StreamOK
    <2>3. Unread(s)' = deferred[s] \o line[s]  BY <1>1 DEF Unread
    <2>4. Unread(s)' \in Seq(Sealed) /\ Unread(s)' \in Seq(Msg) /\ inbox'[s] \in Seq(Msg)
      BY <1>1, <2>1, <2>2, <2>3, SealedAreMsgs
    <2>5. ReadIn(hs'[s]) = 2 /\ SentIn(hs'[Peer(s)]) = 2  BY <1>1, ConfirmedSealed
    <2>6. \A m1, m2 : InTurn(Unread(s)', 2, 2, m1, m2)  BY <2>4, AllSealed
    <2> QED  BY <1>0, <1>1, <2>2, <2>4, <2>5, <2>6 DEF StreamOK
  <1>4. StreamOK(Peer(s))'  BY <1>0, <1>1 DEF StreamOK, Unread, Tag
  <1>5. ShakeOK(s)' /\ ShakeOK(Peer(s))'
    BY <1>0, <1>1 DEF ShakeOK, Early, Tag, DerivedKey
  <1> QED  BY <1>2, <1>3, <1>4, <1>5, BothSides

\* The chunks of a frame are sealed messages.
LEMMA ChunksSealed ==
  ASSUME NEW s \in Side, keyOf[s] \in Keys, NEW n \in 1 .. Len(FrameSizes)
  PROVE  Chunks(s, n) \in Seq(Sealed)
  <1> DEFINE count == IF s = "host" THEN FrameSizes[n] ELSE 1
  <1>1. count \in Nat /\ n \in Nat
    BY EstablishAssumption, LenProperties, ElementOfSeq
  <1> HIDE DEF count
  <1>2. ASSUME NEW i \in 1 .. count
        PROVE  [type |-> "sealed", seal |-> Seal(s), seq |-> n, idx |-> i - 1, count |-> count]
                 \in Sealed
    <2>1. i - 1 \in Nat  BY <1>1
    <2> QED  BY <1>1, <2>1 DEF Sealed, Seal
  <1>3. [i \in 1 .. count |->
          [type |-> "sealed", seal |-> Seal(s), seq |-> n, idx |-> i - 1, count |-> count]]
          \in Seq(Sealed)
    BY <1>1, <1>2, IsASeq
  <1> QED  BY <1>3 DEF Chunks, count

LEMMA SendsFrameKeeps ==
  ASSUME EsInv, NEW s \in Side, SendsFrame(s)
  PROVE  EsInv'
  <1>0. EsTypeOK /\ StreamOK(s) /\ ShakeOK(s) /\ StreamOK(Peer(s)) /\ ShakeOK(Peer(s))
    BY Sides DEF EsInv
  <1>1. hs[s] = "confirmed" /\ keyOf[s] \in Keys
    BY <1>0, ConfirmedSealed DEF SendsFrame, ShakeOK
  <1>2. /\ sentFrames'[s] \in 1 .. Len(FrameSizes)
        /\ sentFrames' \in [Side -> 0 .. Len(FrameSizes)]
    <2>1. sentFrames \in [Side -> 0 .. Len(FrameSizes)] /\ Len(FrameSizes) \in Nat
      BY <1>0, EstablishAssumption, LenProperties DEF EsTypeOK
    <2>2. sentFrames[s] \in 0 .. Len(FrameSizes) /\ sentFrames[s] < Len(FrameSizes)
      BY <2>1 DEF SendsFrame
    <2>3. sentFrames[s] + 1 \in 1 .. Len(FrameSizes)  BY <2>1, <2>2
    <2>4. sentFrames' = [sentFrames EXCEPT ![s] = sentFrames[s] + 1]  BY DEF SendsFrame
    <2> QED  BY <2>1, <2>3, <2>4
  <1> DEFINE ms == Chunks(s, sentFrames'[s])
  <1>3. ms \in Seq(Sealed) /\ ms \in Seq(Msg)  BY <1>1, <1>2, ChunksSealed, SealedAreMsgs
  <1>4. /\ line'[s] = line[s] /\ line'[Peer(s)] = line[Peer(s)] \o ms /\ DOMAIN line' = Side
        /\ UNCHANGED <<passwordOf, peerFp, channel, hs, keyOf, side, inbox, deferred, assembly,
                       frameLog>>
    <2>1. line' = [line EXCEPT ![Peer(s)] = @ \o ms] /\ DOMAIN line = Side
      BY <1>0 DEF SendsFrame, Sends, EsTypeOK
    <2>2. UNCHANGED <<passwordOf, peerFp, channel, hs, keyOf, side, inbox, deferred, assembly,
                      frameLog>>
      BY DEF SendsFrame, inputs, shakes
    <2> HIDE DEF ms
    <2> QED  BY <2>1, <2>2, Sides
  <1> HIDE DEF ms
  <1>5. EsTypeOK'  BY <1>0, <1>2, <1>4 DEF EsTypeOK
  <1>6. StreamOK(s)'  BY <1>0, <1>4 DEF StreamOK, Unread, Tag
  <1>7. StreamOK(Peer(s))'
    <2> DEFINE u == Unread(Peer(s))
    <2> DEFINE first == Pake(passwordOf[s])
    <2> DEFINE second == Binding(Tag(s, keyOf[s]))
    <2>1. inbox[Peer(s)] \in Seq(Msg) /\ line[Peer(s)] \in Seq(Msg)  BY <1>0 DEF StreamOK
    <2>2. u \in Seq(Msg) /\ Unread(Peer(s))' = u \o ms
      <3>1. Unread(Peer(s))' = inbox[Peer(s)] \o (line[Peer(s)] \o ms)  BY <1>4 DEF Unread
      <3>2. /\ inbox[Peer(s)] \o line[Peer(s)] \in Seq(Msg)
            /\ Regroups(inbox[Peer(s)], line[Peer(s)], ms)
        BY <1>3, <2>1, LaterSent
      <3> QED  BY <3>1, <3>2 DEF Unread, Regroups
    <2>3. line'[Peer(s)] \in Seq(Msg)  BY <1>3, <1>4, <2>1, ConcatProperties
    <2>4. ReadIn(hs[Peer(s)]) \in 0 .. 2  BY <1>0, Sides, StatesTyped
    <2>5. InTurn(u, 2, ReadIn(hs[Peer(s)]), first, second)
      BY <1>0, <1>1, Sides DEF StreamOK, SentIn
    <2> HIDE DEF u, first, second
    <2>6. InTurn(u \o ms, 2, ReadIn(hs[Peer(s)]), first, second)
      BY <1>3, <2>2, <2>4, <2>5, SealInTurn
    <2>7. /\ Peer(Peer(s)) = s /\ SentIn(hs'[s]) = 2
          /\ first = Pake(passwordOf'[s]) /\ second = Binding(Tag(s, keyOf[s])')
      BY <1>1, <1>4, Sides DEF SentIn, Tag, first, second
    <2> QED  BY <1>0, <1>4, <2>2, <2>3, <2>6, <2>7 DEF StreamOK, Tag
  <1>8. ShakeOK(s)' /\ ShakeOK(Peer(s))'
    BY <1>0, <1>4 DEF ShakeOK, Early, Tag, DerivedKey
  <1> QED  BY <1>5, <1>6, <1>7, <1>8, BothSides

\* The Reassembler's state has its type, and what it gives are numbers of frames.
LEMMA PushedTyped ==
  ASSUME NEW a \in [seq : Nat, count : Nat, got : Nat], NEW m \in Sealed
  PROVE  /\ Pushed(a, m).next \in [seq : Nat, count : Nat, got : Nat]
         /\ Pushed(a, m).frame \in Seq(Nat)
  <1>1. m.seq \in Nat /\ m.count \in Nat  BY DEF Sealed
  <1> DEFINE b == IF m.idx = 0 THEN [seq |-> m.seq, count |-> m.count, got |-> 0] ELSE a
  <1>2. b \in [seq : Nat, count : Nat, got : Nat]  BY <1>1
  <1> HIDE DEF b
  <1>3. /\ [b EXCEPT !.seq = 0] \in [seq : Nat, count : Nat, got : Nat]
        /\ [b EXCEPT !.got = @ + 1] \in [seq : Nat, count : Nat, got : Nat]
    BY <1>2
  <1>4. <<m.seq>> \in Seq(Nat) /\ <<>> \in Seq(Nat)  BY <1>1, EmptySeq
  <1>5. Pushed(a, m) =
          IF b.seq # m.seq THEN [next |-> b, frame |-> <<>>]
          ELSE IF b.got + 1 >= b.count THEN [next |-> [b EXCEPT !.seq = 0], frame |-> <<m.seq>>]
          ELSE [next |-> [b EXCEPT !.got = @ + 1], frame |-> <<>>]
    BY DEF Pushed, b
  <1> QED  BY <1>2, <1>3, <1>4, <1>5

LEMMA ReceivesKeeps ==
  ASSUME EsInv, NEW s \in Side, Receives(s)
  PROVE  EsInv'
  <1>0. EsTypeOK /\ StreamOK(s) /\ ShakeOK(s) /\ StreamOK(Peer(s)) /\ ShakeOK(Peer(s))
    BY Sides DEF EsInv
  <1>1. /\ hs[s] = "confirmed" /\ ReadIn(hs[s]) = 2 /\ SentIn(hs[Peer(s)]) = 2
        /\ Unread(s) \in Seq(Sealed) /\ Unread(s) # <<>>
    BY <1>0, ConfirmedSealed DEF Receives, ShakeOK, Unread
  <1>2. /\ inbox[s] \in Seq(Msg) /\ line[s] \in Seq(Msg)
    BY <1>0 DEF StreamOK
  <1>3. /\ DOMAIN inbox' = Side /\ DOMAIN line' = Side
        /\ inbox'[Peer(s)] = inbox[Peer(s)] /\ line'[Peer(s)] = line[Peer(s)]
        /\ UNCHANGED <<passwordOf, peerFp, channel, hs, keyOf, side, deferred, sentFrames>>
    BY <1>0, Sides, SMTT(30) DEF Receives, inputs, shakes, EsTypeOK
  <1>4. inbox'[s] \in Seq(Msg) /\ line'[s] \in Seq(Msg) /\ Unread(s)' \in Seq(Sealed)
    <2>1. CASE inbox[s] # <<>>
      <3>1. inbox'[s] = Tail(inbox[s]) /\ line'[s] = line[s]
        BY <1>0, <2>1 DEF Receives, EsTypeOK
      <3>2. /\ Tail(inbox[s]) \o line[s] \in Seq(Msg)
            /\ Len(Tail(inbox[s]) \o line[s]) = Len(Unread(s)) - 1
            /\ \A i \in 1 .. Len(Tail(inbox[s]) \o line[s]) :
                 (Tail(inbox[s]) \o line[s])[i] = Unread(s)[i + 1]
        BY <1>2, <2>1, AfterOne DEF Unread
      <3> DEFINE v == Tail(inbox[s]) \o line[s]
      <3> HIDE DEF v
      <3>3. v \in Seq(Msg) /\ Len(v) \in Nat /\ Len(Unread(s)) \in Nat
            /\ Len(v) = Len(Unread(s)) - 1 /\ \A i \in 1 .. Len(v) : v[i] = Unread(s)[i + 1]
        BY <1>1, <3>2, LenProperties DEF v
      <3>4. \A i \in 1 .. Len(v) : v[i] \in Sealed  BY <1>1, <3>3, ElementOfSeq
      <3>5. v = [i \in 1 .. Len(v) |-> v[i]]  BY <3>3, LenProperties
      <3>6. v \in Seq(Sealed)  BY <3>3, <3>4, <3>5, IsASeq
      <3>7. Unread(s)' = v  BY <3>1 DEF Unread, v
      <3>8. Tail(inbox[s]) \in Seq(Msg)  BY <1>2, <2>1, HeadTailProperties
      <3> QED  BY <1>2, <3>1, <3>6, <3>7, <3>8
    <2>2. CASE inbox[s] = <<>>
      <3>1. inbox'[s] = <<>> /\ line'[s] = Tail(line[s])
        BY <1>0, <2>2 DEF Receives, EsTypeOK
      <3>2. Unread(s) = line[s]  BY <1>2, <2>2, ConcatEmptySeq DEF Unread
      <3>3. Tail(line[s]) \in Seq(Sealed)  BY <1>1, <3>2, HeadTailProperties
      <3>4. Tail(line[s]) \in Seq(Msg)  BY <3>3, SealedAreMsgs
      <3>5. Unread(s)' = Tail(line[s])  BY <3>1, <3>4, ConcatEmptySeq DEF Unread
      <3> QED  BY <1>2, <2>2, <3>1, <3>3, <3>4, <3>5
    <2> QED  BY <2>1, <2>2
  <1>5. EsTypeOK'
    <2> DEFINE m == Head(Unread(s))
    <2>1. m \in Sealed  BY <1>1, HeadTailProperties
    <2>2. m.type = "sealed"  BY <2>1 DEF Sealed
    <2>3. /\ assembly \in [Side -> [seq : Nat, count : Nat, got : Nat]]
          /\ frameLog \in [Side -> Seq(Nat)]
      BY <1>0 DEF EsTypeOK
    <2>4. /\ Pushed(assembly[s], m).next \in [seq : Nat, count : Nat, got : Nat]
          /\ Pushed(assembly[s], m).frame \in Seq(Nat)
      BY <2>1, <2>3, PushedTyped
    <2>5. assembly' = [assembly EXCEPT ![s] = Pushed(assembly[s], m).next]
      BY <2>2 DEF Receives, Unread
    <2>6. frameLog' = [frameLog EXCEPT ![s] = IF Opens(s, m.seal)
                                              THEN @ \o Pushed(assembly[s], m).frame ELSE @]
      BY <2>2 DEF Receives, Unread
    <2> HIDE DEF m
    <2>7. frameLog[s] \o Pushed(assembly[s], m).frame \in Seq(Nat)
      BY <2>3, <2>4, ConcatProperties
    <2>8. assembly' \in [Side -> [seq : Nat, count : Nat, got : Nat]]  BY <2>3, <2>4, <2>5
    <2>9. frameLog' \in [Side -> Seq(Nat)]  BY <2>3, <2>6, <2>7
    <2> QED  BY <1>0, <1>3, <2>8, <2>9 DEF EsTypeOK
  <1>6. StreamOK(s)'
    <2>1. Unread(s)' \in Seq(Msg)  BY <1>4, SealedAreMsgs
    <2>2. \A m1, m2 : InTurn(Unread(s)', 2, 2, m1, m2)  BY <1>4, <2>1, AllSealed
    <2> QED  BY <1>0, <1>1, <1>3, <1>4, <2>2 DEF StreamOK
  <1>7. StreamOK(Peer(s))'  BY <1>0, <1>3 DEF StreamOK, Unread, Tag
  <1>8. ShakeOK(s)' /\ ShakeOK(Peer(s))'
    BY <1>0, <1>1, <1>3 DEF ShakeOK, Early, Tag, DerivedKey
  <1> QED  BY <1>5, <1>6, <1>7, <1>8, BothSides

-----------------------------------------------------------------------------
LEMMA EsInvStep == EsInv /\ [EsNext]_esVars => EsInv'
  <1> SUFFICES ASSUME EsInv, [EsNext]_esVars PROVE EsInv'
    OBVIOUS
  <1>1. ASSUME NEW s \in Side, EsStep(s) PROVE EsInv'
    BY <1>1, StillKeeps, HandshakeStarts, DrainKeeps, OnPakeKeeps, OnBindingKeeps, OnOtherKeeps,
       ConfirmedKeeps, SendsFrameKeeps, ReceivesKeeps DEF EsStep
  <1>2. CASE UNCHANGED esVars
    BY <1>2 DEF esVars, inputs, shakes, stream, EsInv, EsTypeOK, StreamOK, ShakeOK, Unread, Early,
                Tag, DerivedKey
  <1> QED  BY <1>1, <1>2 DEF EsNext

\* The invariant holds of every behaviour of the two sides.
LEMMA EsInvariant == EsSpec => []EsInv
  BY EsInvInit, EsInvStep, PTL DEF EsSpec

(***************************************************************************)
(* The variables of both sides have their types (EsTypeOK).                *)
(***************************************************************************)
THEOREM EstablishTypeCorrect == EsSpec => []EsTypeOK
  <1>1. EsInv => EsTypeOK  BY DEF EsInv
  <1> QED  BY <1>1, EsInvariant, PTL

(***************************************************************************)
(* Handshake.on_message confirms a key only when the passwords, the keys   *)
(* and the fingerprints of both sides agree, and never on one side alone.  *)
(***************************************************************************)
THEOREM ConfirmationAgrees == EsSpec => []ConfirmedAgree
  <1>1. EsInv => ConfirmedAgree
    <2> SUFFICES ASSUME EsInv, NEW s \in Side, hs[s] = "confirmed"
                 PROVE  /\ passwordOf[s] = passwordOf[Peer(s)] /\ keyOf[s] = keyOf[Peer(s)]
                        /\ peerFp[s] = Peer(s) /\ peerFp[Peer(s)] = s
                        /\ hs[Peer(s)] # "failed"
      BY DEF ConfirmedAgree
    <2>1. ShakeOK(s) /\ ShakeOK(Peer(s)) /\ Peer(s) \in Side /\ Peer(Peer(s)) = s /\ Peer(s) # s
      BY Sides DEF EsInv
    <2>2. /\ keyOf[s] = DerivedKey(s, passwordOf[Peer(s)])
          /\ keyOf[Peer(s)] = DerivedKey(Peer(s), passwordOf[s])
          /\ Tag(s, keyOf[s]) = Tag(Peer(s), keyOf[Peer(s)])
      BY <2>1 DEF ShakeOK, Early
    <2>3. keyOf[s] = keyOf[Peer(s)] /\ {s, peerFp[s]} = {Peer(s), peerFp[Peer(s)]}
      BY <2>2 DEF Tag
    <2>4. passwordOf[s] = passwordOf[Peer(s)]
      <3>1. s \in Side /\ "shared" \notin Side  BY DEF Side
      <3> QED  BY <2>1, <2>2, <2>3, <3>1 DEF DerivedKey
    <2>5. peerFp[s] = Peer(s) /\ peerFp[Peer(s)] = s  BY <2>1, <2>3
    <2>6. hs[Peer(s)] # "failed"  BY <2>1, <2>2 DEF ShakeOK
    <2> QED  BY <2>3, <2>4, <2>5, <2>6
  <1> QED  BY <1>1, EsInvariant, PTL

-----------------------------------------------------------------------------
(***************************************************************************)
(* The frames.  The sealed messages a side has yet to open, those it keeps *)
(* aside first, lead from the chunk its Reassembler waits for to the first *)
(* one of the frame the other side sends next, chunk after chunk.          *)
(***************************************************************************)
Pos == [frame : Nat, chunk : Nat]

Count(p, n) == IF p = "host" THEN FrameSizes[n] ELSE 1

ChunkAt(p, seal, x) ==
  [type |-> "sealed", seal |-> seal, seq |-> x.frame, idx |-> x.chunk,
   count |-> Count(p, x.frame)]

NextPos(p, x) ==
  IF x.chunk + 1 >= Count(p, x.frame) THEN [frame |-> x.frame + 1, chunk |-> 0]
  ELSE [frame |-> x.frame, chunk |-> x.chunk + 1]

\* Message m leads from x to y: it is the chunk at x, or is none.
Leads(p, seal, m, x, y) ==
  IF m \in Sealed THEN m = ChunkAt(p, seal, x) /\ y = NextPos(p, x) ELSE y = x

Brings(q, p, seal, a, b) ==
  \E f \in [0 .. Len(q) -> Pos] :
    /\ f[0] = a /\ f[Len(q)] = b
    /\ \A i \in 1 .. Len(q) : Leads(p, seal, q[i], f[i - 1], f[i])

\* The chunk the Reassembler waits for, and the first one of the next frame.
At(s) == [frame |-> Len(frameLog[s]) + 1,
            chunk |-> IF assembly[s].seq = 0 THEN 0 ELSE assembly[s].got]
NextOf(p) == [frame |-> sentFrames[p] + 1, chunk |-> 0]

Waiting(s) == deferred[s] \o Unread(s)

FramesOK(s) ==
  /\ \A i \in DOMAIN frameLog[s] : frameLog[s][i] = i
  /\ side[s] = "session" => deferred[s] = <<>>
  /\ deferred[s] # <<>> => ReadIn(hs[s]) = 2
  /\ Early(Peer(s)) => frameLog[s] = <<>> /\ assembly[s] = Fresh /\ sentFrames[Peer(s)] = 0
  /\ assembly[s].seq # 0 =>
       /\ assembly[s].seq = Len(frameLog[s]) + 1 /\ assembly[s].got > 0
       /\ assembly[s].count = Count(Peer(s), Len(frameLog[s]) + 1)
  /\ Brings(Waiting(s), Peer(s), Seal(Peer(s)), At(s), NextOf(Peer(s)))

FrInv == EsInv /\ \A s \in Side : FramesOK(s)

-----------------------------------------------------------------------------
\* What holds no chunk leads nowhere.
LEMMA BringsNothing ==
  ASSUME NEW q \in Seq(Msg), NEW p, NEW seal, NEW a \in Pos,
         \A i \in 1 .. Len(q) : q[i] \notin Sealed
  PROVE  Brings(q, p, seal, a, a)
  <1> DEFINE f == [i \in 0 .. Len(q) |-> a]
  <1>1. Len(q) \in Nat  BY LenProperties
  <1>2. f \in [0 .. Len(q) -> Pos] /\ f[0] = a /\ f[Len(q)] = a  BY <1>1
  <1>3. ASSUME NEW i \in 1 .. Len(q) PROVE Leads(p, seal, q[i], f[i - 1], f[i])
    <2>1. i - 1 \in 0 .. Len(q) /\ i \in 0 .. Len(q)  BY <1>1
    <2> QED  BY <2>1 DEF Leads
  <1> QED  BY <1>2, <1>3 DEF Brings

\* No message leads nowhere else.
LEMMA EmptyBrings ==
  ASSUME NEW p, NEW seal, NEW a, NEW b, Brings(<<>>, p, seal, a, b)
  PROVE  a = b
  <1>1. Len(<<>>) = 0  BY EmptySeq
  <1> QED  BY <1>1 DEF Brings

\* One queue after the other.
LEMMA BringsBoth ==
  ASSUME NEW q \in Seq(Msg), NEW r \in Seq(Msg), NEW p, NEW seal, NEW a, NEW b, NEW c,
         Brings(q, p, seal, a, b), Brings(r, p, seal, b, c)
  PROVE  Brings(q \o r, p, seal, a, c)
  <1>1. Len(q) \in Nat /\ Len(r) \in Nat  BY LenProperties
  <1>2. PICK g \in [0 .. Len(q) -> Pos] :
          /\ g[0] = a /\ g[Len(q)] = b
          /\ \A i \in 1 .. Len(q) : Leads(p, seal, q[i], g[i - 1], g[i])
    BY DEF Brings
  <1>3. PICK h \in [0 .. Len(r) -> Pos] :
          /\ h[0] = b /\ h[Len(r)] = c
          /\ \A i \in 1 .. Len(r) : Leads(p, seal, r[i], h[i - 1], h[i])
    BY DEF Brings
  <1>4. /\ q \o r \in Seq(Msg) /\ Len(q \o r) = Len(q) + Len(r)
        /\ \A i \in 1 .. Len(q) + Len(r) :
             (q \o r)[i] = IF i <= Len(q) THEN q[i] ELSE r[i - Len(q)]
    BY ConcatProperties
  <1> DEFINE f == [i \in 0 .. Len(q) + Len(r) |-> IF i <= Len(q) THEN g[i] ELSE h[i - Len(q)]]
  <1>5. f \in [0 .. Len(q) + Len(r) -> Pos]
    <2> SUFFICES ASSUME NEW i \in 0 .. Len(q) + Len(r)
                 PROVE  (IF i <= Len(q) THEN g[i] ELSE h[i - Len(q)]) \in Pos
      OBVIOUS
    <2>1. CASE i <= Len(q)
      <3>1. i \in 0 .. Len(q)  BY <1>1, <2>1
      <3> QED  BY <2>1, <3>1
    <2>2. CASE ~(i <= Len(q))
      <3>1. i - Len(q) \in 0 .. Len(r)  BY <1>1, <2>2
      <3> QED  BY <2>2, <3>1
    <2> QED  BY <2>1, <2>2
  <1>6. /\ \A i \in 0 .. Len(q) : f[i] = g[i]
        /\ \A i \in Len(q) .. Len(q) + Len(r) : f[i] = h[i - Len(q)]
    <2>1. ASSUME NEW i \in 0 .. Len(q) PROVE f[i] = g[i]
      <3>1. i \in 0 .. Len(q) + Len(r) /\ i <= Len(q)  BY <1>1
      <3> QED  BY <3>1
    <2>2. ASSUME NEW i \in Len(q) .. Len(q) + Len(r) PROVE f[i] = h[i - Len(q)]
      <3>1. i \in 0 .. Len(q) + Len(r)  BY <1>1
      <3>2. CASE i <= Len(q)
        <4>1. i = Len(q) /\ i - Len(q) = 0  BY <1>1, <3>2
        <4> QED  BY <1>2, <1>3, <3>1, <4>1
      <3>3. CASE ~(i <= Len(q))  BY <3>1, <3>3
      <3> QED  BY <3>2, <3>3
    <2> QED  BY <2>1, <2>2
  <1> HIDE DEF f
  <1>7. f[0] = a /\ f[Len(q) + Len(r)] = c
    <2>1. 0 \in 0 .. Len(q) /\ Len(q) + Len(r) \in Len(q) .. Len(q) + Len(r)  BY <1>1
    <2>2. Len(q) + Len(r) - Len(q) = Len(r)  BY <1>1
    <2> QED  BY <1>2, <1>3, <1>6, <2>1, <2>2
  <1>8. ASSUME NEW i \in 1 .. Len(q) + Len(r)
        PROVE  Leads(p, seal, (q \o r)[i], f[i - 1], f[i])
    <2>1. CASE i <= Len(q)
      <3>1. i \in 1 .. Len(q) /\ i \in 0 .. Len(q) /\ i - 1 \in 0 .. Len(q)  BY <1>1, <2>1
      <3>2. (q \o r)[i] = q[i] /\ f[i - 1] = g[i - 1] /\ f[i] = g[i]
        BY <1>4, <1>6, <2>1, <3>1
      <3> QED  BY <1>2, <3>1, <3>2
    <2>2. CASE ~(i <= Len(q))
      <3> DEFINE j == i - Len(q)
      <3>1. /\ j \in 1 .. Len(r) /\ i \in Len(q) .. Len(q) + Len(r)
            /\ i - 1 \in Len(q) .. Len(q) + Len(r) /\ (i - 1) - Len(q) = j - 1
        BY <1>1, <2>2
      <3>2. f[i - 1] = h[(i - 1) - Len(q)] /\ f[i] = h[j]  BY <1>6, <3>1
      <3>3. (q \o r)[i] = r[j]  BY <1>4, <2>2
      <3> QED  BY <1>3, <3>1, <3>2, <3>3
    <2> QED  BY <2>1, <2>2
  <1> QED  BY <1>4, <1>5, <1>7, <1>8 DEF Brings

\* The first message is taken.
LEMMA BringsOn ==
  ASSUME NEW u \in Seq(Msg), NEW v \in Seq(Msg), NEW p, NEW seal, NEW a, NEW b,
         Brings(u, p, seal, a, b), u # <<>>,
         Len(v) = Len(u) - 1, \A i \in 1 .. Len(v) : v[i] = u[i + 1]
  PROVE  \E x \in Pos : Leads(p, seal, u[1], a, x) /\ Brings(v, p, seal, x, b)
  <1>1. Len(u) \in Nat /\ Len(u) > 0 /\ Len(v) \in Nat  BY EmptySeq, LenProperties
  <1>2. PICK g \in [0 .. Len(u) -> Pos] :
          /\ g[0] = a /\ g[Len(u)] = b
          /\ \A i \in 1 .. Len(u) : Leads(p, seal, u[i], g[i - 1], g[i])
    BY DEF Brings
  <1>3. 1 \in 1 .. Len(u) /\ 1 \in 0 .. Len(u) /\ 1 - 1 = 0  BY <1>1
  <1>4. g[1] \in Pos /\ Leads(p, seal, u[1], a, g[1])  BY <1>2, <1>3
  <1> DEFINE f == [i \in 0 .. Len(v) |-> g[i + 1]]
  <1>5. f \in [0 .. Len(v) -> Pos]
    <2> SUFFICES ASSUME NEW i \in 0 .. Len(v) PROVE g[i + 1] \in Pos
      OBVIOUS
    <2>1. i + 1 \in 0 .. Len(u)  BY <1>1
    <2> QED  BY <2>1
  <1>6. \A i \in 0 .. Len(v) : f[i] = g[i + 1]  OBVIOUS
  <1> HIDE DEF f
  <1>7. f[0] = g[1] /\ f[Len(v)] = b
    <2>1. 0 \in 0 .. Len(v) /\ Len(v) \in 0 .. Len(v) /\ 0 + 1 = 1 /\ Len(v) + 1 = Len(u)
      BY <1>1
    <2> QED  BY <1>2, <1>6, <2>1
  <1>8. ASSUME NEW i \in 1 .. Len(v) PROVE Leads(p, seal, v[i], f[i - 1], f[i])
    <2>1. /\ i \in 0 .. Len(v) /\ i - 1 \in 0 .. Len(v) /\ i + 1 \in 1 .. Len(u)
          /\ (i - 1) + 1 = (i + 1) - 1
      BY <1>1
    <2>2. f[i - 1] = g[(i + 1) - 1] /\ f[i] = g[i + 1]  BY <1>6, <2>1
    <2>3. Leads(p, seal, u[i + 1], g[(i + 1) - 1], g[i + 1])  BY <1>2, <2>1
    <2> QED  BY <2>2, <2>3
  <1>9. Brings(v, p, seal, g[1], b)  BY <1>5, <1>7, <1>8 DEF Brings
  <1> QED  BY <1>4, <1>9

\* The chunks of a frame lead to the next one.
LEMMA ChunksBring ==
  ASSUME NEW p \in Side, keyOf[p] \in Keys, NEW n \in 1 .. Len(FrameSizes)
  PROVE  Brings(Chunks(p, n), p, Seal(p), [frame |-> n, chunk |-> 0],
                [frame |-> n + 1, chunk |-> 0])
  <1> DEFINE count == Count(p, n)
  <1>1. count \in Nat /\ count > 0 /\ n \in Nat
    <2>1. Len(FrameSizes) \in Nat /\ DOMAIN FrameSizes = 1 .. Len(FrameSizes)
      BY EstablishAssumption, LenProperties
    <2>2. FrameSizes[n] \in Nat /\ FrameSizes[n] > 0
      BY <2>1, EstablishAssumption, ElementOfSeq
    <2> QED  BY <2>1, <2>2 DEF Count
  <1> DEFINE ms == Chunks(p, n)
  <1> DEFINE f == [i \in 0 .. count |-> IF i < count THEN [frame |-> n, chunk |-> i]
                                        ELSE [frame |-> n + 1, chunk |-> 0]]
  <1>2. ms = [i \in 1 .. count |-> ChunkAt(p, Seal(p), [frame |-> n, chunk |-> i - 1])]
    BY DEF Chunks, ChunkAt, Count
  <1>3. ms \in Seq(Sealed) /\ ms \in Seq(Msg)  BY ChunksSealed, SealedAreMsgs
  <1> HIDE DEF count
  <1>4. Len(ms) = count /\ \A i \in 1 .. count : ms[i] \in Sealed
    <2>1. DOMAIN ms = 1 .. count  BY <1>2
    <2> HIDE DEF ms
    <2>2. Len(ms) \in Nat /\ DOMAIN ms = 1 .. Len(ms)  BY <1>3, LenProperties
    <2>3. Len(ms) = count  BY <1>1, <2>1, <2>2
    <2> QED  BY <1>3, <2>3, ElementOfSeq
  <1>5. f \in [0 .. count -> Pos]  BY <1>1 DEF Pos
  <1>6. f[0] = [frame |-> n, chunk |-> 0] /\ f[count] = [frame |-> n + 1, chunk |-> 0]
    BY <1>1
  <1>7. ASSUME NEW i \in 1 .. count PROVE Leads(p, Seal(p), ms[i], f[i - 1], f[i])
    <2> DEFINE x == [frame |-> n, chunk |-> i - 1]
    <2>1. i - 1 \in 0 .. count /\ i - 1 < count /\ i \in 0 .. count  BY <1>1
    <2>2. f[i - 1] = x  BY <2>1
    <2>3. ms[i] = ChunkAt(p, Seal(p), x)  BY <1>2
    <2>4. f[i] = NextPos(p, x)
      <3>1. x.frame = n /\ x.chunk = i - 1 /\ x.chunk + 1 = i  BY <1>1
      <3>2. CASE i < count
        <4>1. f[i] = [frame |-> n, chunk |-> i]  BY <2>1, <3>2
        <4>2. ~(x.chunk + 1 >= Count(p, x.frame))  BY <1>1, <3>1, <3>2 DEF count
        <4> HIDE DEF x, f
        <4> QED  BY <3>1, <4>1, <4>2 DEF NextPos
      <3>3. CASE ~(i < count)
        <4>1. f[i] = [frame |-> n + 1, chunk |-> 0]  BY <2>1, <3>3
        <4>2. x.chunk + 1 >= Count(p, x.frame)  BY <1>1, <3>1, <3>3 DEF count
        <4> HIDE DEF x, f
        <4> QED  BY <3>1, <4>1, <4>2 DEF NextPos
      <3> QED  BY <3>2, <3>3
    <2> HIDE DEF x, f
    <2> QED  BY <1>4, <2>2, <2>3, <2>4 DEF Leads
  <1> HIDE DEF f, ms
  <1>8. Brings(ms, p, Seal(p), [frame |-> n, chunk |-> 0], [frame |-> n + 1, chunk |-> 0])
    BY <1>4, <1>5, <1>6, <1>7 DEF Brings
  <1> QED  BY <1>8 DEF ms

-----------------------------------------------------------------------------
\* What the two sides' states are made of.
LEMMA QueuesTyped ==
  ASSUME EsInv, NEW s \in Side
  PROVE  /\ inbox[s] \in Seq(Msg) /\ line[s] \in Seq(Msg) /\ deferred[s] \in Seq(Sealed)
         /\ deferred[s] \in Seq(Msg) /\ Unread(s) \in Seq(Msg) /\ Waiting(s) \in Seq(Msg)
  <1>1. StreamOK(s)  BY DEF EsInv
  <1>2. /\ inbox[s] \in Seq(Msg) /\ line[s] \in Seq(Msg) /\ deferred[s] \in Seq(Sealed)
        /\ deferred[s] \in Seq(Msg) /\ Unread(s) \in Seq(Msg)
    BY <1>1, SealedAreMsgs DEF StreamOK, InTurn
  <1>3. Waiting(s) \in Seq(Msg)  BY <1>2, ConcatProperties DEF Waiting
  <1> QED  BY <1>2, <1>3

LEMMA PositionsTyped ==
  ASSUME EsTypeOK, NEW s \in Side
  PROVE  At(s) \in Pos /\ NextOf(s) \in Pos
  <1>1. /\ frameLog[s] \in Seq(Nat) /\ assembly[s] \in [seq : Nat, count : Nat, got : Nat]
        /\ sentFrames[s] \in 0 .. Len(FrameSizes) /\ Len(FrameSizes) \in Nat
    BY EstablishAssumption, LenProperties DEF EsTypeOK
  <1>2. Len(frameLog[s]) + 1 \in Nat /\ sentFrames[s] + 1 \in Nat /\ assembly[s].got \in Nat
    BY <1>1, LenProperties
  <1> QED  BY <1>2 DEF At, NextOf, Pos

\* Nothing that matters to the frames a side is sent has changed.
LEMMA FramesKeep ==
  ASSUME NEW s \in Side, FramesOK(s),
         frameLog'[s] = frameLog[s], assembly'[s] = assembly[s],
         sentFrames'[Peer(s)] = sentFrames[Peer(s)], keyOf'[Peer(s)] = keyOf[Peer(s)],
         Waiting(s)' = Waiting(s),
         side'[s] = "session" => deferred'[s] = <<>>,
         deferred'[s] # <<>> => ReadIn(hs'[s]) = 2,
         Early(Peer(s))' => Early(Peer(s))
  PROVE  FramesOK(s)'
  <1>1. At(s)' = At(s) /\ NextOf(Peer(s))' = NextOf(Peer(s)) /\ Seal(Peer(s))' = Seal(Peer(s))
    BY DEF At, NextOf, Seal
  <1>2. Brings(Waiting(s), Peer(s), Seal(Peer(s)), At(s), NextOf(Peer(s)))'
    BY <1>1 DEF FramesOK
  <1> QED  BY <1>2 DEF FramesOK

\* What is sent to a side comes after what it has not opened.
LEMMA WaitingGrows ==
  ASSUME EsInv, NEW s \in Side, NEW ms \in Seq(Msg), inbox'[s] = inbox[s],
         line'[s] = line[s] \o ms, deferred'[s] = deferred[s]
  PROVE  Waiting(s)' = Waiting(s) \o ms
  <1>1. Waiting(s)' = deferred[s] \o (inbox[s] \o (line[s] \o ms))  BY DEF Waiting, Unread
  <1> DEFINE a == deferred[s]
  <1> DEFINE b == inbox[s]
  <1> DEFINE c == line[s]
  <1>2. a \in Seq(Msg) /\ b \in Seq(Msg) /\ c \in Seq(Msg) /\ ms \in Seq(Msg)  BY QueuesTyped
  <1> HIDE DEF a, b, c
  <1>3. Regroups(b, c, ms)  BY <1>2, LaterSent
  <1> DEFINE d == b \o c
  <1>4. d \in Seq(Msg)  BY <1>2, ConcatProperties
  <1> HIDE DEF d
  <1>5. Regroups(a, d, ms)  BY <1>2, <1>4, LaterSent
  <1> QED  BY <1>1, <1>3, <1>5 DEF Waiting, Unread, Regroups, a, b, c, d

\* While a side has not derived its key, the other one has nothing of it that is sealed.
LEMMA EarlyUnsealed ==
  ASSUME EsInv, NEW s \in Side, FramesOK(s), Early(Peer(s))
  PROVE  /\ At(s) = NextOf(Peer(s)) /\ At(s) \in Pos
         /\ \A i \in 1 .. Len(Waiting(s)) : Waiting(s)[i] \notin Sealed
  <1>1. EsTypeOK /\ Peer(s) \in Side /\ StreamOK(s) /\ ShakeOK(Peer(s))  BY Sides DEF EsInv
  <1>2. At(s) = NextOf(Peer(s))
    <2>1. frameLog[s] = <<>> /\ assembly[s].seq = 0 /\ sentFrames[Peer(s)] = 0
      BY DEF FramesOK, Fresh
    <2> QED  BY <2>1, EmptySeq DEF At, NextOf
  <1>3. At(s) \in Pos  BY <1>1, PositionsTyped
  <1> DEFINE first == Pake(passwordOf[Peer(s)])
  <1> DEFINE second == Binding(Tag(Peer(s), keyOf[Peer(s)]))
  <1>4. first \notin Sealed /\ second \notin Sealed  BY DEF Sealed, Pake, Binding
  <1>5. /\ ReadIn(hs[s]) \in 0 .. 2 /\ SentIn(hs[Peer(s)]) \in 0 .. 1
        /\ InTurn(Unread(s), SentIn(hs[Peer(s)]), ReadIn(hs[s]), first, second)
    BY <1>1, StatesTyped DEF StreamOK, SentIn, Early
  <1> HIDE DEF first, second
  <1>6. Waiting(s) = Unread(s)
    <2>1. deferred[s] = <<>>  BY <1>5 DEF FramesOK, InTurn
    <2> QED  BY <2>1, QueuesTyped, ConcatEmptySeq DEF Waiting
  <1>7. ASSUME NEW i \in 1 .. Len(Unread(s)) PROVE Unread(s)[i] \notin Sealed
    <2>1. i <= SentIn(hs[Peer(s)]) - ReadIn(hs[s])  BY <1>5 DEF InTurn
    <2>2. Unread(s)[i] = IF ReadIn(hs[s]) + i = 1 THEN first ELSE second
      BY <1>5, <2>1 DEF InTurn
    <2> QED  BY <1>4, <2>2
  <1> QED  BY <1>2, <1>3, <1>6, <1>7

\* A side that had not derived its key has sent a message of the handshake to the other.
LEMMA FramesAfterShake ==
  ASSUME EsInv, NEW s \in Side, FramesOK(s), NEW m \in Msg \ Sealed,
         UNCHANGED <<frameLog, assembly, sentFrames, side, deferred>>,
         inbox'[s] = inbox[s], line'[s] = line[s] \o <<m>>, hs'[s] = hs[s], Early(Peer(s))
  PROVE  FramesOK(s)'
  <1> DEFINE w == Waiting(s)
  <1> DEFINE ms == <<m>>
  <1>1. ms \in Seq(Msg) /\ Len(ms) = 1 /\ ms[1] = m  BY LenProperties
  <1>2. w \in Seq(Msg) /\ \A i \in 1 .. Len(w) : w[i] \notin Sealed
    BY QueuesTyped, EarlyUnsealed
  <1>3. Waiting(s)' = w \o ms
    <2>1. line'[s] = line[s] \o ms /\ deferred'[s] = deferred[s]  OBVIOUS
    <2> HIDE DEF ms
    <2> QED  BY <1>1, <2>1, WaitingGrows
  <1> HIDE DEF w, ms
  <1>4. w \o ms \in Seq(Msg) /\ \A i \in 1 .. Len(w \o ms) : (w \o ms)[i] \notin Sealed
    <2>1. /\ w \o ms \in Seq(Msg) /\ Len(w \o ms) = Len(w) + Len(ms)
          /\ \A i \in 1 .. Len(w) + Len(ms) :
               (w \o ms)[i] = IF i <= Len(w) THEN w[i] ELSE ms[i - Len(w)]
      BY <1>1, <1>2, ConcatProperties
    <2>2. Len(w) \in Nat  BY <1>2, LenProperties
    <2>3. ASSUME NEW i \in 1 .. Len(w) + 1 PROVE (w \o ms)[i] \notin Sealed
      <3>1. CASE i <= Len(w)  BY <1>1, <1>2, <2>1, <2>2, <3>1
      <3>2. CASE ~(i <= Len(w))
        <4>1. i - Len(w) = 1  BY <2>2, <3>2
        <4> QED  BY <1>1, <2>1, <3>2, <4>1
      <3> QED  BY <3>1, <3>2
    <2> QED  BY <1>1, <2>1, <2>3
  <1>5. At(s) = NextOf(Peer(s)) /\ At(s) \in Pos  BY EarlyUnsealed
  <1>6. Brings(w \o ms, Peer(s), Seal(Peer(s))', At(s), At(s))  BY <1>4, <1>5, BringsNothing
  <1>7. At(s)' = At(s) /\ NextOf(Peer(s))' = NextOf(Peer(s))  BY DEF At, NextOf
  <1>8. Brings(Waiting(s), Peer(s), Seal(Peer(s)), At(s), NextOf(Peer(s)))'
    BY <1>3, <1>5, <1>6, <1>7
  <1> QED  BY <1>8 DEF FramesOK

\* A side has read a message of the handshake: it keeps nothing yet for the session.
LEMMA FramesAfterRead ==
  ASSUME EsInv, NEW s \in Side, FramesOK(s), inbox[s] # <<>>, Head(inbox[s]) \notin Sealed,
         inbox'[s] = Tail(inbox[s]), line'[s] = line[s], deferred'[s] = deferred[s],
         side'[s] = "driving", UNCHANGED <<sentFrames, assembly, frameLog>>,
         keyOf'[Peer(s)] = keyOf[Peer(s)], hs'[Peer(s)] = hs[Peer(s)]
  PROVE  FramesOK(s)'
  <1>1. EsTypeOK /\ Peer(s) \in Side  BY Sides DEF EsInv
  <1>2. /\ ReadIn(hs[s]) < SentIn(hs[Peer(s)])
        /\ ReadIn(hs[s]) \in 0 .. 2 /\ SentIn(hs[Peer(s)]) \in 0 .. 2
    BY <1>1, LookFinds, StatesTyped
  <1>3. deferred[s] = <<>>  BY <1>2 DEF FramesOK
  <1>4. inbox[s] \in Seq(Msg) /\ line[s] \in Seq(Msg)  BY QueuesTyped
  <1> DEFINE v == Tail(inbox[s]) \o line[s]
  <1>5. /\ Unread(s) \in Seq(Msg) /\ Unread(s) # <<>> /\ Unread(s)[1] = Head(inbox[s])
        /\ v \in Seq(Msg) /\ Len(v) = Len(Unread(s)) - 1
        /\ \A i \in 1 .. Len(v) : v[i] = Unread(s)[i + 1]
    BY <1>4, AfterOne DEF Unread
  <1>6. Waiting(s) = Unread(s) /\ Waiting(s)' = v
    <2>1. Waiting(s)' = <<>> \o v  BY <1>3 DEF Waiting, Unread
    <2> HIDE DEF v
    <2> QED  BY <1>3, <1>5, <2>1, ConcatEmptySeq DEF Waiting
  <1> HIDE DEF v
  <1>7. Brings(v, Peer(s), Seal(Peer(s)), At(s), NextOf(Peer(s)))
    <2>1. Brings(Unread(s), Peer(s), Seal(Peer(s)), At(s), NextOf(Peer(s)))
      BY <1>6 DEF FramesOK
    <2>2. PICK x \in Pos : /\ Leads(Peer(s), Seal(Peer(s)), Unread(s)[1], At(s), x)
                           /\ Brings(v, Peer(s), Seal(Peer(s)), x, NextOf(Peer(s)))
      BY <1>5, <2>1, BringsOn
    <2>3. x = At(s)  BY <1>5, <2>2 DEF Leads
    <2> QED  BY <2>2, <2>3
  <1>8. At(s)' = At(s) /\ NextOf(Peer(s))' = NextOf(Peer(s)) /\ Seal(Peer(s))' = Seal(Peer(s))
    BY DEF At, NextOf, Seal
  <1>9. Brings(Waiting(s), Peer(s), Seal(Peer(s)), At(s), NextOf(Peer(s)))'
    BY <1>6, <1>7, <1>8
  <1> QED  BY <1>3, <1>9 DEF FramesOK, Early

\* Putting the first unread message aside changes nothing in what a side has yet to open.
LEMMA PutAside ==
  ASSUME NEW a \in Seq(Msg), NEW b \in Seq(Msg), NEW c \in Seq(Msg), b # <<>>
  PROVE  Append(a, Head(b)) \o (Tail(b) \o c) = a \o (b \o c)
  <1> DEFINE h == Head(b)
  <1> DEFINE t == Tail(b)
  <1> DEFINE hs1 == <<h>>
  <1>1. h \in Msg /\ t \in Seq(Msg) /\ Len(b) \in Nat /\ Len(b) > 0
    BY HeadTailProperties, EmptySeq, LenProperties
  <1>2. hs1 \in Seq(Msg)  BY <1>1
  <1>3. b = hs1 \o t
    <2>1. 1 \in 1 .. Len(b) /\ Len(b) \in 1 .. Len(b) /\ 1 + 1 = 2  BY <1>1
    <2>2. SubSeq(b, 1, Len(b)) = <<b[1]>> \o SubSeq(b, 1 + 1, Len(b))
      BY <2>1, SubSeqRecursiveFirst
    <2>3. SubSeq(b, 1, Len(b)) = b /\ t = SubSeq(b, 2, Len(b)) /\ b[1] = h
      BY SubSeqFull, TailIsSubSeq
    <2> QED  BY <2>1, <2>2, <2>3
  <1>4. Append(a, h) = a \o hs1  BY <1>1, AppendIsConcat
  <1> HIDE DEF h, t, hs1
  <1> DEFINE d == t \o c
  <1>5. hs1 \o d = b \o c
    <2>1. Regroups(hs1, t, c)  BY <1>1, <1>2, LaterSent
    <2> QED  BY <1>3, <2>1 DEF Regroups
  <1>6. a \in Seq(Msg) /\ hs1 \in Seq(Msg) /\ d \in Seq(Msg)  BY <1>1, <1>2, LaterSent
  <1> HIDE DEF d
  <1>7. Regroups(a, hs1, d)  BY <1>6, LaterSent
  <1> QED  BY <1>4, <1>5, <1>7 DEF Regroups, h, t, d

-----------------------------------------------------------------------------
\* One step of a side is about what it reads and about what the other is sent.
LEMMA BothFrames ==
  ASSUME NEW s \in Side, EsInv', FramesOK(s)', FramesOK(Peer(s))'
  PROVE  FrInv'
  BY Sides DEF FrInv

LEMMA FrInvInit == EsInit => FrInv
  <1> SUFFICES ASSUME EsInit PROVE FrInv
    OBVIOUS
  <1>1. EsInv  BY EsInvInit
  <1>2. ASSUME NEW s \in Side PROVE FramesOK(s)
    <2>1. /\ inbox[s] = <<>> /\ line[s] = <<>> /\ deferred[s] = <<>> /\ frameLog[s] = <<>>
          /\ assembly[s] = Fresh /\ sentFrames[Peer(s)] = 0
      BY Sides DEF EsInit
    <2>2. Waiting(s) = <<>>
      BY <1>1, <2>1, QueuesTyped, ConcatEmptySeq DEF Waiting, Unread
    <2>3. At(s) = NextOf(Peer(s)) /\ At(s) \in Pos
      <3>1. At(s) = NextOf(Peer(s))  BY <2>1, EmptySeq DEF At, NextOf, Fresh
      <3>2. At(s) \in Pos  BY <1>1, PositionsTyped DEF EsInv
      <3> QED  BY <3>1, <3>2
    <2>4. Brings(<<>>, Peer(s), Seal(Peer(s)), At(s), NextOf(Peer(s)))
      <3>1. <<>> \in Seq(Msg) /\ \A i \in 1 .. Len(<<>>) : <<>>[i] \notin Sealed  BY EmptySeq
      <3> QED  BY <2>3, <3>1, BringsNothing
    <2>5. \A i \in DOMAIN frameLog[s] : frameLog[s][i] = i  BY <2>1, EmptySeq
    <2>6. assembly[s].seq = 0  BY <2>1 DEF Fresh
    <2> QED  BY <2>1, <2>2, <2>4, <2>5, <2>6 DEF FramesOK
  <1> QED  BY <1>1, <1>2 DEF FrInv

\* A channel opens, a side gives up, or takes messages off the connection.
LEMMA StillFrames ==
  ASSUME FrInv, NEW s \in Side, ChannelOpens(s) \/ GivesUpDriving(s) \/ Drains(s)
  PROVE  FrInv'
  <1>1. EsInv /\ EsTypeOK /\ FramesOK(s) /\ FramesOK(Peer(s)) /\ Peer(s) \in Side
    BY Sides DEF FrInv, EsInv
  <1>2. EsInv'  BY <1>1, StillKeeps, DrainKeeps
  <1>3. /\ UNCHANGED <<hs, keyOf, deferred, sentFrames, assembly, frameLog>>
        /\ side'[s] \in {side[s], "left"} /\ side'[Peer(s)] = side[Peer(s)]
        /\ inbox'[Peer(s)] = inbox[Peer(s)] /\ line'[Peer(s)] = line[Peer(s)]
    BY <1>1, Sides DEF ChannelOpens, GivesUpDriving, Drains, shakes, stream, EsTypeOK
  <1>4. Unread(s)' = Unread(s)
    <2>1. CASE ChannelOpens(s) \/ GivesUpDriving(s)
      BY <2>1 DEF ChannelOpens, GivesUpDriving, Unread
    <2>2. CASE Drains(s)
      <3>1. PICK n \in 1 .. MaxBatch :
              /\ n <= Len(line[s])
              /\ inbox' = [inbox EXCEPT ![s] = SubSeq(line[s], 1, n)]
              /\ line' = [line EXCEPT ![s] = SubSeq(@, n + 1, Len(@))]
        BY <2>2 DEF Drains
      <3>2. /\ inbox'[s] = SubSeq(line[s], 1, n)
            /\ line'[s] = SubSeq(line[s], n + 1, Len(line[s]))
            /\ inbox[s] = <<>>
        BY <1>1, <2>2, <3>1 DEF Drains, EsTypeOK
      <3>3. line[s] \in Seq(Msg) /\ Len(line[s]) \in Nat /\ n \in Nat /\ 1 <= n
        BY <1>1, EstablishAssumption, QueuesTyped, LenProperties
      <3>4. SubSeq(line[s], 1, n) \o SubSeq(line[s], n + 1, Len(line[s])) = line[s]
        BY <3>1, <3>3, ConcatAdjacentSubSeq, SubSeqFull
      <3> QED  BY <3>2, <3>3, <3>4, ConcatEmptySeq DEF Unread
    <2> QED  BY <2>1, <2>2
  <1>5. Unread(Peer(s))' = Unread(Peer(s))  BY <1>3 DEF Unread
  <1>6. Waiting(s)' = Waiting(s) /\ Waiting(Peer(s))' = Waiting(Peer(s))
    BY <1>3, <1>4, <1>5 DEF Waiting
  <1>7. FramesOK(s)'
    <2>1. side'[s] = "session" => deferred'[s] = <<>>  BY <1>1, <1>3 DEF FramesOK
    <2>2. deferred'[s] # <<>> => ReadIn(hs'[s]) = 2  BY <1>1, <1>3 DEF FramesOK
    <2>3. Early(Peer(s))' => Early(Peer(s))  BY <1>3 DEF Early
    <2> QED  BY <1>1, <1>3, <1>6, <2>1, <2>2, <2>3, FramesKeep
  <1>8. FramesOK(Peer(s))'
    <2>1. side'[Peer(s)] = "session" => deferred'[Peer(s)] = <<>>
      BY <1>1, <1>3 DEF FramesOK
    <2>2. deferred'[Peer(s)] # <<>> => ReadIn(hs'[Peer(s)]) = 2  BY <1>1, <1>3 DEF FramesOK
    <2>3. Early(Peer(Peer(s)))' => Early(Peer(Peer(s)))  BY <1>3 DEF Early
    <2> QED  BY <1>1, <1>3, <1>6, <2>1, <2>2, <2>3, FramesKeep
  <1> QED  BY <1>2, <1>7, <1>8, BothFrames

\* The first and the second message of the handshake are sent.
LEMMA HandshakeFrames ==
  ASSUME FrInv, NEW s \in Side, StartsHandshake(s)
  PROVE  FrInv'
  <1>1. /\ EsInv /\ EsTypeOK /\ FramesOK(s) /\ FramesOK(Peer(s)) /\ Peer(s) \in Side
        /\ Peer(Peer(s)) = s
    BY Sides DEF FrInv, EsInv
  <1>2. EsInv'  BY <1>1, HandshakeStarts
  <1>3. /\ hs[s] = "none" /\ hs'[s] = "pake" /\ hs'[Peer(s)] = hs[Peer(s)]
        /\ line'[s] = line[s] /\ line'[Peer(s)] = line[Peer(s)] \o <<Pake(passwordOf[s])>>
        /\ UNCHANGED <<keyOf, side, inbox, deferred, sentFrames, assembly, frameLog>>
    BY <1>1, Sides DEF StartsHandshake, Sends, EsTypeOK, inputs, stream
  <1>4. FramesOK(s)'
    <2>1. deferred[s] = <<>>  BY <1>1, <1>3 DEF FramesOK, ReadIn
    <2>2. Waiting(s)' = Waiting(s)  BY <1>3 DEF Waiting, Unread
    <2>3. Early(Peer(s))' => Early(Peer(s))  BY <1>3 DEF Early
    <2>4. deferred'[s] = <<>>  BY <1>3, <2>1
    <2> QED  BY <1>1, <1>3, <2>2, <2>3, <2>4, FramesKeep
  <1>5. FramesOK(Peer(s))'
    <2> DEFINE m == Pake(passwordOf[s])
    <2>1. m \in Msg \ Sealed
      <3>1. passwordOf[s] \in Password  BY <1>1, StatesTyped
      <3> QED  BY <3>1 DEF Msg, Pake, Sealed
    <2>2. line'[Peer(s)] = line[Peer(s)] \o <<m>>  BY <1>3
    <2>3. Early(Peer(Peer(s)))  BY <1>1, <1>3 DEF Early
    <2> HIDE DEF m
    <2> QED  BY <1>1, <1>3, <2>1, <2>2, <2>3, FramesAfterShake
  <1> QED  BY <1>2, <1>4, <1>5, BothFrames

LEMMA OnPakeFrames ==
  ASSUME FrInv, NEW s \in Side, OnPake(s)
  PROVE  FrInv'
  <1>1. /\ EsInv /\ EsTypeOK /\ FramesOK(s) /\ FramesOK(Peer(s)) /\ ShakeOK(s)
        /\ Peer(s) \in Side /\ Peer(Peer(s)) = s
    BY Sides DEF FrInv, EsInv
  <1>2. EsInv'  BY <1>1, OnPakeKeeps
  <1>3. /\ inbox[s] # <<>> /\ Head(inbox[s]).type = "pake" /\ side[s] = "driving"
        /\ inbox'[s] = Tail(inbox[s]) /\ inbox'[Peer(s)] = inbox[Peer(s)]
        /\ UNCHANGED <<side, sentFrames, assembly, frameLog, deferred>>
    BY <1>1, LookChanges DEF OnPake
  <1>4. Head(inbox[s]) \notin Sealed  BY <1>3 DEF Sealed
  <1>5. ReadIn(hs[s]) = 0 /\ Head(inbox[s]).password = passwordOf[Peer(s)]
    <2>1. Head(inbox[s]) = IF ReadIn(hs[s]) = 0 THEN Pake(passwordOf[Peer(s)])
                           ELSE Binding(Tag(Peer(s), keyOf[Peer(s)]))
      BY <1>1, <1>3, <1>4, LookFinds
    <2> QED  BY <1>3, <2>1 DEF Pake, Binding
  <1>6. hs[s] = "pake"  BY <1>1, <1>3, <1>5 DEF ReadIn, ShakeOK, EsTypeOK
  <1> DEFINE key == DerivedKey(s, passwordOf[Peer(s)])
  <1> DEFINE m == Binding(Tag(s, key))
  <1>7. m \in Msg \ Sealed
    <2>1. passwordOf[Peer(s)] \in Password  BY <1>1, StatesTyped
    <2>2. Tag(s, key) \in Tags  BY <1>1, <2>1, KeysTyped
    <2> QED  BY <2>2 DEF Msg, Binding, Sealed
  <1>8. /\ hs'[Peer(s)] = hs[Peer(s)] /\ keyOf'[Peer(s)] = keyOf[Peer(s)]
        /\ line'[s] = line[s] /\ line'[Peer(s)] = line[Peer(s)] \o <<m>>
    <2>1. /\ hs' = [hs EXCEPT ![s] = "binding"] /\ keyOf' = [keyOf EXCEPT ![s] = key]
          /\ line' = [line EXCEPT ![Peer(s)] = @ \o <<m>>]
      BY <1>5, <1>6 DEF OnPake, Sends
    <2>2. DOMAIN hs = Side /\ DOMAIN keyOf = Side /\ DOMAIN line = Side
      BY <1>1 DEF EsTypeOK
    <2> HIDE DEF key, m
    <2> QED  BY <1>1, <2>1, <2>2, Sides
  <1> HIDE DEF key, m
  <1>9. FramesOK(s)'
    <2>1. line'[s] = line[s] /\ deferred'[s] = deferred[s] /\ side'[s] = "driving"
      BY <1>3, <1>8
    <2> QED  BY <1>1, <1>3, <1>4, <1>8, <2>1, FramesAfterRead
  <1>10. FramesOK(Peer(s))'
    <2>1. Early(Peer(Peer(s)))  BY <1>1, <1>6 DEF Early
    <2> QED  BY <1>1, <1>3, <1>7, <1>8, <2>1, FramesAfterShake
  <1> QED  BY <1>2, <1>9, <1>10, BothFrames

LEMMA OnBindingFrames ==
  ASSUME FrInv, NEW s \in Side, OnBinding(s)
  PROVE  FrInv'
  <1>1. /\ EsInv /\ EsTypeOK /\ FramesOK(s) /\ FramesOK(Peer(s))
        /\ Peer(s) \in Side /\ Peer(Peer(s)) = s
    BY Sides DEF FrInv, EsInv
  <1>2. EsInv'  BY <1>1, OnBindingKeeps
  <1>3. /\ inbox[s] # <<>> /\ Head(inbox[s]).type = "binding" /\ side[s] = "driving"
        /\ inbox'[s] = Tail(inbox[s]) /\ inbox'[Peer(s)] = inbox[Peer(s)]
        /\ UNCHANGED <<side, sentFrames, assembly, frameLog, keyOf, line, deferred>>
        /\ hs'[Peer(s)] = hs[Peer(s)] /\ hs'[s] \in {"confirmed", "failed"}
    BY <1>1, LookChanges, Sides DEF OnBinding, EsTypeOK
  <1>4. Head(inbox[s]) \notin Sealed  BY <1>3 DEF Sealed
  <1>5. FramesOK(s)'
    <2>1. side'[s] = "driving" /\ line'[s] = line[s] /\ deferred'[s] = deferred[s]  BY <1>3
    <2> QED  BY <1>1, <1>3, <1>4, <2>1, FramesAfterRead
  <1>6. FramesOK(Peer(s))'
    <2>1. Waiting(Peer(s))' = Waiting(Peer(s))  BY <1>3 DEF Waiting, Unread
    <2>2. Early(Peer(Peer(s)))' => Early(Peer(Peer(s)))  BY <1>1, <1>3 DEF Early
    <2>3. side'[Peer(s)] = "session" => deferred'[Peer(s)] = <<>>
      BY <1>1, <1>3 DEF FramesOK
    <2>4. deferred'[Peer(s)] # <<>> => ReadIn(hs'[Peer(s)]) = 2  BY <1>1, <1>3 DEF FramesOK
    <2> QED  BY <1>1, <1>3, <2>1, <2>2, <2>3, <2>4, FramesKeep
  <1> QED  BY <1>2, <1>5, <1>6, BothFrames

\* A sealed message is put aside, and taken up when the session begins.
LEMMA OnOtherFrames ==
  ASSUME FrInv, NEW s \in Side, OnOther(s) \/ Confirmed(s)
  PROVE  FrInv'
  <1>1. /\ EsInv /\ EsTypeOK /\ FramesOK(s) /\ FramesOK(Peer(s)) /\ Peer(s) \in Side
    BY Sides DEF FrInv, EsInv
  <1>2. EsInv'  BY <1>1, OnOtherKeeps, ConfirmedKeeps
  <1>3. /\ UNCHANGED <<hs, keyOf, line, sentFrames, assembly, frameLog>>
        /\ inbox'[Peer(s)] = inbox[Peer(s)] /\ deferred'[Peer(s)] = deferred[Peer(s)]
        /\ side'[Peer(s)] = side[Peer(s)]
    BY <1>1, Sides DEF OnOther, Looks, Defers, Confirmed, inputs, shakes, stream, EsTypeOK
  <1>4. /\ Waiting(s)' = Waiting(s)
        /\ side'[s] = "session" => deferred'[s] = <<>>
        /\ deferred'[s] # <<>> => ReadIn(hs'[s]) = 2
    <2>1. CASE OnOther(s)
      <3>1. /\ inbox[s] # <<>> /\ Head(inbox[s]).type = "sealed" /\ side'[s] = "driving"
            /\ inbox'[s] = Tail(inbox[s])
            /\ deferred'[s] = Append(deferred[s], Head(inbox[s]))
        BY <1>1, <2>1, LookChanges DEF OnOther, Defers, EsTypeOK
      <3>2. Head(inbox[s]) \in Sealed  BY <1>1, <3>1, LookFinds DEF Msg
      <3>3. ReadIn(hs[s]) = 2  BY <1>1, <3>1, <3>2, LookFinds
      <3>4. Waiting(s)' = Append(deferred[s], Head(inbox[s])) \o (Tail(inbox[s]) \o line[s])
        BY <1>3, <3>1 DEF Waiting, Unread
      <3>5. deferred[s] \in Seq(Msg) /\ inbox[s] \in Seq(Msg) /\ line[s] \in Seq(Msg)
        BY <1>1, QueuesTyped
      <3>6. Waiting(s)' = Waiting(s)  BY <3>1, <3>4, <3>5, PutAside DEF Waiting, Unread
      <3> QED  BY <1>3, <3>1, <3>3, <3>6
    <2>2. CASE Confirmed(s)
      <3>1. inbox[s] = <<>> /\ inbox'[s] = deferred[s] /\ deferred'[s] = <<>>
        BY <1>1, <2>2 DEF Confirmed, EsTypeOK
      <3>2. deferred[s] \in Seq(Msg) /\ line[s] \in Seq(Msg)  BY <1>1, QueuesTyped
      <3>3. deferred[s] \o line[s] \in Seq(Msg)  BY <3>2, ConcatProperties
      <3>4. Waiting(s)' = <<>> \o (deferred[s] \o line[s])
        BY <1>3, <3>1 DEF Waiting, Unread
      <3>5. Waiting(s) = deferred[s] \o (<<>> \o line[s])  BY <3>1 DEF Waiting, Unread
      <3>6. Waiting(s)' = Waiting(s)  BY <3>2, <3>3, <3>4, <3>5, ConcatEmptySeq
      <3> QED  BY <3>1, <3>6
    <2> QED  BY <2>1, <2>2
  <1>5. FramesOK(s)'
    <2>1. Early(Peer(s))' => Early(Peer(s))  BY <1>3 DEF Early
    <2> QED  BY <1>1, <1>3, <1>4, <2>1, FramesKeep
  <1>6. FramesOK(Peer(s))'
    <2>1. Waiting(Peer(s))' = Waiting(Peer(s))  BY <1>3 DEF Waiting, Unread
    <2>2. Early(Peer(Peer(s)))' => Early(Peer(Peer(s)))  BY <1>3 DEF Early
    <2>3. side'[Peer(s)] = "session" => deferred'[Peer(s)] = <<>>
      BY <1>1, <1>3 DEF FramesOK
    <2>4. deferred'[Peer(s)] # <<>> => ReadIn(hs'[Peer(s)]) = 2  BY <1>1, <1>3 DEF FramesOK
    <2> QED  BY <1>1, <1>3, <2>1, <2>2, <2>3, <2>4, FramesKeep
  <1> QED  BY <1>2, <1>5, <1>6, BothFrames

\* A frame is sent in all its chunks.
LEMMA SendsFrameFrames ==
  ASSUME FrInv, NEW s \in Side, SendsFrame(s)
  PROVE  FrInv'
  <1>1. /\ EsInv /\ EsTypeOK /\ FramesOK(s) /\ FramesOK(Peer(s)) /\ ShakeOK(s)
        /\ Peer(s) \in Side /\ Peer(Peer(s)) = s
    BY Sides DEF FrInv, EsInv
  <1>2. EsInv'  BY <1>1, SendsFrameKeeps
  <1>3. hs[s] = "confirmed" /\ keyOf[s] \in Keys
    BY <1>1, ConfirmedSealed DEF SendsFrame, ShakeOK
  <1> DEFINE n == sentFrames[s] + 1
  <1>4. n \in 1 .. Len(FrameSizes)
    <2>1. sentFrames[s] \in 0 .. Len(FrameSizes) /\ Len(FrameSizes) \in Nat
      BY <1>1, EstablishAssumption, LenProperties DEF EsTypeOK
    <2> QED  BY <2>1 DEF SendsFrame
  <1>5. sentFrames'[s] = n /\ sentFrames'[Peer(s)] = sentFrames[Peer(s)]
    BY <1>1, Sides DEF SendsFrame, EsTypeOK
  <1> HIDE DEF n
  <1> DEFINE ms == Chunks(s, n)
  <1>6. ms \in Seq(Msg)  BY <1>3, <1>4, ChunksSealed, SealedAreMsgs
  <1>7. /\ line'[s] = line[s] /\ line'[Peer(s)] = line[Peer(s)] \o ms
        /\ UNCHANGED <<hs, keyOf, side, inbox, deferred, assembly, frameLog>>
    <2>1. line' = [line EXCEPT ![Peer(s)] = @ \o ms] /\ DOMAIN line = Side
      BY <1>1, <1>5 DEF SendsFrame, Sends, EsTypeOK
    <2>2. UNCHANGED <<hs, keyOf, side, inbox, deferred, assembly, frameLog>>
      BY DEF SendsFrame, shakes
    <2> HIDE DEF ms
    <2> QED  BY <1>1, <2>1, <2>2, Sides
  <1>8. FramesOK(s)'
    <2>1. Waiting(s)' = Waiting(s)  BY <1>7 DEF Waiting, Unread
    <2>2. Early(Peer(s))' => Early(Peer(s))  BY <1>7 DEF Early
    <2>3. side'[s] = "session" => deferred'[s] = <<>>  BY <1>1, <1>7 DEF FramesOK
    <2>4. deferred'[s] # <<>> => ReadIn(hs'[s]) = 2  BY <1>1, <1>7 DEF FramesOK
    <2> HIDE DEF ms
    <2> QED  BY <1>1, <1>5, <1>7, <2>1, <2>2, <2>3, <2>4, FramesKeep
  <1>9. FramesOK(Peer(s))'
    <2> DEFINE t == Peer(s)
    <2>1. Waiting(t) \in Seq(Msg)  BY <1>1, QueuesTyped
    <2>2. Waiting(t)' = Waiting(t) \o ms
      <3> HIDE DEF ms
      <3> QED  BY <1>1, <1>6, <1>7, WaitingGrows
    <2>3. Brings(Waiting(t), s, Seal(s), At(t), NextOf(s))  BY <1>1 DEF FramesOK
    <2>4. NextOf(s) = [frame |-> n, chunk |-> 0] /\ NextOf(s)' = [frame |-> n + 1, chunk |-> 0]
      BY <1>5 DEF NextOf, n
    <2>5. Brings(ms, s, Seal(s), NextOf(s), NextOf(s)')
      BY <1>3, <1>4, <2>4, ChunksBring
    <2> HIDE DEF ms
    <2>6. Brings(Waiting(t) \o ms, s, Seal(s), At(t), NextOf(s)')
      BY <1>6, <2>1, <2>3, <2>5, BringsBoth
    <2>7. At(t)' = At(t) /\ Seal(s)' = Seal(s)  BY <1>7 DEF At, Seal
    <2>8. Brings(Waiting(t), s, Seal(s), At(t), NextOf(s))'  BY <2>2, <2>6, <2>7
    <2>9. ~Early(s)'  BY <1>3, <1>7 DEF Early
    <2>10. /\ frameLog'[t] = frameLog[t] /\ side'[t] = side[t] /\ deferred'[t] = deferred[t]
           /\ hs'[t] = hs[t] /\ assembly'[t] = assembly[t]
      BY <1>7
    <2> QED  BY <1>1, <2>8, <2>9, <2>10 DEF FramesOK
  <1> QED  BY <1>2, <1>8, <1>9, BothFrames

-----------------------------------------------------------------------------
\* The Reassembler takes the chunk it waits for: the frame is complete, or one chunk further.
LEMMA PushedNext ==
  ASSUME NEW a \in [seq : Nat, count : Nat, got : Nat], NEW n \in Nat, NEW p, NEW seal,
         Count(p, n + 1) \in Nat,
         a.seq # 0 => a.seq = n + 1 /\ a.got > 0 /\ a.count = Count(p, n + 1),
         NEW x, x = [frame |-> n + 1, chunk |-> IF a.seq = 0 THEN 0 ELSE a.got],
         NEW m, m = ChunkAt(p, seal, x)
  PROVE  \/ /\ Pushed(a, m).frame = <<n + 1>> /\ Pushed(a, m).next.seq = 0
            /\ NextPos(p, x) = [frame |-> n + 2, chunk |-> 0]
         \/ /\ Pushed(a, m).frame = <<>> /\ Pushed(a, m).next.seq = n + 1
            /\ Pushed(a, m).next.got > 0 /\ Pushed(a, m).next.count = Count(p, n + 1)
            /\ NextPos(p, x) = [frame |-> n + 1, chunk |-> Pushed(a, m).next.got]
  <1> DEFINE count == Count(p, n + 1)
  <1>1. /\ x.frame = n + 1 /\ x.chunk = (IF a.seq = 0 THEN 0 ELSE a.got)
        /\ a.seq \in Nat /\ a.got \in Nat /\ a.count \in Nat /\ count \in Nat
    OBVIOUS
  <1>2. m.seq = n + 1 /\ m.idx = x.chunk /\ m.count = count  BY <1>1 DEF ChunkAt
  <1> HIDE DEF count
  <1> DEFINE b == IF m.idx = 0 THEN [seq |-> m.seq, count |-> m.count, got |-> 0] ELSE a
  <1>3. b.seq = n + 1 /\ b.got = x.chunk /\ b.count = count /\ b.got \in Nat
    <2>1. CASE a.seq = 0  BY <1>1, <1>2, <2>1
    <2>2. CASE a.seq # 0
      <3>1. m.idx # 0 /\ b = a  BY <1>1, <1>2, <2>2
      <3> QED  BY <1>1, <2>2, <3>1 DEF count
    <2> QED  BY <2>1, <2>2
  <1>4. b \in [seq : Nat, count : Nat, got : Nat]  BY <1>1, <1>2
  <1>5. Pushed(a, m) =
          IF b.seq # m.seq THEN [next |-> b, frame |-> <<>>]
          ELSE IF b.got + 1 >= b.count THEN [next |-> [b EXCEPT !.seq = 0], frame |-> <<m.seq>>]
          ELSE [next |-> [b EXCEPT !.got = @ + 1], frame |-> <<>>]
    BY DEF Pushed, b
  <1> HIDE DEF b
  <1>6. CASE x.chunk + 1 >= count
    <2>1. Pushed(a, m) = [next |-> [b EXCEPT !.seq = 0], frame |-> <<n + 1>>]
      BY <1>2, <1>3, <1>5, <1>6
    <2>2. [b EXCEPT !.seq = 0].seq = 0  BY <1>4
    <2>3. NextPos(p, x) = [frame |-> n + 2, chunk |-> 0]
      BY <1>1, <1>6 DEF NextPos, count
    <2>4. Pushed(a, m).frame = <<n + 1>> /\ Pushed(a, m).next = [b EXCEPT !.seq = 0]
      BY <2>1
    <2> QED  BY <2>2, <2>3, <2>4
  <1>7. CASE ~(x.chunk + 1 >= count)
    <2>1. Pushed(a, m) = [next |-> [b EXCEPT !.got = @ + 1], frame |-> <<>>]
      BY <1>2, <1>3, <1>5, <1>7
    <2> DEFINE c == [b EXCEPT !.got = @ + 1]
    <2>2. c.seq = n + 1 /\ c.got = x.chunk + 1 /\ c.got > 0 /\ c.count = count
      BY <1>3, <1>4
    <2>3. NextPos(p, x) = [frame |-> n + 1, chunk |-> x.chunk + 1]
      BY <1>1, <1>7 DEF NextPos, count
    <2>4. Pushed(a, m).frame = <<>> /\ Pushed(a, m).next = c  BY <2>1
    <2> HIDE DEF c
    <2> QED  BY <2>2, <2>3, <2>4 DEF count
  <1> QED  BY <1>6, <1>7

\* What a side takes is the first of what it has not read.
LEMMA ReceiveTakes ==
  ASSUME EsInv, NEW s \in Side, Receives(s)
  PROVE  /\ Unread(s) \in Seq(Msg) /\ Unread(s)' \in Seq(Msg) /\ Unread(s) # <<>>
         /\ Len(Unread(s)') = Len(Unread(s)) - 1
         /\ \A i \in 1 .. Len(Unread(s)') : Unread(s)'[i] = Unread(s)[i + 1]
         /\ Head(Unread(s)) = Unread(s)[1]
  <1>1. DOMAIN inbox = Side /\ DOMAIN line = Side  BY DEF EsInv, EsTypeOK
  <1>2. inbox[s] \in Seq(Msg) /\ line[s] \in Seq(Msg) /\ Unread(s) \in Seq(Msg)
    BY QueuesTyped
  <1>3. Unread(s) # <<>>  BY DEF Receives, Unread
  <1> DEFINE u == Unread(s)
  <1> DEFINE v == Unread(s)'
  <1>4. v \in Seq(Msg) /\ Len(v) = Len(u) - 1 /\ \A i \in 1 .. Len(v) : v[i] = u[i + 1]
    <2>1. CASE inbox[s] # <<>>
      <3>1. inbox'[s] = Tail(inbox[s]) /\ line'[s] = line[s]
        BY <1>1, <2>1 DEF Receives
      <3>2. v = Tail(inbox[s]) \o line[s] /\ u = inbox[s] \o line[s]  BY <3>1 DEF Unread
      <3> HIDE DEF u, v
      <3> QED  BY <1>2, <2>1, <3>2, AfterOne
    <2>2. CASE inbox[s] = <<>>
      <3>1. inbox'[s] = <<>> /\ line'[s] = Tail(line[s])
        BY <1>1, <2>2 DEF Receives
      <3>2. u = line[s]  BY <1>2, <2>2, ConcatEmptySeq DEF Unread
      <3>3. Tail(line[s]) \in Seq(Msg)  BY <1>2, <1>3, <3>2, HeadTailProperties
      <3>4. v = Tail(line[s])  BY <3>1, <3>3, ConcatEmptySeq DEF Unread
      <3>5. u \in Seq(Msg) /\ u # <<>> /\ v = Tail(u)  BY <1>2, <1>3, <3>2, <3>4
      <3> HIDE DEF u, v
      <3> QED  BY <3>5, HeadTailProperties
    <2> QED  BY <2>1, <2>2
  <1> HIDE DEF v
  <1> QED  BY <1>2, <1>3, <1>4 DEF v

\* One more chunk is opened and put together.
LEMMA ReceivesFrames ==
  ASSUME FrInv, NEW s \in Side, Receives(s)
  PROVE  FrInv'
  <1>1. /\ EsInv /\ EsTypeOK /\ FramesOK(s) /\ FramesOK(Peer(s)) /\ ShakeOK(s)
        /\ Peer(s) \in Side /\ Peer(Peer(s)) = s
    BY Sides DEF FrInv, EsInv
  <1>2. EsInv'  BY <1>1, ReceivesKeeps
  <1>3. /\ side[s] = "session" /\ hs[s] = "confirmed" /\ deferred[s] = <<>>
        /\ Unread(s) \in Seq(Sealed) /\ ~Early(Peer(s))
    BY <1>1, ConfirmedSealed DEF Receives, ShakeOK, FramesOK
  <1>4. /\ UNCHANGED <<hs, keyOf, side, deferred, sentFrames>>
        /\ inbox'[Peer(s)] = inbox[Peer(s)] /\ line'[Peer(s)] = line[Peer(s)]
        /\ frameLog'[Peer(s)] = frameLog[Peer(s)] /\ assembly'[Peer(s)] = assembly[Peer(s)]
    BY <1>1, Sides DEF Receives, inputs, shakes, EsTypeOK
  <1> DEFINE u == Unread(s)
  <1> DEFINE v == Unread(s)'
  <1> DEFINE m == u[1]
  <1> DEFINE p == Peer(s)
  <1>5. /\ u \in Seq(Msg) /\ v \in Seq(Msg) /\ u # <<>> /\ Len(v) = Len(u) - 1
        /\ \A i \in 1 .. Len(v) : v[i] = u[i + 1]
        /\ Head(u) = m /\ Waiting(s) = u /\ Waiting(s)' = v
    <2>1. /\ u \in Seq(Msg) /\ v \in Seq(Msg) /\ u # <<>> /\ Len(v) = Len(u) - 1
          /\ \A i \in 1 .. Len(v) : v[i] = u[i + 1]
          /\ Head(u) = m
      BY <1>1, ReceiveTakes
    <2>2. Waiting(s) = <<>> \o u /\ Waiting(s)' = <<>> \o v  BY <1>3, <1>4 DEF Waiting
    <2> HIDE DEF u, v
    <2> QED  BY <2>1, <2>2, ConcatEmptySeq
  <1>6. m \in Sealed /\ m.type = "sealed"
    <2>1. 1 \in 1 .. Len(u)  BY <1>5, EmptySeq, LenProperties
    <2>2. m \in Sealed  BY <1>3, <2>1, ElementOfSeq
    <2> QED  BY <2>2 DEF Sealed
  <1> DEFINE n == Len(frameLog[s])
  <1> DEFINE a == assembly[s]
  <1>7. /\ a \in [seq : Nat, count : Nat, got : Nat] /\ frameLog[s] \in Seq(Nat) /\ n \in Nat
        /\ DOMAIN frameLog = Side /\ DOMAIN assembly = Side
    BY <1>1, LenProperties DEF EsTypeOK
  <1>8. PICK x \in Pos : Leads(p, Seal(p), m, At(s), x) /\ Brings(v, p, Seal(p), x, NextOf(p))
    <2>1. Brings(u, p, Seal(p), At(s), NextOf(p))  BY <1>1, <1>5 DEF FramesOK
    <2> HIDE DEF u, v
    <2> QED  BY <1>5, <2>1, BringsOn
  <1>9. m = ChunkAt(p, Seal(p), At(s)) /\ x = NextPos(p, At(s))  BY <1>6, <1>8 DEF Leads
  <1>10. Count(p, n + 1) \in Nat
    <2>1. m.count = Count(p, n + 1)  BY <1>9 DEF ChunkAt, At
    <2> QED  BY <1>6, <2>1 DEF Sealed
  <1> DEFINE r == Pushed(a, m)
  <1>11. \/ /\ r.frame = <<n + 1>> /\ r.next.seq = 0 /\ x = [frame |-> n + 2, chunk |-> 0]
         \/ /\ r.frame = <<>> /\ r.next.seq = n + 1 /\ r.next.got > 0
            /\ r.next.count = Count(p, n + 1) /\ x = [frame |-> n + 1, chunk |-> r.next.got]
    <2>1. At(s) = [frame |-> n + 1, chunk |-> IF a.seq = 0 THEN 0 ELSE a.got]  BY DEF At
    <2>2. a.seq # 0 => a.seq = n + 1 /\ a.got > 0 /\ a.count = Count(p, n + 1)
      BY <1>1 DEF FramesOK
    <2> DEFINE y == At(s)
    <2>3. /\ y = [frame |-> n + 1, chunk |-> IF a.seq = 0 THEN 0 ELSE a.got]
          /\ m = ChunkAt(p, Seal(p), y) /\ x = NextPos(p, y)
      BY <1>9, <2>1
    <2>4. /\ a \in [seq : Nat, count : Nat, got : Nat] /\ n \in Nat /\ Count(p, n + 1) \in Nat
      BY <1>7, <1>10
    <2> HIDE DEF n, a, m, p, y
    <2>5. \/ /\ Pushed(a, m).frame = <<n + 1>> /\ Pushed(a, m).next.seq = 0
             /\ NextPos(p, y) = [frame |-> n + 2, chunk |-> 0]
          \/ /\ Pushed(a, m).frame = <<>> /\ Pushed(a, m).next.seq = n + 1
             /\ Pushed(a, m).next.got > 0 /\ Pushed(a, m).next.count = Count(p, n + 1)
             /\ NextPos(p, y) = [frame |-> n + 1, chunk |-> Pushed(a, m).next.got]
      BY <2>2, <2>3, <2>4, PushedNext, SMTT(30)
    <2> QED  BY <2>3, <2>5
  <1>12. /\ assembly'[s] = r.next /\ frameLog'[s] = frameLog[s] \o r.frame
    <2>1. Opens(s, m.seal)
      <3>1. m.seal = Seal(p)  BY <1>9 DEF ChunkAt
      <3>2. keyOf[s] = keyOf[p]  BY <1>1, <1>3 DEF ShakeOK, Tag
      <3> QED  BY <3>1, <3>2 DEF Opens, Seal
    <2>2. Head(inbox[s] \o line[s]) = m  BY <1>5 DEF Unread
    <2> HIDE DEF m
    <2> QED  BY <1>6, <1>7, <2>1, <2>2 DEF Receives
  <1> HIDE DEF r, n, a, m, u, v
  <1>13. /\ \A i \in DOMAIN frameLog'[s] : frameLog'[s][i] = i
         /\ At(s)' = x
         /\ assembly'[s].seq # 0 =>
              /\ assembly'[s].seq = Len(frameLog'[s]) + 1 /\ assembly'[s].got > 0
              /\ assembly'[s].count = Count(p, Len(frameLog'[s]) + 1)
    <2>0. DOMAIN frameLog[s] = 1 .. n /\ n \in Nat /\ \A i \in 1 .. n : frameLog[s][i] = i
      BY <1>1, <1>7, LenProperties DEF FramesOK, n
    <2>1. CASE r.frame = <<n + 1>> /\ r.next.seq = 0 /\ x = [frame |-> n + 2, chunk |-> 0]
      <3> DEFINE log == frameLog[s] \o <<n + 1>>
      <3>1. /\ log \in Seq(Nat) /\ Len(log) = n + 1
            /\ \A i \in 1 .. n + 1 : log[i] = IF i <= n THEN frameLog[s][i] ELSE n + 1
        <4>1. <<n + 1>> \in Seq(Nat) /\ Len(<<n + 1>>) = 1 /\ <<n + 1>>[1] = n + 1  BY <1>7
        <4> DEFINE one == <<n + 1>>
        <4> HIDE DEF one
        <4>2. one \in Seq(Nat) /\ Len(one) = 1 /\ one[1] = n + 1  BY <4>1 DEF one
        <4>3. /\ frameLog[s] \o one \in Seq(Nat) /\ Len(frameLog[s] \o one) = n + 1
              /\ \A i \in 1 .. n + 1 :
                   (frameLog[s] \o one)[i] = IF i <= n THEN frameLog[s][i] ELSE one[i - n]
          <5>1. frameLog[s] \in Seq(Nat) /\ n = Len(frameLog[s])  BY <1>7 DEF n
          <5>2. /\ frameLog[s] \o one \in Seq(Nat)
                /\ Len(frameLog[s] \o one) = Len(frameLog[s]) + Len(one)
                /\ \A i \in 1 .. Len(frameLog[s]) + Len(one) :
                     (frameLog[s] \o one)[i] =
                       IF i <= Len(frameLog[s]) THEN frameLog[s][i] ELSE one[i - Len(frameLog[s])]
            BY <4>2, <5>1, ConcatProperties
          <5> QED  BY <4>2, <5>1, <5>2
        <4>4. ASSUME NEW i \in 1 .. n + 1
              PROVE  (frameLog[s] \o one)[i] = IF i <= n THEN frameLog[s][i] ELSE n + 1
          <5>1. CASE i <= n  BY <4>3, <5>1
          <5>2. CASE ~(i <= n)
            <6>1. i - n = 1  BY <1>7, <5>2
            <6> QED  BY <4>2, <4>3, <5>2, <6>1
          <5> QED  BY <5>1, <5>2
        <4> QED  BY <4>3, <4>4 DEF one
      <3>2. frameLog'[s] = log  BY <1>12, <2>1
      <3> HIDE DEF log
      <3>3. DOMAIN log = 1 .. n + 1  BY <3>1, LenProperties
      <3>4. \A i \in 1 .. n + 1 : log[i] = i  BY <2>0, <3>1
      <3>5. At(s)' = [frame |-> (n + 1) + 1, chunk |-> 0]  BY <1>12, <2>1, <3>1, <3>2 DEF At
      <3>6. (n + 1) + 1 = n + 2  BY <1>7
      <3> QED  BY <1>12, <2>1, <3>2, <3>3, <3>4, <3>5, <3>6
    <2>2. CASE /\ r.frame = <<>> /\ r.next.seq = n + 1 /\ r.next.got > 0
               /\ r.next.count = Count(p, n + 1)
               /\ x = [frame |-> n + 1, chunk |-> r.next.got]
      <3>1. frameLog'[s] = frameLog[s]  BY <1>7, <1>12, <2>2, ConcatEmptySeq
      <3>2. n + 1 # 0  BY <1>7
      <3>3. At(s)' = x  BY <1>12, <2>2, <3>1, <3>2 DEF At, n
      <3> QED  BY <1>12, <2>0, <2>2, <3>1, <3>3 DEF n
    <2> QED  BY <1>11, <2>1, <2>2
  <1>14. FramesOK(s)'
    <2>1. NextOf(p)' = NextOf(p) /\ Seal(p)' = Seal(p)  BY <1>4 DEF NextOf, Seal
    <2>2. Brings(Waiting(s), p, Seal(p), At(s), NextOf(p))'
      BY <1>5, <1>8, <1>13, <2>1
    <2>3. ~Early(p)' /\ deferred'[s] = <<>>  BY <1>3, <1>4 DEF Early
    <2> QED  BY <1>13, <2>2, <2>3 DEF FramesOK
  <1>15. FramesOK(Peer(s))'
    <2>1. Waiting(Peer(s))' = Waiting(Peer(s))  BY <1>4 DEF Waiting, Unread
    <2>2. Early(Peer(Peer(s)))' => Early(Peer(Peer(s)))  BY <1>4 DEF Early
    <2>3. side'[Peer(s)] = "session" => deferred'[Peer(s)] = <<>>
      BY <1>1, <1>4 DEF FramesOK
    <2>4. deferred'[Peer(s)] # <<>> => ReadIn(hs'[Peer(s)]) = 2  BY <1>1, <1>4 DEF FramesOK
    <2> QED  BY <1>1, <1>4, <2>1, <2>2, <2>3, <2>4, FramesKeep
  <1> QED  BY <1>2, <1>14, <1>15, BothFrames

-----------------------------------------------------------------------------
LEMMA FrInvStep == FrInv /\ [EsNext]_esVars => FrInv'
  <1> SUFFICES ASSUME FrInv, [EsNext]_esVars PROVE FrInv'
    OBVIOUS
  <1>1. ASSUME NEW s \in Side, EsStep(s) PROVE FrInv'
    BY <1>1, StillFrames, HandshakeFrames, OnPakeFrames, OnBindingFrames, OnOtherFrames,
       SendsFrameFrames, ReceivesFrames DEF EsStep
  <1>2. CASE UNCHANGED esVars
    <2>1. EsInv'  BY <1>2, EsInvStep DEF FrInv
    <2>2. ASSUME NEW s \in Side PROVE FramesOK(s)'
      <3>1. FramesOK(s)  BY DEF FrInv
      <3>2. /\ UNCHANGED <<hs, keyOf, line, inbox, sentFrames, assembly, frameLog, side,
                           deferred>>
        BY <1>2 DEF esVars, shakes, stream
      <3>3. Waiting(s)' = Waiting(s)  BY <3>2 DEF Waiting, Unread
      <3>4. Early(Peer(s))' => Early(Peer(s))  BY <3>2 DEF Early
      <3>5. /\ side'[s] = "session" => deferred'[s] = <<>>
            /\ deferred'[s] # <<>> => ReadIn(hs'[s]) = 2
        BY <3>1, <3>2 DEF FramesOK
      <3> QED  BY <3>1, <3>2, <3>3, <3>4, <3>5, FramesKeep
    <2> QED  BY <2>1, <2>2 DEF FrInv
  <1> QED  BY <1>1, <1>2 DEF EsNext

LEMMA FrInvariant == EsSpec => []FrInv
  BY FrInvInit, FrInvStep, PTL DEF EsSpec

(***************************************************************************)
(* What a side puts together is the other side's frames from the first one *)
(* on, and all of them once nothing is on its way: drive_until_confirmed   *)
(* loses none of what the faster side sends early.                         *)
(***************************************************************************)
THEOREM EveryFrameArrives == EsSpec => []FramesArrive
  <1>1. FrInv => FramesArrive
    <2> SUFFICES ASSUME FrInv, NEW s \in Side
                 PROVE  /\ \A i \in DOMAIN frameLog[s] : frameLog[s][i] = i
                        /\ side[s] = "session" /\ inbox[s] \o line[s] = <<>>
                             /\ hs[Peer(s)] = "confirmed" =>
                           Len(frameLog[s]) = sentFrames[Peer(s)]
      BY DEF FramesArrive
    <2>1. FramesOK(s) /\ EsTypeOK /\ Peer(s) \in Side  BY Sides DEF FrInv, EsInv
    <2>2. ASSUME side[s] = "session", inbox[s] \o line[s] = <<>>
          PROVE  Len(frameLog[s]) = sentFrames[Peer(s)]
      <3>1. Waiting(s) = <<>>
        BY <2>1, <2>2, EmptySeq, ConcatEmptySeq DEF Waiting, Unread, FramesOK
      <3>2. At(s) = NextOf(Peer(s))  BY <2>1, <3>1, EmptyBrings DEF FramesOK
      <3>3. Len(frameLog[s]) + 1 = sentFrames[Peer(s)] + 1  BY <3>2 DEF At, NextOf
      <3>4. Len(frameLog[s]) \in Nat /\ sentFrames[Peer(s)] \in Nat
        BY <2>1, EstablishAssumption, LenProperties DEF EsTypeOK
      <3> QED  BY <3>3, <3>4
    <2> QED  BY <2>1, <2>2 DEF FramesOK
  <1> QED  BY <1>1, FrInvariant, PTL

-----------------------------------------------------------------------------
(***************************************************************************)
(* The promises of SecureChannel.  A frame that is complete is one that    *)
(* was sent, since positions only go forward: the set of those up to which *)
(* they do has 0 and with each the next, and so has them all.              *)
(***************************************************************************)
LEMMA LeastOf ==
  ASSUME NEW T \in SUBSET Nat, T # {}
  PROVE  \E x \in T : \A y \in T : x <= y
  <1> DEFINE Less == OpToRel(<, Nat)
  <1>1. IsWellFoundedOn(Less, Nat)  BY NatLessThanWellFounded
  <1>2. \A x, y \in Nat : x < y => <<x, y>> \in Less  BY DEF OpToRel
  <1> HIDE DEF Less
  <1>3. PICK x \in T : \A y \in T : <<y, x>> \notin Less  BY <1>1, WFMin
  <1>4. ASSUME NEW y \in T PROVE x <= y
    <2>1. x \in Nat /\ y \in Nat  OBVIOUS
    <2>2. ~(y < x)  BY <1>2, <1>3, <2>1
    <2> QED  BY <2>1, <2>2
  <1> QED  BY <1>4

LEMMA UpTo ==
  ASSUME NEW n \in Nat, NEW S, 0 \in S, \A i \in 0 .. n - 1 : i \in S => i + 1 \in S
  PROVE  n \in S
  <1> SUFFICES ASSUME n \notin S PROVE FALSE
    OBVIOUS
  <1> DEFINE T == {i \in 0 .. n : i \notin S}
  <1>1. T \in SUBSET Nat /\ T # {}  OBVIOUS
  <1>2. PICK x \in T : \A y \in T : x <= y  BY <1>1, LeastOf
  <1>3. x # 0 /\ x \in 0 .. n /\ x \notin S  OBVIOUS
  <1>4. x - 1 \in 0 .. n - 1 /\ x - 1 + 1 = x  BY <1>3
  <1>5. x - 1 \notin T  BY <1>2, <1>4
  <1> QED  BY <1>3, <1>4, <1>5

LEMMA BringsForward ==
  ASSUME NEW q \in Seq(Msg), NEW p, NEW seal, NEW a \in Pos, NEW b \in Pos,
         Brings(q, p, seal, a, b)
  PROVE  a.frame <= b.frame
  <1>1. PICK f \in [0 .. Len(q) -> Pos] :
               /\ f[0] = a /\ f[Len(q)] = b
               /\ \A i \in 1 .. Len(q) : Leads(p, seal, q[i], f[i - 1], f[i])
    BY DEF Brings
  <1> DEFINE n == Len(q)
  <1>2. n \in Nat  BY LenProperties
  <1> DEFINE S == {i \in 0 .. n : a.frame <= f[i].frame}
  <1>3. a.frame \in Nat /\ \A i \in 0 .. n : f[i].frame \in Nat  BY <1>1 DEF Pos
  <1>4. 0 \in S  BY <1>1, <1>2, <1>3
  <1>5. ASSUME NEW i \in 0 .. n - 1, i \in S PROVE i + 1 \in S
    <2>1. i + 1 \in 1 .. n /\ i + 1 - 1 = i /\ i \in 0 .. n /\ i + 1 \in 0 .. n  BY <1>2
    <2>2. Leads(p, seal, q[i + 1], f[i], f[i + 1])  BY <1>1, <2>1
    <2>3. f[i + 1] = f[i] \/ f[i + 1] = NextPos(p, f[i])  BY <2>2 DEF Leads
    <2>4. f[i + 1].frame = f[i].frame \/ f[i + 1].frame = f[i].frame + 1
      BY <2>3 DEF NextPos
    <2> QED  BY <1>3, <1>5, <2>1, <2>4
  <1> HIDE DEF S
  <1>6. n \in S  BY <1>2, <1>4, <1>5, UpTo
  <1> QED  BY <1>1, <1>6 DEF S

\* The two tags of a confirmation are the same when both sides are who they should be, and
\* only then.
LEMMA TagsAgree ==
  ASSUME EsInv, NEW s \in Side, ~Early(s), ~Early(Peer(s))
  PROVE  Tag(s, keyOf[s]) = Tag(Peer(s), keyOf[Peer(s)]) <=> Genuine
  <1> DEFINE p == Peer(s)
  <1>1. ShakeOK(s) /\ ShakeOK(p) /\ p \in Side /\ Peer(p) = s /\ p # s  BY Sides DEF EsInv
  <1>2. keyOf[s] = DerivedKey(s, passwordOf[p]) /\ keyOf[p] = DerivedKey(p, passwordOf[s])
    BY <1>1 DEF ShakeOK
  <1>3. peerFp[s] \in {p, "other"} /\ peerFp[p] \in {s, "other"}  BY <1>1 DEF ShakeOK
  <1>4. /\ s \in {"host", "controller"} /\ p \in {"host", "controller"}
        /\ \A t \in Side : t = s \/ t = p
    BY <1>1, Sides DEF Side
  <1>5. Genuine <=> passwordOf[s] = passwordOf[p] /\ peerFp[s] = p /\ peerFp[p] = s
    BY <1>1, <1>4 DEF Genuine, Side
  <1>6. keyOf[s] = keyOf[p] <=> passwordOf[s] = passwordOf[p]
    BY <1>1, <1>2, <1>4 DEF DerivedKey
  <1>7. Tag(s, keyOf[s]) = Tag(p, keyOf[p]) <=>
          keyOf[s] = keyOf[p] /\ {s, peerFp[s]} = {p, peerFp[p]}
    BY DEF Tag
  <1>8. {s, peerFp[s]} = {p, peerFp[p]} <=> peerFp[s] = p /\ peerFp[p] = s
    BY <1>1, <1>3, <1>4
  <1> QED  BY <1>5, <1>6, <1>7, <1>8

LEMMA ChannelInit == EsInit => Channel!CInit
  <1> SUFFICES ASSUME EsInit PROVE Channel!CInit
    OBVIOUS
  <1>1. Genuine \in BOOLEAN  BY DEF Genuine
  <1>2. Verdict = [s \in Side |-> "none"]  BY DEF Verdict, EsInit
  <1> QED  BY <1>1, <1>2 DEF EsInit, Channel!CInit

\* What none of its steps changes: who the sides are.
LEMMA SameSides ==
  ASSUME EsInv, NEW s \in Side, EsStep(s)
  PROVE  Genuine' = Genuine
  BY DEF EsStep, ChannelOpens, StartsHandshake, Drains, OnPake, OnBinding, OnOther, Looks,
         Confirmed, GivesUpDriving, SendsFrame, Receives, inputs, Genuine

\* A step that leaves the verdicts, the sides and the frames as they are.
LEMMA StillChannel ==
  ASSUME EsInv, NEW s \in Side,
         \/ ChannelOpens(s) \/ StartsHandshake(s) \/ Drains(s) \/ OnPake(s) \/ OnOther(s)
  PROVE  UNCHANGED Channel!cvars
  <1>1. UNCHANGED <<side, sentFrames, frameLog>>
    BY DEF ChannelOpens, StartsHandshake, Drains, OnPake, OnOther, Looks, stream
  <1>2. Verdict' = Verdict
    <2>1. ASSUME UNCHANGED hs PROVE Verdict' = Verdict  BY <2>1 DEF Verdict
    <2>2. ASSUME NEW state \in {"pake", "binding"}, hs' = [hs EXCEPT ![s] = state],
                 hs[s] \in {"none", "pake"}
          PROVE  Verdict' = Verdict
      <3>1. DOMAIN hs = Side  BY DEF EsInv, EsTypeOK
      <3>2. \A t \in Side : hs'[t] \in {"confirmed", "failed"} <=> hs[t] \in {"confirmed", "failed"}
        BY <2>2, <3>1
      <3>3. \A t \in Side : hs'[t] \in {"confirmed", "failed"} => hs'[t] = hs[t]
        BY <2>2, <3>1
      <3> QED  BY <3>2, <3>3 DEF Verdict
    <2>3. CASE OnPake(s)
      <3>1. hs[s] = "pake" /\ hs' = [hs EXCEPT ![s] = "binding"]
        BY <2>3, PakeFound DEF OnPake
      <3> QED  BY <2>2, <3>1
    <2>4. CASE StartsHandshake(s)
      <3>1. hs[s] = "none" /\ hs' = [hs EXCEPT ![s] = "pake"]  BY <2>4 DEF StartsHandshake
      <3> QED  BY <2>2, <3>1
    <2> QED  BY <2>1, <2>3, <2>4 DEF ChannelOpens, Drains, OnOther, shakes
  <1>3. Genuine' = Genuine  BY SameSides DEF EsStep
  <1> QED  BY <1>1, <1>2, <1>3 DEF Channel!cvars

\* A confirmation that is read is the verdict, and it is the one the other side comes to.
LEMMA ChannelJudges ==
  ASSUME EsInv, NEW s \in Side, OnBinding(s)
  PROVE  Channel!Judges(s)
  <1>1. /\ hs[s] = "binding" /\ ~Early(Peer(s)) /\ ~Early(s)
        /\ hs' = [hs EXCEPT ![s] = IF Genuine THEN "confirmed" ELSE "failed"]
    <2>1. hs[s] = "binding" /\ ~Early(Peer(s)) /\ ~Early(s)  BY BindingFound DEF Early
    <2> QED  BY <2>1, BindingFound, TagsAgree
  <1>2. side[s] = "driving" /\ UNCHANGED <<side, sentFrames, frameLog>>
    BY DEF OnBinding, Looks, Driving, stream
  <1>3. Verdict[s] = "none"  BY <1>1 DEF Verdict
  <1>4. Verdict' = [Verdict EXCEPT ![s] = IF Genuine THEN "confirmed" ELSE "failed"]
    <2> DEFINE found == IF Genuine THEN "confirmed" ELSE "failed"
    <2>1. hs' = [hs EXCEPT ![s] = found] /\ found \in {"confirmed", "failed"}  BY <1>1
    <2> HIDE DEF found
    <2>2. DOMAIN hs = Side  BY DEF EsInv, EsTypeOK
    <2>3. \A t \in Side : hs'[t] = IF t = s THEN found ELSE hs[t]  BY <2>1, <2>2
    <2>4. Verdict' = [Verdict EXCEPT ![s] = found]  BY <2>1, <2>3 DEF Verdict
    <2> QED  BY <2>4 DEF found
  <1>5. Genuine' = Genuine  BY SameSides DEF EsStep
  <1> QED  BY <1>2, <1>3, <1>4, <1>5 DEF Channel!Judges

LEMMA ChannelEnters ==
  ASSUME EsInv, NEW s \in Side, Confirmed(s)
  PROVE  Channel!Enters(s)
  <1>1. Genuine' = Genuine  BY SameSides DEF EsStep
  <1>2. Verdict[s] = "confirmed" /\ Verdict' = Verdict  BY DEF Confirmed, shakes, Verdict
  <1> QED  BY <1>1, <1>2 DEF Channel!Enters, Confirmed, Driving, stream

LEMMA ChannelLeaves ==
  ASSUME EsInv, NEW s \in Side, GivesUpDriving(s)
  PROVE  Channel!Leaves(s)
  <1>1. Genuine' = Genuine  BY SameSides DEF EsStep
  <1>2. Verdict' = Verdict  BY DEF GivesUpDriving, shakes, Verdict
  <1> QED  BY <1>1, <1>2 DEF Channel!Leaves, GivesUpDriving, Driving, stream

LEMMA ChannelSends ==
  ASSUME EsInv, NEW s \in Side, SendsFrame(s)
  PROVE  Channel!Sends(s)
  <1>1. Genuine' = Genuine  BY SameSides DEF EsStep
  <1>2. Verdict' = Verdict  BY DEF SendsFrame, shakes, Verdict
  <1> QED  BY <1>1, <1>2 DEF Channel!Sends, SendsFrame

LEMMA OneMore ==
  ASSUME NEW log \in Seq(Nat), NEW k \in Nat
  PROVE  /\ log \o <<k>> = Append(log, k) /\ log \o <<k>> \in Seq(Nat)
         /\ Len(log \o <<k>>) = Len(log) + 1 /\ (log \o <<k>>)[Len(log) + 1] = k
         /\ Len(log) + 1 \in DOMAIN (log \o <<k>>)
  <1>1. log \o <<k>> = Append(log, k)  BY AppendIsConcat
  <1>2. /\ Append(log, k) \in Seq(Nat) /\ Len(Append(log, k)) = Len(log) + 1
        /\ Append(log, k)[Len(log) + 1] = k
    BY AppendProperties
  <1>3. DOMAIN Append(log, k) = 1 .. Len(log) + 1 /\ Len(log) \in Nat  BY <1>2, LenProperties
  <1> QED  BY <1>1, <1>2, <1>3

LEMMA AlsoAfter ==
  ASSUME EsInv', NEW s \in Side
  PROVE  Waiting(s)' \in Seq(Msg) /\ At(s)' \in Pos /\ NextOf(Peer(s))' \in Pos
  <1>1. StreamOK(s)' /\ EsTypeOK' /\ Peer(s) \in Side  BY Sides DEF EsInv
  <1>2. inbox'[s] \in Seq(Msg) /\ line'[s] \in Seq(Msg) /\ deferred'[s] \in Seq(Sealed)
    BY <1>1 DEF StreamOK
  <1>3. deferred'[s] \in Seq(Msg)  BY <1>2, SealedAreMsgs
  <1>4. Waiting(s)' = deferred'[s] \o (inbox'[s] \o line'[s])  BY DEF Waiting, Unread
  <1> DEFINE a == inbox'[s]
  <1> DEFINE b == line'[s]
  <1> DEFINE c == deferred'[s]
  <1>5. Waiting(s)' \in Seq(Msg)
    <2>1. a \in Seq(Msg) /\ b \in Seq(Msg) /\ c \in Seq(Msg) /\ Waiting(s)' = c \o (a \o b)
      BY <1>2, <1>3, <1>4
    <2> HIDE DEF a, b, c
    <2> QED  BY <2>1, ConcatProperties
  <1>6. /\ frameLog'[s] \in Seq(Nat) /\ assembly'[s] \in [seq : Nat, count : Nat, got : Nat]
        /\ sentFrames'[Peer(s)] \in 0 .. Len(FrameSizes) /\ Len(FrameSizes) \in Nat
    BY <1>1, EstablishAssumption, LenProperties DEF EsTypeOK
  <1>7. /\ Len(frameLog'[s]) + 1 \in Nat /\ sentFrames'[Peer(s)] + 1 \in Nat
        /\ assembly'[s].got \in Nat
    BY <1>6, LenProperties
  <1> QED  BY <1>5, <1>7 DEF At, NextOf, Pos

\* A chunk that is opened brings nothing yet, or the next of the frames that were sent.
LEMMA ChannelGets ==
  ASSUME FrInv, FrInv', NEW s \in Side, Receives(s)
  PROVE  Channel!Gets(s) \/ UNCHANGED Channel!cvars
  <1>1. Genuine' = Genuine  BY SameSides DEF EsStep, FrInv
  <1>2. Verdict' = Verdict /\ side[s] = "session" /\ UNCHANGED <<side, sentFrames>>
    BY DEF Receives, shakes, Verdict
  <1>3. /\ FramesOK(s) /\ FramesOK(s)' /\ Peer(s) \in Side \ {s} /\ EsTypeOK /\ EsTypeOK'
    BY Sides DEF FrInv, EsInv
  <1>4. CASE UNCHANGED frameLog
    BY <1>1, <1>2, <1>4 DEF Channel!cvars
  <1>5. CASE frameLog' # frameLog
    <2> DEFINE log == frameLog[s]
    <2> DEFINE n == Len(log)
    <2> DEFINE m == Head(inbox[s] \o line[s])
    <2>1. log \in Seq(Nat) /\ n \in Nat /\ frameLog \in [Side -> Seq(Nat)]
      BY <1>3, LenProperties DEF EsTypeOK
    <2>0. m.seq \in Nat
      <3>1. inbox[s] \o line[s] \in Seq(Msg) /\ inbox[s] \o line[s] # <<>>
        BY ReceiveTakes DEF Unread, FrInv
      <3>2. m \in Msg  BY <3>1, HeadTailProperties
      <3>3. m.type = "sealed"  BY <1>5 DEF Receives
      <3> QED  BY <3>2, <3>3 DEF Msg, Sealed
    <2>2. frameLog' = [frameLog EXCEPT ![s] = log \o <<m.seq>>]
      <3>1. frameLog' = [frameLog EXCEPT ![s] = IF Opens(s, m.seal)
                                                THEN log \o Pushed(assembly[s], m).frame ELSE log]
        BY <1>5 DEF Receives
      <3>2. Pushed(assembly[s], m).frame \in {<<>>, <<m.seq>>}  BY DEF Pushed
      <3>3. log \o <<>> = log  BY <2>1, ConcatEmptySeq
      <3>4. frameLog = [frameLog EXCEPT ![s] = log]  BY <2>1
      <3> HIDE DEF log, m
      <3> QED  BY <1>5, <3>1, <3>2, <3>3, <3>4
    <2>3. frameLog'[s] = log \o <<m.seq>>  BY <2>1, <2>2
    <2>4. m.seq = n + 1 /\ Len(frameLog'[s]) = n + 1 /\ log \o <<m.seq>> = Append(log, n + 1)
      <3> DEFINE k == m.seq
      <3>1. k \in Nat /\ frameLog'[s] = log \o <<k>>  BY <2>0, <2>3
      <3> HIDE DEF k, log
      <3>2. frameLog'[s][Len(log) + 1] = k /\ Len(log) + 1 \in DOMAIN frameLog'[s]
            /\ Len(frameLog'[s]) = Len(log) + 1 /\ log \o <<k>> = Append(log, k)
        BY <2>1, <3>1, OneMore
      <3>3. frameLog'[s][Len(log) + 1] = Len(log) + 1  BY <1>3, <3>2 DEF FramesOK
      <3>4. k = Len(log) + 1  BY <3>2, <3>3
      <3> QED  BY <3>2, <3>4 DEF k
    <2>5. n + 1 <= sentFrames[Peer(s)]
      <3>1. /\ Waiting(s)' \in Seq(Msg) /\ At(s)' \in Pos /\ NextOf(Peer(s))' \in Pos
            /\ Brings(Waiting(s)', Peer(s), Seal(Peer(s))', At(s)', NextOf(Peer(s))')
        BY <1>3, AlsoAfter DEF FramesOK, FrInv
      <3>2. At(s)'.frame <= NextOf(Peer(s))'.frame  BY <3>1, BringsForward
      <3>3. At(s)'.frame = n + 2 /\ NextOf(Peer(s))'.frame = sentFrames[Peer(s)] + 1
        BY <1>2, <2>1, <2>4 DEF At, NextOf
      <3>4. sentFrames[Peer(s)] \in Nat
        BY <1>3, EstablishAssumption, LenProperties DEF EsTypeOK
      <3> QED  BY <2>1, <3>2, <3>3, <3>4
    <2>6. \E p \in Side \ {s} : Len(frameLog[s]) < sentFrames[p]
      <3>1. sentFrames[Peer(s)] \in Nat
        BY <1>3, EstablishAssumption, LenProperties DEF EsTypeOK
      <3> QED  BY <1>3, <2>1, <2>5, <3>1
    <2>7. frameLog' = [frameLog EXCEPT ![s] = Append(@, Len(@) + 1)]
      BY <2>1, <2>2, <2>4
    <2> QED  BY <1>1, <1>2, <2>6, <2>7 DEF Channel!Gets
  <1> QED  BY <1>4, <1>5

LEMMA ChannelStep == FrInv /\ FrInv' /\ [EsNext]_esVars => [Channel!CNext]_(Channel!cvars)
  <1> SUFFICES ASSUME FrInv, FrInv', [EsNext]_esVars
               PROVE  [Channel!CNext]_(Channel!cvars)
    OBVIOUS
  <1>1. EsInv  BY DEF FrInv
  <1>2. ASSUME NEW s \in Side, EsStep(s)
        PROVE  \/ Channel!Judges(s) \/ Channel!Enters(s) \/ Channel!Leaves(s)
               \/ Channel!Sends(s) \/ Channel!Gets(s) \/ UNCHANGED Channel!cvars
    BY <1>1, <1>2, StillChannel, ChannelJudges, ChannelEnters, ChannelLeaves, ChannelSends,
       ChannelGets DEF EsStep
  <1>3. CASE UNCHANGED esVars
    BY <1>3 DEF esVars, inputs, shakes, stream, Channel!cvars, Genuine, Verdict
  <1> QED  BY <1>2, <1>3 DEF EsNext, Channel!CNext

(***************************************************************************)
(* With drive_until_confirmed and the loops of the session the two sides   *)
(* keep the promises of SecureChannel: each judges once, as the passwords  *)
(* and fingerprints of both deserve, only a confirmed side enters the      *)
(* session, and it gets the frames the other one has sent, in order.       *)
(***************************************************************************)
THEOREM SessionIsSecureChannel == EsSpec => ImplementsChannel
  BY FrInvariant, ChannelInit, ChannelStep, PTL DEF EsSpec, ImplementsChannel, Channel!CSpec
=============================================================================
