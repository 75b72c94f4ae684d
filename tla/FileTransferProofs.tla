--------------------------- MODULE FileTransferProofs -----------------------
(***************************************************************************)
(* What is proved of file transfers, for any number of transfers and       *)
(* sessions, any sizes and windows, any queue, and any failures: their     *)
(* types; that uploads stay in their window; that what uploads write to is *)
(* intact, and what downloads write to as long as none was spoilt; that a  *)
(* success means a complete file, except of a spoilt download; and that    *)
(* all of it implements FileCopy.                                          *)
(*                                                                         *)
(* The invariants go from the outside in.  Typed and Ids say who a message *)
(* belongs to.  Flight is about uploads: a request is the first thing on   *)
(* its way of its transfer, chunks are in order and in the window, and no  *)
(* acknowledgement is ahead of a chunk that the host has not taken.        *)
(* Downloads is about the other direction: the chunks on their way follow  *)
(* one another from where the controller writes to what the host sends     *)
(* next (Carries), and the end of a download is there once.                *)
(***************************************************************************)
EXTENDS FileTransfer, SequenceTheorems, FiniteSetTheorems, TLAPS

HostMsg == [type : {"upload", "download", "chunk", "cancel"}, id : Transfer, at : Nat]
CtlMsg  == [type : {"progress", "chunk", "ok", "failed"}, id : Transfer, at : Nat]

-----------------------------------------------------------------------------
\* What taking the first message of a queue leaves.
LEMMA TakesFirst ==
  ASSUME NEW S, NEW q \in Seq(S), q # <<>>
  PROVE  /\ Head(q) \in S /\ Head(q) = q[1] /\ 1 \in DOMAIN q
         /\ Tail(q) \in Seq(S) /\ Len(q) \in Nat /\ Len(Tail(q)) = Len(q) - 1
         /\ DOMAIN q = 1 .. Len(q) /\ DOMAIN Tail(q) = 1 .. Len(q) - 1
         /\ \A i \in DOMAIN Tail(q) :
              i \in Nat /\ i + 1 \in DOMAIN q /\ i + 1 # 1 /\ Tail(q)[i] = q[i + 1]
  <1>1. Len(q) \in Nat /\ Len(q) # 0 /\ DOMAIN q = 1 .. Len(q)
    BY EmptySeq, LenProperties
  <1>2. /\ Head(q) \in S /\ Tail(q) \in Seq(S) /\ Len(Tail(q)) = Len(q) - 1
        /\ \A i \in 1 .. Len(Tail(q)) : Tail(q)[i] = q[i + 1]
    BY HeadTailProperties
  <1>3. DOMAIN Tail(q) = 1 .. Len(q) - 1  BY <1>2, LenProperties
  <1>4. Head(q) = q[1]  OBVIOUS
  <1> QED  BY <1>1, <1>2, <1>3, <1>4

\* What adding a message at the end of a queue leaves.
LEMMA AddsLast ==
  ASSUME NEW S, NEW q \in Seq(S), NEW m \in S
  PROVE  /\ Append(q, m) \in Seq(S) /\ q \o <<m>> = Append(q, m)
         /\ Len(q) \in Nat /\ Len(Append(q, m)) = Len(q) + 1
         /\ DOMAIN q = 1 .. Len(q) /\ DOMAIN Append(q, m) = 1 .. Len(q) + 1
         /\ \A i \in DOMAIN Append(q, m) :
              \/ i \in DOMAIN q /\ Append(q, m)[i] = q[i]
              \/ i = Len(q) + 1 /\ Append(q, m)[i] = m
  <1>1. Len(q) \in Nat /\ DOMAIN q = 1 .. Len(q)  BY LenProperties
  <1>2. /\ Append(q, m) \in Seq(S) /\ Len(Append(q, m)) = Len(q) + 1
        /\ \A i \in 1 .. Len(q) : Append(q, m)[i] = q[i]
        /\ Append(q, m)[Len(q) + 1] = m
    BY AppendProperties
  <1>3. DOMAIN Append(q, m) = 1 .. Len(q) + 1  BY <1>2, LenProperties
  <1> QED  BY <1>1, <1>2, <1>3, AppendIsConcat

\* The same of two messages.
LEMMA AddsTwo ==
  ASSUME NEW S, NEW q \in Seq(S), NEW a \in S, NEW b \in S
  PROVE  /\ q \o <<a, b>> \in Seq(S)
         /\ Len(q) \in Nat /\ Len(q \o <<a, b>>) = Len(q) + 2
         /\ DOMAIN q = 1 .. Len(q) /\ DOMAIN (q \o <<a, b>>) = 1 .. Len(q) + 2
         /\ \A i \in DOMAIN (q \o <<a, b>>) :
              \/ i \in DOMAIN q /\ (q \o <<a, b>>)[i] = q[i]
              \/ i = Len(q) + 1 /\ (q \o <<a, b>>)[i] = a
              \/ i = Len(q) + 2 /\ (q \o <<a, b>>)[i] = b
  <1> DEFINE r == <<a, b>>
  <1>1. r \in Seq(S) /\ Len(r) = 2 /\ r[1] = a /\ r[2] = b  OBVIOUS
  <1> HIDE DEF r
  <1>2. Len(q) \in Nat /\ DOMAIN q = 1 .. Len(q)  BY LenProperties
  <1>3. /\ q \o r \in Seq(S) /\ Len(q \o r) = Len(q) + Len(r)
        /\ \A i \in 1 .. Len(q) + Len(r) :
             (q \o r)[i] = IF i <= Len(q) THEN q[i] ELSE r[i - Len(q)]
    BY <1>1, ConcatProperties
  <1>4. DOMAIN (q \o r) = 1 .. Len(q) + 2  BY <1>1, <1>3, LenProperties
  <1>5. ASSUME NEW i \in DOMAIN (q \o r)
        PROVE  \/ i \in DOMAIN q /\ (q \o r)[i] = q[i]
               \/ i = Len(q) + 1 /\ (q \o r)[i] = a
               \/ i = Len(q) + 2 /\ (q \o r)[i] = b
    <2>1. i \in 1 .. Len(q) \/ i = Len(q) + 1 \/ i = Len(q) + 2  BY <1>2, <1>4
    <2> QED  BY <1>1, <1>2, <1>3, <1>4, <2>1
  <1> QED  BY <1>1, <1>2, <1>3, <1>4, <1>5 DEF r

\* Adding two messages is adding one after the other.
LEMMA TwoInTurn ==
  ASSUME NEW S, NEW q \in Seq(S), NEW a \in S, NEW b \in S
  PROVE  q \o <<a, b>> = Append(Append(q, a), b)
  <1> DEFINE r == Append(q, a)
             t == Append(r, b)
             u == q \o <<a, b>>
  <1>1. /\ r \in Seq(S) /\ Len(q) \in Nat /\ Len(r) = Len(q) + 1 /\ DOMAIN r = 1 .. Len(q) + 1
        /\ \A i \in DOMAIN r : (i \in DOMAIN q /\ r[i] = q[i]) \/ (i = Len(q) + 1 /\ r[i] = a)
    BY AddsLast
  <1> HIDE DEF r
  <1>2. /\ t \in Seq(S) /\ Len(t) = Len(r) + 1 /\ DOMAIN t = 1 .. Len(r) + 1
        /\ \A i \in DOMAIN t : (i \in DOMAIN r /\ t[i] = r[i]) \/ (i = Len(r) + 1 /\ t[i] = b)
    BY <1>1, AddsLast
  <1>3. /\ u \in Seq(S) /\ Len(u) = Len(q) + 2
        /\ DOMAIN q = 1 .. Len(q) /\ DOMAIN u = 1 .. Len(q) + 2
        /\ \A i \in DOMAIN u : \/ i \in DOMAIN q /\ u[i] = q[i]
                               \/ i = Len(q) + 1 /\ u[i] = a
                               \/ i = Len(q) + 2 /\ u[i] = b
    BY AddsTwo
  <1> HIDE DEF t, u
  <1>4. ASSUME NEW i \in 1 .. Len(u) PROVE u[i] = t[i]
    <2>1. i \in DOMAIN u /\ i \in DOMAIN t  BY <1>1, <1>2, <1>3
    <2>2. CASE i \in DOMAIN q  BY <1>1, <1>2, <1>3, <2>1, <2>2
    <2>3. CASE i = Len(q) + 1  BY <1>1, <1>2, <1>3, <2>1, <2>3
    <2>4. CASE i = Len(q) + 2  BY <1>1, <1>2, <1>3, <2>1, <2>4, SMTT(30)
    <2> QED  BY <1>3, <2>1, <2>2, <2>3, <2>4
  <1>5. u = t  BY <1>1, <1>2, <1>3, <1>4, SeqEqual
  <1> QED  BY <1>5 DEF u, t, r

\* What of a queue its first messages are.
LEMMA KeepsFirst ==
  ASSUME NEW S, NEW q \in Seq(S), NEW n \in 0 .. Len(q)
  PROVE  /\ SubSeq(q, 1, n) \in Seq(S) /\ Len(SubSeq(q, 1, n)) = n
         /\ Len(q) \in Nat /\ DOMAIN q = 1 .. Len(q) /\ DOMAIN SubSeq(q, 1, n) = 1 .. n
         /\ \A i \in DOMAIN SubSeq(q, 1, n) : i \in DOMAIN q /\ SubSeq(q, 1, n)[i] = q[i]
  <1>1. Len(q) \in Nat /\ DOMAIN q = 1 .. Len(q) /\ n \in Nat /\ n <= Len(q)  BY LenProperties
  <1>2. \A i \in 1 .. n : q[i] \in S  BY <1>1, ElementOfSeq
  <1>3. /\ SubSeq(q, 1, n) \in Seq(S) /\ Len(SubSeq(q, 1, n)) = n
        /\ \A i \in 1 .. n : SubSeq(q, 1, n)[i] = q[i]
    BY <1>1, <1>2, SubSeqProperties
  <1>4. DOMAIN SubSeq(q, 1, n) = 1 .. n  BY <1>3, LenProperties
  <1> QED  BY <1>1, <1>3, <1>4

\* What writing a chunk leaves: a longer file, or one of the same length.
LEMMA WrittenTyped ==
  ASSUME NEW file \in Seq(Nat), NEW at \in Nat, NEW c \in Nat
  PROVE  /\ Written(file, at, c) \in Seq(Nat)
         /\ Len(file) \in Nat /\ Len(Written(file, at, c)) \in Nat
         /\ Len(Written(file, at, c)) = IF at < Len(file) THEN Len(file) ELSE at + 1
         /\ DOMAIN file = 1 .. Len(file)
         /\ DOMAIN Written(file, at, c) = 1 .. Len(Written(file, at, c))
         /\ \A i \in DOMAIN Written(file, at, c) :
              Written(file, at, c)[i] =
                IF i = at + 1 THEN c ELSE IF i <= Len(file) THEN file[i] ELSE 0
  <1> DEFINE n == IF at < Len(file) THEN Len(file) ELSE at + 1
  <1>1. Len(file) \in Nat /\ DOMAIN file = 1 .. Len(file)  BY LenProperties
  <1>2. n \in Nat  BY <1>1
  <1> DEFINE e(i) == IF i = at + 1 THEN c ELSE IF i <= Len(file) THEN file[i] ELSE 0
  <1>3. \A i \in 1 .. n : e(i) \in Nat
    <2> SUFFICES ASSUME NEW i \in 1 .. n PROVE e(i) \in Nat  OBVIOUS
    <2>1. i <= Len(file) => file[i] \in Nat  BY <1>1, <1>2, ElementOfSeq
    <2> QED  BY <2>1
  <1>4. Written(file, at, c) = [i \in 1 .. n |-> e(i)]  BY DEF Written
  <1> HIDE DEF n, e
  <1>5. [i \in 1 .. n |-> e(i)] \in Seq(Nat)  BY <1>2, <1>3, IsASeq
  <1>6. Len([i \in 1 .. n |-> e(i)]) = n  BY <1>2
  <1> QED  BY <1>1, <1>2, <1>4, <1>5, <1>6 DEF n, e

\* A chunk that goes where it belongs, with no gap before it, leaves an intact file.
LEMMA WrittenIntact ==
  ASSUME NEW file \in Seq(Nat), NEW at \in Nat, at <= Len(file),
         \A i \in DOMAIN file : file[i] = i
  PROVE  \A i \in DOMAIN Written(file, at, at + 1) : Written(file, at, at + 1)[i] = i
  <1>1. at + 1 \in Nat  OBVIOUS
  <1> SUFFICES ASSUME NEW i \in DOMAIN Written(file, at, at + 1)
               PROVE  Written(file, at, at + 1)[i] = i
    OBVIOUS
  <1>2. /\ Len(file) \in Nat /\ DOMAIN file = 1 .. Len(file)
        /\ i \in 1 .. (IF at < Len(file) THEN Len(file) ELSE at + 1)
        /\ Written(file, at, at + 1)[i] =
             IF i = at + 1 THEN at + 1 ELSE IF i <= Len(file) THEN file[i] ELSE 0
    BY <1>1, WrittenTyped
  <1> QED  BY <1>2

-----------------------------------------------------------------------------
\* An upload is asked for with the size of its source.
UploadsAsked == \A i \in DOMAIN toHost : toHost[i].type = "upload" => toHost[i].at = Size

Typed == FtTypeOK /\ UploadsAsked

LEMMA Constants ==
  /\ MaxId \in Nat /\ MaxSession \in Nat /\ Size \in Nat /\ Window \in Nat
  /\ SourceLen \subseteq Nat /\ Absent = -1 /\ NoAck = -2 /\ Transfer \subseteq Nat
  BY TransferAssumption DEF Absent, NoAck, Transfer

LEMMA SmallerOfTwo ==
  ASSUME NEW a \in Nat, NEW b \in Nat
  PROVE  /\ Least(a, b) \in Nat /\ Least(a, b) <= a /\ Least(a, b) <= b
         /\ Least(a, b) = a \/ Least(a, b) = b
  BY DEF Least

\* The messages have their types.
LEMMA MessagesTyped ==
  ASSUME NEW id \in Transfer, NEW n \in Nat
  PROVE  /\ Start("upload", id, n) \in HostMsg /\ Start("download", id, n) \in HostMsg
         /\ Chunk(id, n) \in HostMsg /\ Cancel(id) \in HostMsg
         /\ Chunk(id, n) \in CtlMsg /\ Progress(id, n) \in CtlMsg
         /\ Done(id, TRUE) \in CtlMsg /\ Done(id, FALSE) \in CtlMsg
         /\ \A ok \in BOOLEAN : Done(id, ok) \in CtlMsg
  BY DEF Start, Chunk, Cancel, Progress, Done, HostMsg, CtlMsg

\* What is in them.
LEMMA StartFields ==
  ASSUME NEW id, NEW n
  PROVE  /\ Start("upload", id, n).type = "upload" /\ Start("upload", id, n).id = id
         /\ Start("upload", id, n).at = n
         /\ Start("download", id, n).type = "download" /\ Start("download", id, n).id = id
         /\ Start("download", id, n).at = n
  BY DEF Start

LEMMA ChunkFields ==
  ASSUME NEW id, NEW n
  PROVE  Chunk(id, n).type = "chunk" /\ Chunk(id, n).id = id /\ Chunk(id, n).at = n
  BY DEF Chunk

LEMMA ProgressFields ==
  ASSUME NEW id, NEW n
  PROVE  Progress(id, n).type = "progress" /\ Progress(id, n).id = id /\ Progress(id, n).at = n
  BY DEF Progress

LEMMA EndFields ==
  ASSUME NEW id
  PROVE  /\ Cancel(id).type = "cancel" /\ Cancel(id).id = id
         /\ Done(id, TRUE).type = "ok" /\ Done(id, TRUE).id = id
         /\ Done(id, FALSE).type = "failed" /\ Done(id, FALSE).id = id
  BY DEF Cancel, Done

\* What is sent leaves the queue as it is, or is its last message.
LEMMA SendsLast ==
  ASSUME toHost \in Seq(HostMsg), NEW m \in HostMsg, Send(m)
  PROVE  /\ toHost' \in Seq(HostMsg)
         /\ \A i \in DOMAIN toHost' :
              \/ i \in DOMAIN toHost /\ toHost'[i] = toHost[i]
              \/ i = Len(toHost) + 1 /\ toHost'[i] = m
         /\ Len(toHost) \in Nat /\ DOMAIN toHost = 1 .. Len(toHost)
         /\ link # "live" => toHost' = toHost
         /\ link = "live" => DOMAIN toHost' = 1 .. Len(toHost) + 1
  <1>1. CASE link = "live"
    <2>1. toHost' = Append(toHost, m)  BY <1>1 DEF Send
    <2> QED  BY <1>1, <2>1, AddsLast
  <1>2. CASE link # "live"
    <2>1. toHost' = toHost  BY <1>2 DEF Send
    <2> QED  BY <1>2, <2>1, LenProperties
  <1> QED  BY <1>1, <1>2

\* What the host takes is the first message.
LEMMA HostTakes ==
  ASSUME toHost \in Seq(HostMsg), NEW type, Takes(type)
  PROVE  /\ link = "live" /\ toHost # <<>> /\ toHost' = Tail(toHost)
         /\ Head(toHost) \in HostMsg /\ Head(toHost) = toHost[1] /\ 1 \in DOMAIN toHost
         /\ Head(toHost).type = type
         /\ toHost' \in Seq(HostMsg) /\ DOMAIN toHost = 1 .. Len(toHost)
         /\ Len(toHost) \in Nat /\ DOMAIN toHost' = 1 .. Len(toHost) - 1
         /\ \A i \in DOMAIN toHost' :
              i \in Nat /\ i + 1 \in DOMAIN toHost /\ i + 1 # 1 /\ toHost'[i] = toHost[i + 1]
  BY TakesFirst DEF Takes

\* Nothing is on its way at first, and the tables are empty.
LEMMA TypedInit == FtInit => Typed
  <1> SUFFICES ASSUME FtInit PROVE Typed
    OBVIOUS
  <1>1. /\ toHost \in Seq(HostMsg) /\ toCtl \in Seq(CtlMsg)
        /\ localFile \in Seq(Nat) /\ remoteFile \in Seq(Nat)
    BY EmptySeq DEF FtInit
  <1>2. thread \in [Transfer -> [pc : {"none", "waiting", "checking", "sending", "over"},
                                 sent : Nat]]
    BY DEF FtInit, Idle
  <1> QED
    BY <1>1, <1>2, Constants DEF FtInit, Typed, FtTypeOK, UploadsAsked, HostMsg, CtlMsg

Threads ==
  [Transfer -> [pc : {"none", "waiting", "checking", "sending", "over"}, sent : Nat]]

\* A thread that goes on has its type, and the others are as they were.
LEMMA ThreadMoves ==
  ASSUME thread \in Threads, NEW id \in Transfer,
         NEW p \in {"none", "waiting", "checking", "sending", "over"}
  PROVE  /\ [thread EXCEPT ![id].pc = p] \in Threads
         /\ [thread EXCEPT ![id].pc = p, ![id].sent = @ + 1] \in Threads
  <1> DEFINE Phases == {"none", "waiting", "checking", "sending", "over"}
  <1>1. thread \in [Transfer -> [pc : Phases, sent : Nat]]  BY DEF Threads
  <1>2. p \in Phases  OBVIOUS
  <1> HIDE DEF Phases
  <1> DEFINE t == thread[id]
  <1>3. t \in [pc : Phases, sent : Nat]  BY <1>1
  <1>4. [t EXCEPT !.pc = p] \in [pc : Phases, sent : Nat]  BY <1>2, <1>3
  <1>5. [t EXCEPT !.pc = p, !.sent = @ + 1] \in [pc : Phases, sent : Nat]
    <2> HIDE DEF t
    <2>1. t.sent + 1 \in Nat  BY <1>3
    <2>2. [t EXCEPT !.pc = p, !.sent = t.sent + 1] \in [pc : Phases, sent : Nat]
      BY <1>2, <1>3, <2>1
    <2> QED  BY <2>2
  <1>6. [thread EXCEPT ![id].pc = p] = [thread EXCEPT ![id] = [t EXCEPT !.pc = p]]
    BY <1>1
  <1>7. [thread EXCEPT ![id].pc = p, ![id].sent = @ + 1]
          = [thread EXCEPT ![id] = [t EXCEPT !.pc = p, !.sent = @ + 1]]
    BY <1>1, <1>3
  <1> HIDE DEF t
  <1> QED  BY <1>1, <1>4, <1>5, <1>6, <1>7 DEF Threads, Phases

\* Sending what asks for no upload, or for one of the right size.
LEMMA SendKeepsAsked ==
  ASSUME toHost \in Seq(HostMsg), UploadsAsked, NEW m \in HostMsg, Send(m),
         m.type = "upload" => m.at = Size
  PROVE  toHost' \in Seq(HostMsg) /\ UploadsAsked'
  BY SendsLast DEF UploadsAsked

LEMMA CommandsTyped ==
  ASSUME Typed, NEW id \in Transfer, FtCommands(id)
  PROVE  Typed'
  <1> USE Constants DEF FtTypeOK
  <1>0. /\ toHost \in Seq(HostMsg) /\ toCtl \in Seq(CtlMsg) /\ Len(localFile) \in Nat
        /\ FtTypeOK /\ UploadsAsked /\ Size \in Nat /\ thread \in Threads
    BY LenProperties DEF Typed, HostMsg, CtlMsg, Threads
  <1>1. CASE FsDownload(id)
    <2>0. Start("download", id, Len(localFile)).type = "download"  BY DEF Start
    <2>1. Start("download", id, Len(localFile)) \in HostMsg  BY <1>0, MessagesTyped
    <2>2. toHost' \in Seq(HostMsg) /\ UploadsAsked'
      BY <1>0, <1>1, <2>0, <2>1, SendKeepsAsked DEF FsDownload
    <2>3. nextId' \in 0 .. MaxId /\ down' \in [Transfer -> Nat \cup {Absent}]
      BY <1>0, <1>1 DEF FsDownload, NewId, Transfer
    <2> QED  BY <1>0, <1>1, <2>2, <2>3 DEF FsDownload, Typed, files, HostMsg
  <1>2. CASE FsUpload(id)
    <2>0. Start("upload", id, Size).at = Size  BY DEF Start
    <2>1. Start("upload", id, Size) \in HostMsg  BY <1>0, MessagesTyped
    <2>2. toHost' \in Seq(HostMsg) /\ UploadsAsked'
      BY <1>0, <1>2, <2>0, <2>1, SendKeepsAsked DEF FsUpload
    <2>3. /\ nextId' \in 0 .. MaxId /\ acked' \in [Transfer -> Nat \cup {Absent, NoAck}]
          /\ thread' \in Threads
      <3>1. thread' \in Threads
        BY <1>0, <1>2, ThreadMoves DEF FsUpload
      <3> QED  BY <1>0, <1>2, <3>1 DEF FsUpload, NewId, Transfer
    <2> QED  BY <1>0, <1>2, <2>2, <2>3 DEF FsUpload, Typed, files, HostMsg, Threads
  <1>3. CASE FsCancel(id)
    <2>1. Cancel(id) \in HostMsg  BY <1>0, MessagesTyped
    <2>2. toHost' \in Seq(HostMsg) /\ UploadsAsked'
      BY <1>0, <1>3, <2>1, SendKeepsAsked, EndFields DEF FsCancel
    <2>3. /\ down' \in [Transfer -> Nat \cup {Absent}] /\ cancelled' \subseteq Transfer
          /\ acked' \in [Transfer -> Nat \cup {Absent, NoAck}]
      BY <1>0, <1>3 DEF FsCancel, Forgets
    <2> QED  BY <1>0, <1>3, <2>2, <2>3 DEF FsCancel, Typed, files, HostMsg
  <1> QED  BY <1>1, <1>2, <1>3 DEF FtCommands

LEMMA ThreadTyped ==
  ASSUME Typed, NEW id \in Transfer, UploadThread(id)
  PROVE  Typed'
  <1> USE Constants DEF FtTypeOK
  <1>0. /\ toHost \in Seq(HostMsg) /\ FtTypeOK /\ UploadsAsked /\ thread \in Threads
        /\ thread[id].sent \in Nat
    BY DEF Typed, HostMsg, Threads
  <1>1. CASE ThreadGivesUp(id)
    <2>1. thread' \in Threads  BY <1>0, <1>1, ThreadMoves DEF ThreadGivesUp, PhaseGoes
    <2> QED
      BY <1>0, <1>1, <2>1 DEF ThreadGivesUp, ThreadOnly, tables, files, Typed, UploadsAsked, Threads
  <1>2. CASE ThreadStarts(id)
    <2>1. acked[id] \in Nat  BY <1>0, <1>2 DEF ThreadStarts
    <2>2. thread' \in Threads  BY <1>0, <1>2, <2>1 DEF ThreadStarts, Threads
    <2> QED
      BY <1>0, <1>2, <2>2 DEF ThreadStarts, ThreadOnly, tables, files, Typed, UploadsAsked, Threads
  <1>3. CASE ThreadChecks(id)
    <2>1. thread' \in Threads  BY <1>0, <1>3, ThreadMoves DEF ThreadChecks, PhaseGoes
    <2> QED
      BY <1>0, <1>3, <2>1 DEF ThreadChecks, ThreadOnly, tables, files, Typed, UploadsAsked, Threads
  <1>4. CASE ThreadSends(id)
    <2>1. thread' \in Threads
      <3>1. CASE thread' = [thread EXCEPT ![id].pc = "checking", ![id].sent = @ + 1]
        BY <1>0, <3>1, ThreadMoves
      <3>2. CASE PhaseGoes(id, "over")  BY <1>0, <3>2, ThreadMoves DEF PhaseGoes
      <3> QED  BY <1>4, <3>1, <3>2 DEF ThreadSends
    <2>2. toHost' \in Seq(HostMsg) /\ UploadsAsked'
      <3>1. CASE UNCHANGED toHost  BY <1>0, <3>1 DEF UploadsAsked
      <3>2. CASE Send(Chunk(id, thread[id].sent))
        <4>1. Chunk(id, thread[id].sent) \in HostMsg  BY <1>0, MessagesTyped
        <4> QED  BY <1>0, <3>2, <4>1, SendKeepsAsked, ChunkFields
      <3> QED  BY <1>4, <3>1, <3>2 DEF ThreadSends
    <2> QED
      BY <1>0, <1>4, <2>1, <2>2 DEF ThreadSends, ThreadOnly, tables, files, Typed, HostMsg, Threads
  <1> QED  BY <1>1, <1>2, <1>3, <1>4 DEF UploadThread

\* What the controller takes is the first message.
LEMMA ControllerTakes ==
  ASSUME toCtl \in Seq(CtlMsg), toCtl # <<>>, toCtl' = Tail(toCtl)
  PROVE  /\ Head(toCtl) = toCtl[1] /\ 1 \in DOMAIN toCtl
         /\ Head(toCtl).id \in Transfer /\ Head(toCtl).at \in Nat
         /\ Head(toCtl).type \in {"progress", "chunk", "ok", "failed"}
         /\ toCtl' \in Seq(CtlMsg) /\ DOMAIN toCtl = 1 .. Len(toCtl)
         /\ Len(toCtl) \in Nat /\ Len(toCtl') = Len(toCtl) - 1
         /\ DOMAIN toCtl' = 1 .. Len(toCtl) - 1
         /\ \A i \in DOMAIN toCtl' :
              i \in Nat /\ i + 1 \in DOMAIN toCtl /\ i + 1 # 1 /\ toCtl'[i] = toCtl[i + 1]
  <1>1. Head(toCtl) \in CtlMsg  BY TakesFirst
  <1>2. /\ Head(toCtl).id \in Transfer /\ Head(toCtl).at \in Nat
        /\ Head(toCtl).type \in {"progress", "chunk", "ok", "failed"}
    BY <1>1 DEF CtlMsg
  <1> QED  BY <1>2, TakesFirst

\* What the first message for the controller does, by its type.
LEMMA ReceiveCases ==
  ASSUME NEW m, m = Head(toCtl), Receive
  PROVE  \/ /\ m.type = "chunk" /\ down[m.id] # Absent
            /\ localFile' = Written(localFile, down[m.id], m.at + 1)
            /\ down' = [down EXCEPT ![m.id] = @ + 1]
            /\ UNCHANGED <<acked, told, spoilt>>
         \/ /\ m.type = "chunk" /\ down[m.id] # Absent /\ spoilt' = spoilt \cup {m.id}
            /\ UNCHANGED <<localFile, down, acked, told>>
         \/ /\ m.type = "chunk" /\ down[m.id] = Absent
            /\ UNCHANGED <<localFile, down, acked, told, spoilt>>
         \/ /\ m.type = "progress" /\ acked' = [acked EXCEPT ![m.id] = m.at]
            /\ UNCHANGED <<localFile, down, told, spoilt>>
         \/ /\ m.type \in {"ok", "failed"}
            /\ down' = [down EXCEPT ![m.id] = Absent]
            /\ told' = [told EXCEPT ![m.id] = m.type]
            /\ UNCHANGED <<localFile, acked, spoilt>>
  BY DEF Receive

LEMMA ReceiveTyped ==
  ASSUME Typed, Receive
  PROVE  Typed'
  <1>0. /\ toCtl \in Seq(CtlMsg) /\ toCtl # <<>> /\ toCtl' = Tail(toCtl)
        /\ down \in [Transfer -> Nat \cup {Absent}]
        /\ acked \in [Transfer -> Nat \cup {Absent, NoAck}]
        /\ told \in [Transfer -> {"nothing", "ok", "failed"}]
        /\ localFile \in Seq(Nat) /\ FtTypeOK /\ UploadsAsked
    BY DEF Receive, Typed, FtTypeOK, CtlMsg
  <1> DEFINE m == Head(toCtl)
  <1>1. /\ toCtl' \in Seq(CtlMsg) /\ m.id \in Transfer /\ m.at \in Nat
    BY <1>0, ControllerTakes
  <1>2. m = Head(toCtl)  OBVIOUS
  <1> HIDE DEF m
  <1>3. /\ localFile' \in Seq(Nat) /\ down' \in [Transfer -> Nat \cup {Absent}]
        /\ acked' \in [Transfer -> Nat \cup {Absent, NoAck}]
        /\ told' \in [Transfer -> {"nothing", "ok", "failed"}]
    <2>1. CASE /\ m.type = "chunk" /\ down[m.id] # Absent
               /\ localFile' = Written(localFile, down[m.id], m.at + 1)
               /\ down' = [down EXCEPT ![m.id] = @ + 1]
               /\ UNCHANGED <<acked, told>>
      <3>1. down[m.id] \in Nat /\ m.at + 1 \in Nat  BY <1>0, <1>1, <2>1
      <3>2. localFile' \in Seq(Nat)  BY <1>0, <2>1, <3>1, WrittenTyped
      <3> QED  BY <1>0, <1>1, <2>1, <3>1, <3>2, SMTT(30)
    <2>2. CASE UNCHANGED <<localFile, down, acked, told>>  BY <1>0, <2>2
    <2>3. CASE acked' = [acked EXCEPT ![m.id] = m.at] /\ UNCHANGED <<localFile, down, told>>
      BY <1>0, <1>1, <2>3
    <2>4. CASE /\ m.type \in {"ok", "failed"} /\ down' = [down EXCEPT ![m.id] = Absent]
               /\ told' = [told EXCEPT ![m.id] = m.type] /\ UNCHANGED <<localFile, acked>>
      BY <1>0, <1>1, <2>4
    <2> QED  BY <1>2, <2>1, <2>2, <2>3, <2>4, ReceiveCases
  <1>4. spoilt' \subseteq Transfer
    <2>1. spoilt' = spoilt \/ spoilt' = spoilt \cup {m.id}  BY <1>2, ReceiveCases
    <2>2. spoilt \subseteq Transfer  BY <1>0 DEF FtTypeOK
    <2> QED  BY <1>1, <2>1, <2>2
  <1> QED  BY <1>0, <1>1, <1>3, <1>4 DEF Receive, Typed, FtTypeOK, UploadsAsked, CtlMsg

\* What the host says is last in the queue.
LEMMA SaysOne ==
  ASSUME toCtl \in Seq(CtlMsg), NEW a \in CtlMsg, toCtl' = toCtl \o <<a>>
  PROVE  /\ toCtl' \in Seq(CtlMsg) /\ Len(toCtl) \in Nat /\ Len(toCtl') = Len(toCtl) + 1
         /\ DOMAIN toCtl = 1 .. Len(toCtl) /\ DOMAIN toCtl' = 1 .. Len(toCtl) + 1
         /\ \A i \in DOMAIN toCtl' :
              \/ i \in DOMAIN toCtl /\ toCtl'[i] = toCtl[i]
              \/ /\ i \notin DOMAIN toCtl /\ i = Len(toCtl) + 1 /\ i = Len(toCtl')
                 /\ toCtl'[i] = a
  <1>1. /\ toCtl' \in Seq(CtlMsg) /\ Len(toCtl) \in Nat /\ Len(toCtl') = Len(toCtl) + 1
        /\ DOMAIN toCtl = 1 .. Len(toCtl) /\ DOMAIN toCtl' = 1 .. Len(toCtl) + 1
        /\ \A i \in DOMAIN toCtl' :
             \/ i \in DOMAIN toCtl /\ toCtl'[i] = toCtl[i]
             \/ i = Len(toCtl) + 1 /\ toCtl'[i] = a
    BY AddsLast
  <1>2. Len(toCtl) + 1 \notin DOMAIN toCtl  BY <1>1
  <1> QED  BY <1>1, <1>2

LEMMA SaysTwo ==
  ASSUME toCtl \in Seq(CtlMsg), NEW a \in CtlMsg, NEW b \in CtlMsg, toCtl' = toCtl \o <<a, b>>
  PROVE  /\ toCtl' \in Seq(CtlMsg) /\ Len(toCtl) \in Nat /\ Len(toCtl') = Len(toCtl) + 2
         /\ DOMAIN toCtl = 1 .. Len(toCtl) /\ DOMAIN toCtl' = 1 .. Len(toCtl) + 2
         /\ \A i \in DOMAIN toCtl' :
              \/ i \in DOMAIN toCtl /\ toCtl'[i] = toCtl[i]
              \/ i \notin DOMAIN toCtl /\ i = Len(toCtl) + 1 /\ toCtl'[i] = a
              \/ i \notin DOMAIN toCtl /\ i = Len(toCtl') /\ toCtl'[i] = b
  <1>1. /\ toCtl' \in Seq(CtlMsg) /\ Len(toCtl) \in Nat /\ Len(toCtl') = Len(toCtl) + 2
        /\ DOMAIN toCtl = 1 .. Len(toCtl) /\ DOMAIN toCtl' = 1 .. Len(toCtl) + 2
        /\ \A i \in DOMAIN toCtl' :
             \/ i \in DOMAIN toCtl /\ toCtl'[i] = toCtl[i]
             \/ i = Len(toCtl) + 1 /\ toCtl'[i] = a
             \/ i = Len(toCtl) + 2 /\ toCtl'[i] = b
    BY AddsTwo
  <1>2. Len(toCtl) + 1 \notin DOMAIN toCtl /\ Len(toCtl) + 2 \notin DOMAIN toCtl  BY <1>1
  <1> QED  BY <1>1, <1>2

\* What the first message for the host is, and that the others stay.
LEMMA HostReads ==
  ASSUME Typed, NEW type, Takes(type), NEW m, m = Head(toHost)
  PROVE  /\ toHost' \in Seq(HostMsg) /\ UploadsAsked'
         /\ m.id \in Transfer /\ m.at \in Nat /\ m.type = type
         /\ m.type = "upload" => m.at = Size
  <1>0. toHost \in Seq(HostMsg) /\ UploadsAsked  BY DEF Typed, FtTypeOK, HostMsg
  <1>1. /\ m \in HostMsg /\ m = toHost[1] /\ 1 \in DOMAIN toHost /\ m.type = type
        /\ toHost' \in Seq(HostMsg)
        /\ \A i \in DOMAIN toHost' : i + 1 \in DOMAIN toHost /\ toHost'[i] = toHost[i + 1]
    BY <1>0, HostTakes
  <1>2. UploadsAsked'  BY <1>0, <1>1 DEF UploadsAsked
  <1> QED  BY <1>0, <1>1, <1>2 DEF UploadsAsked, HostMsg

LEMMA UploadStartCases ==
  ASSUME Typed, HostUploadStart, NEW m, m = Head(toHost), NEW e, e = ExistingFile(m)
  PROVE  /\ e \in 0 .. Size /\ e \in Nat /\ e <= Len(remoteFile) /\ m.id \in Transfer
         /\ Progress(m.id, e) \in CtlMsg
         /\ Done(m.id, TRUE) \in CtlMsg /\ Done(m.id, FALSE) \in CtlMsg
         /\ \/ /\ e >= Size /\ toCtl' = toCtl \o <<Progress(m.id, e), Done(m.id, TRUE)>>
               /\ UNCHANGED uploads
            \/ /\ e < Size /\ toCtl' = toCtl \o <<Progress(m.id, e)>>
               /\ uploads' = [uploads EXCEPT ![m.id] = e]
            \/ toCtl' = toCtl \o <<Done(m.id, FALSE)>> /\ UNCHANGED uploads
  <1>1. m.id \in Transfer /\ m.at = Size  BY HostReads DEF HostUploadStart
  <1>2. Len(remoteFile) \in Nat /\ Size \in Nat
    BY Constants, LenProperties DEF Typed, FtTypeOK
  <1>3. e \in Nat /\ e <= Size /\ e <= Len(remoteFile)
    BY <1>1, <1>2, SmallerOfTwo DEF ExistingFile
  <1>4. \/ /\ e >= m.at /\ Says(<<Progress(m.id, e), Done(m.id, TRUE)>>) /\ UNCHANGED uploads
        \/ /\ e < m.at /\ Says(<<Progress(m.id, e)>>)
           /\ uploads' = [uploads EXCEPT ![m.id] = e]
        \/ Says(<<Done(m.id, FALSE)>>) /\ UNCHANGED uploads
    BY DEF HostUploadStart
  <1>5. /\ Progress(m.id, e) \in CtlMsg /\ Done(m.id, TRUE) \in CtlMsg
        /\ Done(m.id, FALSE) \in CtlMsg
    BY <1>1, <1>3, MessagesTyped
  <1>6. e \in 0 .. Size  BY <1>2, <1>3
  <1>7. \/ /\ e >= Size /\ toCtl' = toCtl \o <<Progress(m.id, e), Done(m.id, TRUE)>>
           /\ UNCHANGED uploads
        \/ /\ e < Size /\ toCtl' = toCtl \o <<Progress(m.id, e)>>
           /\ uploads' = [uploads EXCEPT ![m.id] = e]
        \/ toCtl' = toCtl \o <<Done(m.id, FALSE)>> /\ UNCHANGED uploads
    BY <1>1, <1>4 DEF Says
  <1> QED  BY <1>1, <1>3, <1>5, <1>6, <1>7

LEMMA ChunkCases ==
  ASSUME Typed, HostChunk, NEW m, m = Head(toHost), NEW n, n = m.at + 1
  PROVE  /\ m.id \in Transfer /\ m.at \in Nat /\ n \in Nat /\ m.type = "chunk"
         /\ Progress(m.id, n) \in CtlMsg /\ Done(m.id, TRUE) \in CtlMsg
         /\ \/ /\ uploads[m.id] = m.at /\ remoteFile' = Written(remoteFile, m.at, n)
               /\ uploads' = [uploads EXCEPT ![m.id] = Entry(n)] /\ UNCHANGED skipped
               /\ \/ UNCHANGED toCtl
                  \/ n >= Size /\ toCtl' = toCtl \o <<Progress(m.id, n), Done(m.id, TRUE)>>
                  \/ toCtl' = toCtl \o <<Progress(m.id, n)>>
            \/ /\ skipped' = skipped \cup {m.id} /\ UNCHANGED <<uploads, remoteFile, toCtl>>
  <1>1. m.id \in Transfer /\ m.at \in Nat /\ m.type = "chunk"  BY HostReads DEF HostChunk
  <1>2. n \in Nat  BY <1>1
  <1>3. \/ /\ uploads[m.id] = m.at /\ remoteFile' = Written(remoteFile, m.at, n)
           /\ uploads' = [uploads EXCEPT ![m.id] = Entry(n)] /\ UNCHANGED skipped
           /\ Says(AckOf(m.id, n))
        \/ skipped' = skipped \cup {m.id} /\ UNCHANGED <<uploads, remoteFile, toCtl>>
    BY DEF HostChunk, Expects
  <1>4. toCtl \o <<>> = toCtl  BY ConcatEmptySeq DEF Typed, FtTypeOK
  <1>5. Says(AckOf(m.id, n)) =>
          \/ UNCHANGED toCtl
          \/ n >= Size /\ toCtl' = toCtl \o <<Progress(m.id, n), Done(m.id, TRUE)>>
          \/ toCtl' = toCtl \o <<Progress(m.id, n)>>
    BY <1>4 DEF Says, AckOf
  <1> QED  BY <1>1, <1>2, <1>3, <1>5, MessagesTyped

LEMMA DownloadCases ==
  ASSUME Typed, HostDownload, NEW m, m = Head(toHost), NEW off, off = Least(m.at, Size)
  PROVE  /\ m.id \in Transfer /\ m.at \in Nat /\ off \in 0 .. Size /\ off \in Nat /\ off <= m.at
         /\ off < Size => off = m.at
         /\ Progress(m.id, off) \in CtlMsg /\ Done(m.id, FALSE) \in CtlMsg
         /\ \/ /\ toCtl' = toCtl \o <<Progress(m.id, off)>>
               /\ downloads' = [downloads EXCEPT ![m.id] = off]
            \/ toCtl' = toCtl \o <<Done(m.id, FALSE)>> /\ UNCHANGED downloads
  <1>1. m.id \in Transfer /\ m.at \in Nat  BY HostReads DEF HostDownload
  <1>2. /\ off \in Nat /\ off <= Size /\ off <= m.at /\ (off < Size => off = m.at)
        /\ Size \in Nat
    <2>1. Size \in Nat  BY Constants
    <2>2. off \in Nat /\ off <= Size /\ off <= m.at /\ (off = m.at \/ off = Size)
      BY <1>1, <2>1, SmallerOfTwo
    <2> QED  BY <1>1, <2>1, <2>2
  <1>3. Progress(m.id, off) \in CtlMsg /\ Done(m.id, FALSE) \in CtlMsg
    BY <1>1, <1>2, MessagesTyped
  <1>4. \/ /\ Says(<<Progress(m.id, off)>>)
           /\ downloads' = [downloads EXCEPT ![m.id] = off]
        \/ Says(<<Done(m.id, FALSE)>>) /\ UNCHANGED downloads
    BY DEF HostDownload
  <1>5. off \in 0 .. Size  BY <1>2
  <1> QED  BY <1>1, <1>2, <1>3, <1>4, <1>5 DEF Says

LEMMA PumpCases ==
  ASSUME Typed, NEW id \in Transfer, HostPump(id), NEW off, off = downloads[id]
  PROVE  /\ off \in 0 .. Size /\ off \in Nat /\ Chunk(id, off) \in CtlMsg
         /\ Done(id, TRUE) \in CtlMsg /\ Done(id, FALSE) \in CtlMsg
         /\ \/ /\ off < srcLen /\ off + 1 >= Size
               /\ toCtl' = toCtl \o <<Chunk(id, off), Done(id, TRUE)>>
               /\ downloads' = [downloads EXCEPT ![id] = Absent]
            \/ /\ off < srcLen /\ off + 1 < Size /\ toCtl' = toCtl \o <<Chunk(id, off)>>
               /\ downloads' = [downloads EXCEPT ![id] = off + 1]
            \/ /\ off >= Size /\ toCtl' = toCtl \o <<Done(id, TRUE)>>
               /\ downloads' = [downloads EXCEPT ![id] = Absent]
            \/ /\ toCtl' = toCtl \o <<Done(id, FALSE)>>
               /\ downloads' = [downloads EXCEPT ![id] = Absent]
  <1>1. off \in 0 .. Size /\ Size \in Nat
    <2>1. downloads \in [Transfer -> 0 .. Size \cup {Absent}]  BY DEF Typed, FtTypeOK
    <2> QED  BY <2>1, Constants DEF HostPump
  <1>2. /\ Chunk(id, off) \in CtlMsg /\ Done(id, TRUE) \in CtlMsg /\ Done(id, FALSE) \in CtlMsg
    <2>1. off \in Nat  BY <1>1
    <2> QED  BY <2>1, MessagesTyped
  <1>3. \/ /\ off < srcLen
           /\ Says(IF off + 1 >= Size THEN <<Chunk(id, off), Done(id, TRUE)>>
                   ELSE <<Chunk(id, off)>>)
           /\ downloads' = [downloads EXCEPT ![id] = IF off + 1 >= Size THEN Absent ELSE off + 1]
        \/ /\ Says(<<Done(id, off >= Size)>>)
           /\ downloads' = [downloads EXCEPT ![id] = Absent]
        \/ /\ Says(<<Done(id, FALSE)>>)
           /\ downloads' = [downloads EXCEPT ![id] = Absent]
    BY DEF HostPump, Last
  <1>4. Done(id, off >= Size) = IF off >= Size THEN Done(id, TRUE) ELSE Done(id, FALSE)
    BY DEF Done
  <1>5. off + 1 >= Size \/ off + 1 < Size  BY <1>1
  <1>6. off \in Nat  BY <1>1
  <1>7. \/ /\ off < srcLen /\ off + 1 >= Size
           /\ toCtl' = toCtl \o <<Chunk(id, off), Done(id, TRUE)>>
           /\ downloads' = [downloads EXCEPT ![id] = Absent]
        \/ /\ off < srcLen /\ off + 1 < Size /\ toCtl' = toCtl \o <<Chunk(id, off)>>
           /\ downloads' = [downloads EXCEPT ![id] = off + 1]
        \/ /\ off >= Size /\ toCtl' = toCtl \o <<Done(id, TRUE)>>
           /\ downloads' = [downloads EXCEPT ![id] = Absent]
        \/ /\ toCtl' = toCtl \o <<Done(id, FALSE)>>
           /\ downloads' = [downloads EXCEPT ![id] = Absent]
    BY <1>3, <1>4, <1>5 DEF Says
  <1> QED  BY <1>1, <1>2, <1>6, <1>7

\* What the host does with a request leaves the controller's variables alone.
LEMMA HostTyped ==
  ASSUME Typed, Host
  PROVE  Typed'
  <1>0. /\ toCtl \in Seq(CtlMsg) /\ remoteFile \in Seq(Nat) /\ FtTypeOK
        /\ uploads \in [Transfer -> 0 .. Size - 1 \cup {Absent}]
        /\ downloads \in [Transfer -> 0 .. Size \cup {Absent}]
        /\ skipped \subseteq Transfer
    BY DEF Typed, FtTypeOK, CtlMsg
  <1> DEFINE m == Head(toHost)
  <1>1. m = Head(toHost)  OBVIOUS
  <1>2. toHost' \in Seq(HostMsg) /\ UploadsAsked' /\ m.id \in Transfer
    BY HostReads DEF Host, HostUploadStart, HostChunk, HostDownload, HostCancel
  <1> HIDE DEF m
  <1> USE Constants
  <1>3. CASE HostUploadStart
    <2> DEFINE e == ExistingFile(m)
    <2>1. e = ExistingFile(m)  OBVIOUS
    <2> HIDE DEF e
    <2>2. uploads' \in [Transfer -> 0 .. Size - 1 \cup {Absent}]
      <3>1. e \in 0 .. Size  BY <1>1, <1>3, <2>1, UploadStartCases
      <3>2. e < Size => e \in 0 .. Size - 1  BY <3>1
      <3>3. \/ UNCHANGED uploads
            \/ e < Size /\ uploads' = [uploads EXCEPT ![m.id] = e]
        BY <1>1, <1>3, <2>1, UploadStartCases
      <3> QED  BY <1>0, <1>2, <3>2, <3>3
    <2>3. toCtl' \in Seq(CtlMsg)
      BY <1>0, <1>1, <1>3, <2>1, UploadStartCases, SaysOne, SaysTwo
    <2> QED
      BY <1>0, <1>2, <1>3, <2>2, <2>3
      DEF HostUploadStart, HostOnly, Typed, FtTypeOK, HostMsg, CtlMsg
  <1>4. CASE HostChunk
    <2> DEFINE n == m.at + 1
    <2>1. n = m.at + 1  OBVIOUS
    <2> HIDE DEF n
    <2>2. n \in Nat /\ n > 0 /\ m.at \in Nat
      <3>1. m.at \in Nat  BY <1>1, <1>4, <2>1, ChunkCases
      <3> QED  BY <2>1, <3>1
    <2>3. Entry(n) \in 0 .. Size - 1 \cup {Absent}  BY <2>2 DEF Entry
    <2>4. uploads' \in [Transfer -> 0 .. Size - 1 \cup {Absent}] /\ skipped' \subseteq Transfer
      <3>1. \/ uploads' = [uploads EXCEPT ![m.id] = Entry(n)] /\ UNCHANGED skipped
            \/ skipped' = skipped \cup {m.id} /\ UNCHANGED uploads
        BY <1>1, <1>4, <2>1, ChunkCases
      <3> HIDE DEF Entry
      <3> QED  BY <1>0, <1>2, <2>3, <3>1
    <2>5. remoteFile' \in Seq(Nat)
      <3>1. UNCHANGED remoteFile \/ remoteFile' = Written(remoteFile, m.at, n)
        BY <1>1, <1>4, <2>1, ChunkCases
      <3> QED  BY <1>0, <2>2, <3>1, WrittenTyped
    <2>6. toCtl' \in Seq(CtlMsg)
      BY <1>0, <1>1, <1>4, <2>1, ChunkCases, SaysOne, SaysTwo
    <2> QED
      BY <1>0, <1>2, <1>4, <2>4, <2>5, <2>6
      DEF HostChunk, HostOnly, Typed, FtTypeOK, HostMsg, CtlMsg
  <1>5. CASE HostDownload
    <2> DEFINE off == Least(m.at, Size)
    <2>1. off = Least(m.at, Size)  OBVIOUS
    <2> HIDE DEF off
    <2>2. downloads' \in [Transfer -> 0 .. Size \cup {Absent}]
      BY <1>0, <1>1, <1>5, <2>1, DownloadCases
    <2>3. toCtl' \in Seq(CtlMsg)  BY <1>0, <1>1, <1>5, <2>1, DownloadCases, SaysOne
    <2> QED
      BY <1>0, <1>2, <1>5, <2>2, <2>3
      DEF HostDownload, HostOnly, Typed, FtTypeOK, HostMsg, CtlMsg
  <1>6. CASE HostCancel
    <2>1. /\ uploads' \in [Transfer -> 0 .. Size - 1 \cup {Absent}]
          /\ downloads' \in [Transfer -> 0 .. Size \cup {Absent}]
      BY <1>0, <1>2, <1>6 DEF HostCancel
    <2> QED
      BY <1>0, <1>2, <1>6, <2>1 DEF HostCancel, HostOnly, Typed, FtTypeOK, HostMsg
  <1> QED  BY <1>3, <1>4, <1>5, <1>6 DEF Host

LEMMA HostPumpTyped ==
  ASSUME Typed, NEW id \in Transfer, HostPump(id)
  PROVE  Typed'
  <1>0. /\ toCtl \in Seq(CtlMsg) /\ FtTypeOK /\ UploadsAsked
        /\ downloads \in [Transfer -> 0 .. Size \cup {Absent}]
    BY DEF Typed, FtTypeOK, CtlMsg
  <1> DEFINE off == downloads[id]
  <1>1. off = downloads[id]  OBVIOUS
  <1> HIDE DEF off
  <1>2. downloads' \in [Transfer -> 0 .. Size \cup {Absent}]
    <2>1. /\ off \in 0 .. Size
          /\ \/ off + 1 < Size /\ downloads' = [downloads EXCEPT ![id] = off + 1]
             \/ downloads' = [downloads EXCEPT ![id] = Absent]
      BY <1>1, PumpCases
    <2>2. off + 1 < Size => off + 1 \in 0 .. Size  BY <2>1, Constants
    <2> QED  BY <1>0, <2>1, <2>2
  <1>3. toCtl' \in Seq(CtlMsg)  BY <1>0, <1>1, PumpCases, SaysOne, SaysTwo
  <1> QED  BY <1>0, <1>2, <1>3 DEF HostPump, HostOnly, Typed, FtTypeOK, UploadsAsked, CtlMsg

LEMMA SessionTyped ==
  ASSUME Typed, SessionEnds \/ Connects
  PROVE  Typed'
  <1> USE Constants DEF FtTypeOK
  <1>0. toHost \in Seq(HostMsg) /\ toCtl \in Seq(CtlMsg) /\ FtTypeOK /\ UploadsAsked
    BY DEF Typed, HostMsg, CtlMsg
  <1>1. CASE SessionEnds
    <2>1. toHost' \in Seq(HostMsg) /\ UploadsAsked'
      BY <1>1, EmptySeq DEF SessionEnds, UploadsAsked
    <2>2. toCtl' \in Seq(CtlMsg)  BY <1>0, <1>1, KeepsFirst DEF SessionEnds
    <2> QED  BY <1>0, <1>1, <2>1, <2>2 DEF SessionEnds, files, Typed, HostMsg, CtlMsg
  <1>2. CASE Connects
    <2>1. sessions' \in 1 .. MaxSession \cup {1}  BY <1>0, <1>2, TransferAssumption DEF Connects
    <2> QED  BY <1>0, <1>2, <2>1 DEF Connects, files, tables, wires, Typed, UploadsAsked
  <1> QED  BY <1>1, <1>2

LEMMA TypedStep == Typed /\ [FtNext]_ftVars => Typed'
  <1> SUFFICES ASSUME Typed, [FtNext]_ftVars PROVE Typed'
    OBVIOUS
  <1>1. CASE UNCHANGED ftVars
    BY <1>1 DEF ftVars, tables, wires, files, Typed, FtTypeOK, UploadsAsked
  <1> QED
    BY <1>1, CommandsTyped, ThreadTyped, ReceiveTyped, HostTyped, HostPumpTyped, SessionTyped
    DEF FtNext

LEMMA TypedAlways == FtSpec => []Typed
  BY TypedInit, TypedStep, PTL DEF FtSpec

(***************************************************************************)
(* Tables, threads, messages and files of a transfer have their types      *)
(* (FtTypeOK), and what the host's table holds of an upload is never the   *)
(* whole file.                                                             *)
(***************************************************************************)
THEOREM TransferTypeCorrect == FtSpec => []FtTypeOK
  <1>1. Typed => FtTypeOK  BY DEF Typed
  <1> QED  BY <1>1, TypedAlways, PTL

-----------------------------------------------------------------------------
\* What the types say of each variable.
LEMMA TypedFacts ==
  ASSUME Typed
  PROVE  /\ toHost \in Seq(HostMsg) /\ toCtl \in Seq(CtlMsg) /\ thread \in Threads
         /\ down \in [Transfer -> Nat \cup {Absent}]
         /\ acked \in [Transfer -> Nat \cup {Absent, NoAck}]
         /\ uploads \in [Transfer -> 0 .. Size - 1 \cup {Absent}]
         /\ downloads \in [Transfer -> 0 .. Size \cup {Absent}]
         /\ told \in [Transfer -> {"nothing", "ok", "failed"}]
         /\ localFile \in Seq(Nat) /\ remoteFile \in Seq(Nat)
         /\ Len(localFile) \in Nat /\ Len(remoteFile) \in Nat
         /\ srcLen \in Nat /\ nextId \in Nat /\ Size \in Nat /\ Window \in Nat
         /\ cancelled \subseteq Transfer /\ skipped \subseteq Transfer
         /\ spoilt \subseteq Transfer
  <1>1. FtTypeOK /\ Size \in Nat /\ Window \in Nat /\ SourceLen \subseteq Nat
    BY Constants DEF Typed
  <1>2. localFile \in Seq(Nat) /\ remoteFile \in Seq(Nat) /\ srcLen \in Nat /\ nextId \in Nat
    BY <1>1 DEF FtTypeOK
  <1>3. Len(localFile) \in Nat /\ Len(remoteFile) \in Nat  BY <1>2, LenProperties
  <1>4. toHost \in Seq(HostMsg) /\ toCtl \in Seq(CtlMsg) /\ thread \in Threads
    BY <1>1 DEF FtTypeOK, HostMsg, CtlMsg, Threads
  <1> QED  BY <1>1, <1>2, <1>3, <1>4 DEF FtTypeOK

\* What is taken to be in a file is in it: an upload and a download go on where it ends, or
\* before that.
UploadsBehind == \A id \in Transfer : uploads[id] # Absent => uploads[id] <= Len(remoteFile)

DownloadsBehind == \A id \in Transfer : down[id] # Absent => down[id] <= Len(localFile)

\* A step of the controller, of its threads or of the session leaves uploads alone, or forgets
\* them; a step of the host may write.
LEMMA UploadTableSteps ==
  ASSUME Typed, [FtNext]_ftVars
  PROVE  \/ UNCHANGED <<uploads, remoteFile>>
         \/ HostUploadStart \/ HostChunk
         \/ HostCancel /\ UNCHANGED remoteFile
         \/ uploads' = [id \in Transfer |-> Absent] /\ UNCHANGED remoteFile
  BY DEF FtNext, ftVars, tables, files, FtCommands, FsDownload, FsUpload, FsCancel,
         UploadThread, ThreadGivesUp, ThreadStarts, ThreadChecks, ThreadSends, ThreadOnly,
         Receive, Host, HostDownload, HostCancel, HostPump, SessionEnds, Connects

LEMMA UploadsBehindStep == Typed /\ UploadsBehind /\ [FtNext]_ftVars => UploadsBehind'
  <1> SUFFICES ASSUME Typed, UploadsBehind, [FtNext]_ftVars PROVE UploadsBehind'
    OBVIOUS
  <1>0. /\ uploads \in [Transfer -> 0 .. Size - 1 \cup {Absent}]
        /\ remoteFile \in Seq(Nat) /\ Len(remoteFile) \in Nat /\ Absent = -1
    BY TypedFacts, Constants
  <1> SUFFICES ASSUME NEW id \in Transfer, uploads'[id] # Absent
               PROVE  uploads'[id] <= Len(remoteFile')
    BY DEF UploadsBehind
  <1>1. CASE UNCHANGED <<uploads, remoteFile>>  BY <1>1 DEF UploadsBehind
  <1>2. CASE HostUploadStart
    <2> DEFINE m == Head(toHost)
               e == ExistingFile(m)
    <2>1. m = Head(toHost) /\ e = ExistingFile(m)  OBVIOUS
    <2> HIDE DEF m, e
    <2>2. /\ e <= Len(remoteFile) /\ m.id \in Transfer
          /\ uploads' = uploads \/ uploads' = [uploads EXCEPT ![m.id] = e]
      BY <1>2, <2>1, UploadStartCases
    <2>3. remoteFile' = remoteFile  BY <1>2 DEF HostUploadStart
    <2> QED  BY <1>0, <2>2, <2>3 DEF UploadsBehind
  <1>3. CASE HostChunk
    <2> DEFINE m == Head(toHost)
               n == m.at + 1
    <2>1. m = Head(toHost) /\ n = m.at + 1  OBVIOUS
    <2> HIDE DEF m, n
    <2>2. m.id \in Transfer /\ m.at \in Nat /\ n \in Nat  BY <1>3, <2>1, ChunkCases
    <2>3. \/ /\ remoteFile' = Written(remoteFile, m.at, n)
             /\ uploads' = [uploads EXCEPT ![m.id] = Entry(n)]
          \/ UNCHANGED <<uploads, remoteFile>>
      BY <1>3, <2>1, ChunkCases
    <2>4. CASE /\ remoteFile' = Written(remoteFile, m.at, n)
               /\ uploads' = [uploads EXCEPT ![m.id] = Entry(n)]
      <3>1. /\ Len(remoteFile') = IF m.at < Len(remoteFile) THEN Len(remoteFile) ELSE m.at + 1
        BY <1>0, <2>2, <2>4, WrittenTyped
      <3>2. Len(remoteFile') \in Nat /\ n <= Len(remoteFile') /\ Len(remoteFile) <= Len(remoteFile')
        BY <1>0, <2>1, <2>2, <3>1
      <3>3. CASE id = m.id  BY <1>0, <2>2, <2>4, <3>2, <3>3 DEF Entry
      <3>4. CASE id # m.id
        <4>1. uploads'[id] = uploads[id]  BY <1>0, <2>4, <3>4
        <4>2. uploads[id] \in Int /\ uploads[id] <= Len(remoteFile)
          BY <1>0, <4>1, Constants DEF UploadsBehind
        <4> QED  BY <1>0, <3>2, <4>1, <4>2
      <3> QED  BY <3>3, <3>4
    <2>5. CASE UNCHANGED <<uploads, remoteFile>>  BY <2>5 DEF UploadsBehind
    <2> QED  BY <2>3, <2>4, <2>5
  <1>4. CASE HostCancel /\ UNCHANGED remoteFile
    <2>1. uploads'[id] = uploads[id]  BY <1>0, <1>4 DEF HostCancel
    <2> QED  BY <1>4, <2>1 DEF UploadsBehind
  <1>5. CASE uploads' = [x \in Transfer |-> Absent] /\ UNCHANGED remoteFile  BY <1>5
  <1> QED  BY <1>1, <1>2, <1>3, <1>4, <1>5, UploadTableSteps

\* An upload that is expected is written where it belongs.
LEMMA RemoteIntactStep ==
  Typed /\ UploadsBehind /\ RemoteIntact /\ [FtNext]_ftVars => RemoteIntact'
  <1> SUFFICES ASSUME Typed, UploadsBehind, RemoteIntact, [FtNext]_ftVars PROVE RemoteIntact'
    OBVIOUS
  <1>1. CASE UNCHANGED remoteFile  BY <1>1 DEF RemoteIntact
  <1>2. CASE HostChunk
    <2> DEFINE m == Head(toHost)
               n == m.at + 1
    <2>1. m = Head(toHost) /\ n = m.at + 1  OBVIOUS
    <2> HIDE DEF m, n
    <2>2. m.id \in Transfer /\ m.at \in Nat  BY <1>2, <2>1, ChunkCases
    <2>3. \/ uploads[m.id] = m.at /\ remoteFile' = Written(remoteFile, m.at, n)
          \/ UNCHANGED remoteFile
      BY <1>2, <2>1, ChunkCases
    <2>4. CASE uploads[m.id] = m.at /\ remoteFile' = Written(remoteFile, m.at, n)
      <3>0. uploads[m.id] # Absent  BY <2>2, <2>4, Constants
      <3>1. m.at <= Len(remoteFile)  BY <2>2, <2>4, <3>0 DEF UploadsBehind
      <3>2. remoteFile \in Seq(Nat) /\ \A i \in DOMAIN remoteFile : remoteFile[i] = i
        BY TypedFacts DEF RemoteIntact
      <3>3. remoteFile' = Written(remoteFile, m.at, m.at + 1)  BY <2>1, <2>4
      <3>4. \A i \in DOMAIN Written(remoteFile, m.at, m.at + 1) :
              Written(remoteFile, m.at, m.at + 1)[i] = i
        BY <2>2, <3>1, <3>2, WrittenIntact
      <3> QED  BY <3>3, <3>4 DEF RemoteIntact
    <2> QED  BY <1>1, <2>3, <2>4
  <1> QED  BY <1>1, <1>2, UploadTableSteps DEF HostUploadStart

(***************************************************************************)
(* What uploads write to holds the right chunk at every place, whatever    *)
(* fails, is cancelled or outlives its session (RemoteIntact, the host's   *)
(* part of FilesIntact): the host writes a chunk only where the table of   *)
(* the session puts it, and that is never behind the end of the file.      *)
(***************************************************************************)
THEOREM UploadsStayIntact == FtSpec => []RemoteIntact
  <1> DEFINE Inv == Typed /\ UploadsBehind /\ RemoteIntact
  <1>1. FtInit => Inv
    BY TypedInit, EmptySeq DEF FtInit, UploadsBehind, RemoteIntact
  <1>2. Inv /\ [FtNext]_ftVars => Inv'
    BY TypedStep, UploadsBehindStep, RemoteIntactStep
  <1>3. Inv => RemoteIntact  OBVIOUS
  <1> HIDE DEF Inv
  <1> QED  BY <1>1, <1>2, <1>3, PTL DEF FtSpec

-----------------------------------------------------------------------------
(***************************************************************************)
(* Who a transfer belongs to.  A number that was not given out yet is      *)
(* nowhere; what is on its way carries a number that was; and uploads and  *)
(* downloads keep to their own tables and messages.                        *)
(***************************************************************************)
Untouched(id) ==
  /\ down[id] = Absent /\ acked[id] = Absent /\ thread[id].pc = "none" /\ told[id] = "nothing"
  /\ uploads[id] = Absent /\ downloads[id] = Absent

FreshTables == \A id \in Transfer : id > nextId => Untouched(id)

KnownIds ==
  /\ \A i \in DOMAIN toHost : toHost[i].id <= nextId
  /\ \A i \in DOMAIN toCtl : toCtl[i].id <= nextId

MessagesHaveRoles ==
  /\ \A i \in DOMAIN toHost :
       /\ toHost[i].type \in {"upload", "chunk"} => IsUpload(toHost[i].id)
       /\ toHost[i].type = "download" => ~IsUpload(toHost[i].id)
  /\ \A i \in DOMAIN toCtl : toCtl[i].type = "chunk" => ~IsUpload(toCtl[i].id)

TablesHaveRoles ==
  \A id \in Transfer :
    /\ uploads[id] # Absent => IsUpload(id)
    /\ downloads[id] # Absent => ~IsUpload(id)
    /\ down[id] # Absent => ~IsUpload(id)

Ids == FreshTables /\ KnownIds /\ MessagesHaveRoles /\ TablesHaveRoles

\* Every message of a queue has the type of its messages.
LEMMA QueuedTyped ==
  ASSUME Typed
  PROVE  /\ \A i \in DOMAIN toHost : toHost[i] \in HostMsg
         /\ \A i \in DOMAIN toHost : /\ toHost[i].id \in Transfer /\ toHost[i].at \in Nat
                                     /\ toHost[i].type \in {"upload", "download", "chunk", "cancel"}
         /\ \A i \in DOMAIN toCtl : toCtl[i] \in CtlMsg
         /\ \A i \in DOMAIN toCtl : /\ toCtl[i].id \in Transfer /\ toCtl[i].at \in Nat
                                    /\ toCtl[i].type \in {"progress", "chunk", "ok", "failed"}
  <1>1. toHost \in Seq(HostMsg) /\ toCtl \in Seq(CtlMsg)  BY TypedFacts
  <1>2. /\ \A i \in DOMAIN toHost : toHost[i] \in HostMsg
        /\ \A i \in DOMAIN toCtl : toCtl[i] \in CtlMsg
    BY <1>1, ElementOfSeq, LenProperties
  <1> QED  BY <1>2 DEF HostMsg, CtlMsg

\* Who puts the request m of the transfer id on its way.
Request(id, m) ==
  /\ m.id = id
  /\ \/ FsDownload(id) /\ m.type = "download" /\ m.at = Len(localFile)
     \/ FsUpload(id) /\ m.type = "upload" /\ link = "live"
     \/ FsCancel(id) /\ m.type = "cancel"
     \/ /\ m.type = "chunk" /\ thread[id].pc = "sending" /\ m.at = thread[id].sent
        /\ ThreadSends(id)
        /\ thread' = [thread EXCEPT ![id].pc = "checking", ![id].sent = @ + 1]

\* A step that takes no request adds at most one, at the end.
LEMMA OthersSend ==
  ASSUME Typed, [FtNext]_ftVars, ~Host, NEW i \in DOMAIN toHost'
  PROVE  \/ i \in DOMAIN toHost /\ toHost'[i] = toHost[i]
         \/ /\ i = Len(toHost) + 1 /\ i \notin DOMAIN toHost
            /\ \E id \in Transfer : Request(id, toHost'[i])
  <1> DEFINE Old == i \in DOMAIN toHost /\ toHost'[i] = toHost[i]
             Last1 == i = Len(toHost) + 1 /\ i \notin DOMAIN toHost
  <1>0. /\ toHost \in Seq(HostMsg) /\ thread \in Threads /\ Len(localFile) \in Nat /\ Size \in Nat
        /\ Len(toHost) + 1 \notin DOMAIN toHost
    <2>1. /\ toHost \in Seq(HostMsg) /\ thread \in Threads /\ Len(localFile) \in Nat
          /\ Size \in Nat
      BY TypedFacts
    <2>2. Len(toHost) \in Nat /\ DOMAIN toHost = 1 .. Len(toHost)  BY <2>1, LenProperties
    <2> QED  BY <2>1, <2>2
  <1>s. ASSUME NEW m \in HostMsg, Send(m) PROVE Old \/ (Last1 /\ toHost'[i] = m)
    BY <1>0, <1>s, SendsLast
  <1> HIDE DEF Old, Last1
  <1>1. ASSUME NEW id \in Transfer, FsDownload(id)
        PROVE  Old \/ (Last1 /\ Request(id, toHost'[i]))
    <2> DEFINE m == Start("download", id, Len(localFile))
    <2>1. m \in HostMsg  BY <1>0, MessagesTyped
    <2>2. m.id = id /\ m.type = "download" /\ m.at = Len(localFile)  BY StartFields
    <2>3. Send(m)  BY <1>1 DEF FsDownload
    <2> HIDE DEF m
    <2> QED  BY <1>1, <1>s, <2>1, <2>2, <2>3 DEF Request
  <1>2. ASSUME NEW id \in Transfer, FsUpload(id)
        PROVE  Old \/ (Last1 /\ Request(id, toHost'[i]))
    <2> DEFINE m == Start("upload", id, Size)
    <2>1. m \in HostMsg  BY <1>0, MessagesTyped
    <2>2. m.id = id /\ m.type = "upload"  BY StartFields
    <2>3. Send(m)  BY <1>2 DEF FsUpload
    <2> HIDE DEF m
    <2>4. CASE link = "live"  BY <1>2, <1>s, <2>1, <2>2, <2>3, <2>4 DEF Request
    <2>5. CASE link # "live"
      <3>1. toHost' = toHost  BY <2>3, <2>5 DEF Send
      <3> QED  BY <3>1 DEF Old
    <2> QED  BY <2>4, <2>5
  <1>3. ASSUME NEW id \in Transfer, FsCancel(id)
        PROVE  Old \/ (Last1 /\ Request(id, toHost'[i]))
    <2> DEFINE m == Cancel(id)
    <2>1. m \in HostMsg  BY <1>0, MessagesTyped
    <2>2. m.id = id /\ m.type = "cancel"  BY EndFields
    <2>3. Send(m)  BY <1>3 DEF FsCancel
    <2> HIDE DEF m
    <2> QED  BY <1>3, <1>s, <2>1, <2>2, <2>3 DEF Request
  <1>4. ASSUME NEW id \in Transfer, ThreadSends(id)
        PROVE  Old \/ (Last1 /\ Request(id, toHost'[i]))
    <2> DEFINE m == Chunk(id, thread[id].sent)
    <2>0. thread[id].sent \in Nat  BY <1>0 DEF Threads
    <2>1. m \in HostMsg  BY <2>0, MessagesTyped
    <2>2. m.id = id /\ m.type = "chunk" /\ m.at = thread[id].sent  BY ChunkFields
    <2>3. /\ thread[id].pc = "sending"
          /\ \/ /\ Send(m)
                /\ thread' = [thread EXCEPT ![id].pc = "checking", ![id].sent = @ + 1]
             \/ UNCHANGED toHost
      BY <1>4 DEF ThreadSends
    <2> HIDE DEF m
    <2>4. CASE UNCHANGED toHost  BY <2>4 DEF Old
    <2> QED  BY <1>4, <1>s, <2>1, <2>2, <2>3, <2>4 DEF Request
  <1>5. CASE SessionEnds  BY <1>5 DEF SessionEnds
  <1>6. CASE UNCHANGED toHost  BY <1>6 DEF Old
  <1>7. /\ \A id \in Transfer : UploadThread(id) => ThreadSends(id) \/ UNCHANGED toHost
        /\ \A id \in Transfer : HostPump(id) => UNCHANGED toHost
        /\ Receive \/ Connects \/ UNCHANGED ftVars => UNCHANGED toHost
    BY DEF UploadThread, ThreadGivesUp, ThreadStarts, ThreadChecks, HostPump,
           Receive, Connects, ftVars, wires
  <1>8. \/ \E id \in Transfer : FsDownload(id) \/ FsUpload(id) \/ FsCancel(id) \/ UploadThread(id)
                                \/ HostPump(id)
        \/ SessionEnds \/ Receive \/ Connects \/ UNCHANGED ftVars
    BY DEF FtNext, FtCommands
  <1> QED  BY <1>1, <1>2, <1>3, <1>4, <1>5, <1>6, <1>7, <1>8 DEF Old, Last1

\* The host takes the first request and leaves the others; the controller's variables stay.
LEMMA HostTakesOne ==
  ASSUME Typed, Host
  PROVE  /\ 1 \in DOMAIN toHost /\ toHost[1].id \in Transfer /\ toHost[1].at \in Nat
         /\ \A i \in DOMAIN toHost' :
              i \in Nat /\ i + 1 \in DOMAIN toHost /\ i + 1 # 1 /\ toHost'[i] = toHost[i + 1]
         /\ UNCHANGED <<nextId, thread, down, acked, told, cancelled, localFile, link>>
  <1>0. toHost \in Seq(HostMsg)  BY TypedFacts
  <1>1. toHost # <<>> /\ toHost' = Tail(toHost)
    BY DEF Host, HostUploadStart, HostChunk, HostDownload, HostCancel, Takes
  <1>2. UNCHANGED <<nextId, thread, down, acked, told, cancelled, localFile, link>>
    BY DEF Host, HostUploadStart, HostChunk, HostDownload, HostCancel, HostOnly
  <1> QED  BY <1>0, <1>1, <1>2, TakesFirst, QueuedTyped

\* What the host answers to the request m: at most one acknowledgement, and the end after it.
Answer(i, m) ==
  /\ i \notin DOMAIN toCtl /\ toCtl'[i].id = m.id /\ m.type # "cancel"
  /\ \/ /\ toCtl'[i].type = "progress" /\ i = Len(toCtl) + 1
        /\ m.type = "chunk" => toCtl'[i].at = m.at + 1
     \/ /\ toCtl'[i].type \in {"ok", "failed"} /\ i = Len(toCtl')
        /\ toCtl'[i].type = "ok" => m.type # "download" /\ Size <= Len(remoteFile')

LEMMA HostSays ==
  ASSUME Typed, Host, NEW i \in DOMAIN toCtl'
  PROVE  \/ i \in DOMAIN toCtl /\ toCtl'[i] = toCtl[i]
         \/ Answer(i, toHost[1])
  <1>0. /\ toHost \in Seq(HostMsg) /\ toCtl \in Seq(CtlMsg) /\ remoteFile \in Seq(Nat)
        /\ Size \in Nat /\ Len(remoteFile) \in Nat
    BY TypedFacts
  <1> DEFINE m == Head(toHost)
             Old == i \in DOMAIN toCtl /\ toCtl'[i] = toCtl[i]
  <1>m. m = Head(toHost)  OBVIOUS
  <1> HIDE DEF m
  <1>1. ASSUME NEW type, Takes(type) PROVE m = toHost[1] /\ m.type = type
    BY <1>0, <1>1, <1>m, HostTakes
  <1>2. CASE HostUploadStart
    <2> DEFINE e == ExistingFile(m)
    <2>e. e = ExistingFile(m)  OBVIOUS
    <2> HIDE DEF e
    <2>1. m = toHost[1] /\ m.type = "upload"  BY <1>1, <1>2 DEF HostUploadStart
    <2>2. /\ e \in Nat /\ m.id \in Transfer /\ e <= Len(remoteFile)
          /\ Progress(m.id, e) \in CtlMsg /\ Done(m.id, TRUE) \in CtlMsg
          /\ Done(m.id, FALSE) \in CtlMsg
      BY <1>0, <1>2, <1>m, <2>e, UploadStartCases
    <2>3. \/ e >= Size /\ toCtl' = toCtl \o <<Progress(m.id, e), Done(m.id, TRUE)>>
          \/ toCtl' = toCtl \o <<Progress(m.id, e)>>
          \/ toCtl' = toCtl \o <<Done(m.id, FALSE)>>
      BY <1>2, <1>m, <2>e, UploadStartCases
    <2>4. Progress(m.id, e).id = m.id /\ Progress(m.id, e).type = "progress"
      BY ProgressFields
    <2>d. /\ Done(m.id, TRUE).id = m.id /\ Done(m.id, TRUE).type = "ok"
          /\ Done(m.id, FALSE).id = m.id /\ Done(m.id, FALSE).type = "failed"
      BY EndFields
    <2>5. e >= Size => Size <= Len(remoteFile')
      <3>1. remoteFile' = remoteFile  BY <1>2 DEF HostUploadStart
      <3> QED  BY <1>0, <2>2, <3>1
    <2>6. CASE e >= Size /\ toCtl' = toCtl \o <<Progress(m.id, e), Done(m.id, TRUE)>>
      <3> DEFINE a == Progress(m.id, e)
                 b == Done(m.id, TRUE)
      <3>0. /\ toCtl \in Seq(CtlMsg) /\ toCtl' = toCtl \o <<a, b>>
            /\ a \in CtlMsg /\ b \in CtlMsg
        BY <1>0, <2>2, <2>6
      <3> HIDE DEF a, b
      <3>1. \/ Old
            \/ toCtl'[i] = a /\ i = Len(toCtl) + 1 /\ i \notin DOMAIN toCtl
            \/ toCtl'[i] = b /\ i = Len(toCtl') /\ i \notin DOMAIN toCtl
        BY <3>0, SaysTwo
      <3> USE DEF a, b
      <3> QED  BY <2>1, <2>4, <2>d, <2>5, <2>6, <3>1 DEF Answer
    <2>7. CASE toCtl' = toCtl \o <<Progress(m.id, e)>>
      <3>1. \/ Old
            \/ toCtl'[i] = Progress(m.id, e) /\ i = Len(toCtl) + 1 /\ i \notin DOMAIN toCtl
        BY <1>0, <2>2, <2>7, SaysOne
      <3> QED  BY <2>1, <2>4, <3>1 DEF Answer
    <2>8. CASE toCtl' = toCtl \o <<Done(m.id, FALSE)>>
      <3>1. \/ Old
            \/ toCtl'[i] = Done(m.id, FALSE) /\ i = Len(toCtl') /\ i \notin DOMAIN toCtl
        BY <1>0, <2>2, <2>8, SaysOne
      <3> QED  BY <2>1, <2>d, <3>1 DEF Answer
    <2> QED  BY <2>3, <2>6, <2>7, <2>8
  <1>3. CASE HostChunk
    <2> DEFINE n == m.at + 1
    <2>n. n = m.at + 1  OBVIOUS
    <2> HIDE DEF n
    <2>1. m = toHost[1] /\ m.type = "chunk"  BY <1>1, <1>3 DEF HostChunk
    <2>2. /\ n \in Nat /\ m.id \in Transfer /\ m.at \in Nat
          /\ Progress(m.id, n) \in CtlMsg /\ Done(m.id, TRUE) \in CtlMsg
      BY <1>3, <1>m, <2>n, ChunkCases
    <2>3. \/ toCtl' = toCtl
          \/ /\ n >= Size /\ toCtl' = toCtl \o <<Progress(m.id, n), Done(m.id, TRUE)>>
             /\ remoteFile' = Written(remoteFile, m.at, n)
          \/ toCtl' = toCtl \o <<Progress(m.id, n)>>
      BY <1>3, <1>m, <2>n, ChunkCases
    <2>4. /\ Progress(m.id, n).id = m.id /\ Progress(m.id, n).type = "progress"
          /\ Progress(m.id, n).at = n
      BY ProgressFields
    <2>d. Done(m.id, TRUE).id = m.id /\ Done(m.id, TRUE).type = "ok"
      BY EndFields
    <2>5. n >= Size /\ remoteFile' = Written(remoteFile, m.at, n) => Size <= Len(remoteFile')
      <3>1. Len(Written(remoteFile, m.at, n))
              = IF m.at < Len(remoteFile) THEN Len(remoteFile) ELSE m.at + 1
        BY <1>0, <2>2, WrittenTyped
      <3> QED  BY <1>0, <2>2, <2>n, <3>1
    <2>6. CASE /\ n >= Size /\ toCtl' = toCtl \o <<Progress(m.id, n), Done(m.id, TRUE)>>
               /\ remoteFile' = Written(remoteFile, m.at, n)
      <3> DEFINE a == Progress(m.id, n)
                 b == Done(m.id, TRUE)
      <3>0. /\ toCtl \in Seq(CtlMsg) /\ toCtl' = toCtl \o <<a, b>>
            /\ a \in CtlMsg /\ b \in CtlMsg
        BY <1>0, <2>2, <2>6
      <3> HIDE DEF a, b
      <3>1. \/ Old
            \/ toCtl'[i] = a /\ i = Len(toCtl) + 1 /\ i \notin DOMAIN toCtl
            \/ toCtl'[i] = b /\ i = Len(toCtl') /\ i \notin DOMAIN toCtl
        BY <3>0, SaysTwo
      <3> USE DEF a, b
      <3> QED  BY <2>1, <2>n, <2>4, <2>d, <2>5, <2>6, <3>1 DEF Answer
    <2>7. CASE toCtl' = toCtl \o <<Progress(m.id, n)>>
      <3>1. \/ Old
            \/ toCtl'[i] = Progress(m.id, n) /\ i = Len(toCtl) + 1 /\ i \notin DOMAIN toCtl
        BY <1>0, <2>2, <2>7, SaysOne
      <3> QED  BY <2>1, <2>n, <2>4, <3>1 DEF Answer
    <2> QED  BY <2>3, <2>6, <2>7
  <1>4. CASE HostDownload
    <2> DEFINE off == Least(m.at, Size)
    <2>o. off = Least(m.at, Size)  OBVIOUS
    <2> HIDE DEF off
    <2>1. m = toHost[1] /\ m.type = "download"  BY <1>1, <1>4 DEF HostDownload
    <2>2. /\ off \in Nat /\ m.id \in Transfer
          /\ Progress(m.id, off) \in CtlMsg /\ Done(m.id, FALSE) \in CtlMsg
      BY <1>0, <1>4, <1>m, <2>o, DownloadCases
    <2>3. \/ toCtl' = toCtl \o <<Progress(m.id, off)>>
          \/ toCtl' = toCtl \o <<Done(m.id, FALSE)>>
      BY <1>4, <1>m, <2>o, DownloadCases
    <2>4. Progress(m.id, off).id = m.id /\ Progress(m.id, off).type = "progress"
      BY ProgressFields
    <2>d. Done(m.id, FALSE).id = m.id /\ Done(m.id, FALSE).type = "failed"
      BY EndFields
    <2>5. \/ Old
          \/ toCtl'[i] = Progress(m.id, off) /\ i = Len(toCtl) + 1 /\ i \notin DOMAIN toCtl
          \/ toCtl'[i] = Done(m.id, FALSE) /\ i = Len(toCtl') /\ i \notin DOMAIN toCtl
      BY <1>0, <2>2, <2>3, SaysOne
    <2> QED  BY <2>1, <2>4, <2>d, <2>5 DEF Answer
  <1>5. CASE HostCancel  BY <1>5 DEF HostCancel
  <1> QED  BY <1>2, <1>3, <1>4, <1>5 DEF Host

\* What it sends of a download in its table: at most one chunk, and the end after it.
LEMMA PumpSays ==
  ASSUME Typed, NEW id \in Transfer, HostPump(id), NEW i \in DOMAIN toCtl'
  PROVE  \/ i \in DOMAIN toCtl /\ toCtl'[i] = toCtl[i]
         \/ /\ i \notin DOMAIN toCtl /\ toCtl'[i].id = id
            /\ \/ toCtl'[i].type = "chunk" /\ i = Len(toCtl) + 1
               \/ toCtl'[i].type \in {"ok", "failed"} /\ i = Len(toCtl')
  <1>0. toCtl \in Seq(CtlMsg)  BY TypedFacts
  <1> DEFINE off == downloads[id]
             Old == i \in DOMAIN toCtl /\ toCtl'[i] = toCtl[i]
  <1>o. off = downloads[id]  OBVIOUS
  <1> HIDE DEF off
  <1>1. /\ off \in Nat /\ Chunk(id, off) \in CtlMsg
        /\ Done(id, TRUE) \in CtlMsg /\ Done(id, FALSE) \in CtlMsg
    BY <1>0, <1>o, PumpCases
  <1>2. \/ toCtl' = toCtl \o <<Chunk(id, off), Done(id, TRUE)>>
        \/ toCtl' = toCtl \o <<Chunk(id, off)>>
        \/ toCtl' = toCtl \o <<Done(id, TRUE)>>
        \/ toCtl' = toCtl \o <<Done(id, FALSE)>>
    BY <1>o, PumpCases
  <1>3. Chunk(id, off).id = id /\ Chunk(id, off).type = "chunk"
    BY ChunkFields
  <1>4. /\ Done(id, TRUE).id = id /\ Done(id, TRUE).type = "ok"
        /\ Done(id, FALSE).id = id /\ Done(id, FALSE).type = "failed"
    BY EndFields
  <1>5. \/ Old
        \/ toCtl'[i] = Chunk(id, off) /\ i = Len(toCtl) + 1 /\ i \notin DOMAIN toCtl
        \/ toCtl'[i] = Done(id, TRUE) /\ i = Len(toCtl') /\ i \notin DOMAIN toCtl
        \/ toCtl'[i] = Done(id, FALSE) /\ i = Len(toCtl') /\ i \notin DOMAIN toCtl
    <2>1. CASE toCtl' = toCtl \o <<Chunk(id, off), Done(id, TRUE)>>
      <3>1. \A k \in DOMAIN toCtl' :
              \/ k \in DOMAIN toCtl /\ toCtl'[k] = toCtl[k]
              \/ k \notin DOMAIN toCtl /\ k = Len(toCtl) + 1 /\ toCtl'[k] = Chunk(id, off)
              \/ k \notin DOMAIN toCtl /\ k = Len(toCtl') /\ toCtl'[k] = Done(id, TRUE)
        BY <1>0, <1>1, <2>1, SaysTwo, Zenon
      <3> QED  BY <3>1
    <2>2. ASSUME NEW a \in {Chunk(id, off), Done(id, TRUE), Done(id, FALSE)},
                 toCtl' = toCtl \o <<a>>
          PROVE  \/ Old
                 \/ /\ i \notin DOMAIN toCtl /\ i = Len(toCtl) + 1 /\ i = Len(toCtl')
                    /\ toCtl'[i] = a
      <3>1. a \in CtlMsg  BY <1>1
      <3>2. \A k \in DOMAIN toCtl' :
              \/ k \in DOMAIN toCtl /\ toCtl'[k] = toCtl[k]
              \/ k \notin DOMAIN toCtl /\ k = Len(toCtl) + 1 /\ k = Len(toCtl') /\ toCtl'[k] = a
        BY <1>0, <2>2, <3>1, SaysOne, Zenon
      <3> QED  BY <3>2
    <2> QED  BY <1>2, <2>1, <2>2
  <1> QED  BY <1>3, <1>4, <1>5

\* A step that adds nothing for the controller takes the first message, or cuts the last off.
LEMMA OtherSteps ==
  ASSUME Typed, [FtNext]_ftVars, ~Host, \A id \in Transfer : ~HostPump(id)
  PROVE  \/ /\ Receive
            /\ \A i \in DOMAIN toCtl' :
                 i \in Nat /\ i + 1 \in DOMAIN toCtl /\ i + 1 # 1 /\ toCtl'[i] = toCtl[i + 1]
         \/ /\ SessionEnds
            /\ \A i \in DOMAIN toCtl' : i \in DOMAIN toCtl /\ toCtl'[i] = toCtl[i]
         \/ UNCHANGED toCtl
  <1>0. toCtl \in Seq(CtlMsg)  BY TypedFacts
  <1>1. CASE Receive
    <2>1. toCtl # <<>> /\ toCtl' = Tail(toCtl)  BY <1>1 DEF Receive
    <2> QED  BY <1>0, <1>1, <2>1, ControllerTakes
  <1>2. CASE SessionEnds
    <2>1. PICK n \in 0 .. Len(toCtl) : toCtl' = SubSeq(toCtl, 1, n)  BY <1>2 DEF SessionEnds
    <2> QED  BY <1>0, <1>2, <2>1, KeepsFirst
  <1>3. /\ \A id \in Transfer : FtCommands(id) \/ UploadThread(id) => UNCHANGED toCtl
        /\ Connects \/ UNCHANGED ftVars => UNCHANGED toCtl
    BY DEF FtCommands, FsDownload, FsUpload, FsCancel, UploadThread, ThreadGivesUp, ThreadStarts,
           ThreadChecks, ThreadSends, ThreadOnly, Connects, ftVars, wires
  <1> QED  BY <1>1, <1>2, <1>3 DEF FtNext

\* Where the requests in a queue come from.
LEMMA ToHostFrom ==
  ASSUME Typed, [FtNext]_ftVars, NEW i \in DOMAIN toHost'
  PROVE  \/ \E j \in DOMAIN toHost : toHost'[i] = toHost[j]
         \/ \E id \in Transfer : Request(id, toHost'[i])
  BY OthersSend, HostTakesOne

\* Where the messages for the controller come from.
LEMMA ToCtlFrom ==
  ASSUME Typed, [FtNext]_ftVars, NEW i \in DOMAIN toCtl'
  PROVE  \/ \E j \in DOMAIN toCtl : toCtl'[i] = toCtl[j]
         \/ /\ \E j \in DOMAIN toHost : toCtl'[i].id = toHost[j].id
            /\ toCtl'[i].type \in {"progress", "ok", "failed"}
            /\ toCtl'[i].type = "ok" => Size <= Len(remoteFile')
         \/ /\ toCtl'[i].id \in Transfer /\ downloads[toCtl'[i].id] # Absent
            /\ toCtl'[i].type \in {"chunk", "ok", "failed"}
            /\ HostPump(toCtl'[i].id)
  <1>1. CASE Host
    BY <1>1, HostSays, HostTakesOne DEF Answer
  <1>2. ASSUME NEW id \in Transfer, HostPump(id)
        PROVE  \/ \E j \in DOMAIN toCtl : toCtl'[i] = toCtl[j]
               \/ /\ toCtl'[i].id = id /\ downloads[id] # Absent
                  /\ toCtl'[i].type \in {"chunk", "ok", "failed"}
    <2>1. downloads[id] # Absent  BY <1>2 DEF HostPump
    <2> QED  BY <1>2, <2>1, PumpSays
  <1>3. CASE ~Host /\ \A id \in Transfer : ~HostPump(id)
    BY <1>3, OtherSteps
  <1> QED  BY <1>1, <1>2, <1>3

\* A thread that goes on is an upload's, and stays one; asking for an upload makes one.
LEMMA RolesStay ==
  ASSUME Typed, FreshTables, [FtNext]_ftVars, NEW x \in Transfer
  PROVE  /\ IsUpload(x) => IsUpload(x)'
         /\ IsUpload(x)' => IsUpload(x) \/ FsUpload(x)
  <1>0. thread \in Threads /\ nextId \in Nat /\ Transfer \subseteq Nat
    BY TypedFacts, Constants
  <1>1. ASSUME NEW id \in Transfer, UploadThread(id)
        PROVE  (IsUpload(x) => IsUpload(x)') /\ (IsUpload(x)' => IsUpload(x))
    <2>1. /\ thread[id].pc # "none"
          /\ \/ thread' = [thread EXCEPT ![id].pc = "over"]
             \/ thread' = [thread EXCEPT ![id] = [pc |-> "checking", sent |-> acked[id]]]
             \/ thread' = [thread EXCEPT ![id].pc = "sending"]
             \/ thread' = [thread EXCEPT ![id].pc = "checking", ![id].sent = @ + 1]
      BY <1>1 DEF UploadThread, ThreadGivesUp, ThreadStarts, ThreadChecks, ThreadSends, PhaseGoes
    <2>2. x # id => thread'[x] = thread[x]  BY <1>0, <2>1 DEF Threads
    <2>3. thread'[id].pc # "none"  BY <1>0, <2>1 DEF Threads
    <2> QED  BY <2>1, <2>2, <2>3 DEF IsUpload
  <1>2. ASSUME NEW id \in Transfer, FsUpload(id)
        PROVE  (IsUpload(x) => IsUpload(x)') /\ (IsUpload(x)' => IsUpload(x) \/ FsUpload(x))
    <2>1. x # id => thread'[x] = thread[x]  BY <1>0, <1>2 DEF FsUpload, Threads
    <2>2. thread[id].pc = "none"
      BY <1>0, <1>2 DEF FsUpload, NewId, FreshTables, Untouched
    <2> QED  BY <1>2, <2>1, <2>2 DEF IsUpload
  <1>3. CASE UNCHANGED thread  BY <1>3 DEF IsUpload
  <1>4. \/ \E id \in Transfer : UploadThread(id) \/ FsUpload(id)
        \/ UNCHANGED thread
    BY DEF FtNext, ftVars, FtCommands, FsDownload, FsCancel, HostPump, HostOnly, Receive, Host,
           HostUploadStart, HostChunk, HostDownload, HostCancel, SessionEnds, Connects
  <1> QED  BY <1>1, <1>2, <1>3, <1>4

\* What can come into a table, or change in one.
LEMMA UploadsFrom ==
  ASSUME Typed, [FtNext]_ftVars, NEW x \in Transfer, uploads'[x] # Absent
  PROVE  \/ uploads[x] # Absent
         \/ /\ Host /\ 1 \in DOMAIN toHost
            /\ toHost[1].id = x /\ toHost[1].type = "upload"
  <1>0. uploads \in [Transfer -> 0 .. Size - 1 \cup {Absent}] /\ toHost \in Seq(HostMsg)
    BY TypedFacts
  <1>1. CASE HostUploadStart
    <2> DEFINE m == Head(toHost)
               e == ExistingFile(m)
    <2>1. m = Head(toHost) /\ e = ExistingFile(m)  OBVIOUS
    <2>2. m = toHost[1] /\ 1 \in DOMAIN toHost /\ m.type = "upload"
      BY <1>0, <1>1, HostTakes DEF HostUploadStart
    <2> HIDE DEF m, e
    <2>3. uploads' = uploads \/ uploads' = [uploads EXCEPT ![m.id] = e]
      BY <1>1, <2>1, UploadStartCases
    <2>4. Host  BY <1>1 DEF Host
    <2> QED  BY <1>0, <2>2, <2>3, <2>4
  <1>2. CASE HostChunk
    <2> DEFINE m == Head(toHost)
               n == m.at + 1
    <2>1. m = Head(toHost) /\ n = m.at + 1  OBVIOUS
    <2> HIDE DEF m, n
    <2>2. m.id \in Transfer /\ m.at \in Nat  BY <1>2, <2>1, ChunkCases
    <2>3. \/ uploads' = uploads
          \/ uploads[m.id] = m.at /\ uploads' = [uploads EXCEPT ![m.id] = Entry(n)]
      BY <1>2, <2>1, ChunkCases
    <2>4. m.at # Absent  BY <2>2, Constants
    <2> QED  BY <1>0, <2>2, <2>3, <2>4
  <1>3. CASE HostCancel  BY <1>0, <1>3 DEF HostCancel
  <1> QED  BY <1>1, <1>2, <1>3, UploadTableSteps

LEMMA DownloadsFrom ==
  ASSUME Typed, [FtNext]_ftVars, NEW x \in Transfer, downloads'[x] # Absent
  PROVE  \/ downloads[x] # Absent
         \/ /\ HostDownload /\ 1 \in DOMAIN toHost
            /\ toHost[1].id = x /\ toHost[1].type = "download"
  <1>0. downloads \in [Transfer -> 0 .. Size \cup {Absent}] /\ toHost \in Seq(HostMsg)
    BY TypedFacts
  <1>1. CASE HostDownload
    <2> DEFINE m == Head(toHost)
               off == Least(m.at, Size)
    <2>1. m = Head(toHost) /\ off = Least(m.at, Size)  OBVIOUS
    <2>2. m = toHost[1] /\ 1 \in DOMAIN toHost /\ m.type = "download"
      BY <1>0, <1>1, HostTakes DEF HostDownload
    <2> HIDE DEF m, off
    <2>3. downloads' = downloads \/ downloads' = [downloads EXCEPT ![m.id] = off]
      BY <1>1, <2>1, DownloadCases
    <2> QED  BY <1>0, <1>1, <2>2, <2>3
  <1>2. CASE HostCancel  BY <1>0, <1>2 DEF HostCancel
  <1>3. ASSUME NEW id \in Transfer, HostPump(id) PROVE downloads[x] # Absent
    <2>1. /\ downloads[id] # Absent
          /\ \E v : downloads' = [downloads EXCEPT ![id] = v]
      BY <1>3 DEF HostPump
    <2> QED  BY <1>0, <2>1
  <1>4. CASE downloads' = [id \in Transfer |-> Absent]  BY <1>4
  <1>5. CASE UNCHANGED downloads  BY <1>5
  <1>6. \/ UNCHANGED downloads \/ HostDownload \/ HostCancel
        \/ \E id \in Transfer : HostPump(id)
        \/ downloads' = [id \in Transfer |-> Absent]
    BY DEF FtNext, ftVars, tables, FtCommands, FsDownload, FsUpload, FsCancel,
           UploadThread, ThreadGivesUp, ThreadStarts, ThreadChecks, ThreadSends, ThreadOnly,
           Receive, Host, HostUploadStart, HostChunk, SessionEnds, Connects
  <1> QED  BY <1>1, <1>2, <1>3, <1>4, <1>5, <1>6

\* The tables of the controller.
LEMMA ControllerTablesFrom ==
  ASSUME Typed, [FtNext]_ftVars, NEW x \in Transfer
  PROVE  /\ down'[x] # Absent => down[x] # Absent \/ FsDownload(x)
         /\ \/ down'[x] = down[x] \/ down'[x] = Absent \/ FsDownload(x)
            \/ \E j \in DOMAIN toCtl : toCtl[j].id = x
         /\ \/ acked'[x] = acked[x] \/ FsUpload(x)
            \/ FsCancel(x) /\ acked'[x] = Absent
            \/ /\ Receive /\ 1 \in DOMAIN toCtl /\ toCtl[1].id = x
               /\ toCtl[1].type = "progress" /\ acked'[x] = toCtl[1].at
         /\ \/ told'[x] = told[x]
            \/ /\ Receive /\ 1 \in DOMAIN toCtl /\ toCtl[1].id = x
               /\ toCtl[1].type \in {"ok", "failed"} /\ told'[x] = toCtl[1].type
  <1>0. /\ down \in [Transfer -> Nat \cup {Absent}] /\ toCtl \in Seq(CtlMsg)
        /\ acked \in [Transfer -> Nat \cup {Absent, NoAck}]
        /\ told \in [Transfer -> {"nothing", "ok", "failed"}]
    BY TypedFacts
  <1>1. ASSUME NEW id \in Transfer, FsDownload(id) PROVE down'[x] = down[x] \/ FsDownload(x)
    BY <1>0, <1>1 DEF FsDownload
  <1>2. ASSUME NEW id \in Transfer, FsUpload(id) PROVE acked'[x] = acked[x] \/ FsUpload(x)
    BY <1>0, <1>2 DEF FsUpload
  <1>3. ASSUME NEW id \in Transfer, FsCancel(id)
        PROVE  /\ down'[x] = down[x] \/ down'[x] = Absent
               /\ acked'[x] = acked[x] \/ (FsCancel(x) /\ acked'[x] = Absent)
    BY <1>0, <1>3 DEF FsCancel, Forgets
  <1>4. CASE Receive
    <2> DEFINE m == Head(toCtl)
    <2>1. m = Head(toCtl)  OBVIOUS
    <2>2. m = toCtl[1] /\ 1 \in DOMAIN toCtl /\ m.id \in Transfer
      BY <1>0, <1>4, ControllerTakes DEF Receive
    <2> HIDE DEF m
    <2>3. CASE /\ down[m.id] # Absent /\ down' = [down EXCEPT ![m.id] = @ + 1]
               /\ UNCHANGED <<acked, told>>
      BY <1>0, <2>2, <2>3
    <2>4. CASE UNCHANGED <<down, acked, told>>  BY <2>4
    <2>5. CASE /\ m.type = "progress" /\ acked' = [acked EXCEPT ![m.id] = m.at]
               /\ UNCHANGED <<down, told>>
      BY <1>0, <1>4, <2>2, <2>5
    <2>6. CASE /\ m.type \in {"ok", "failed"} /\ down' = [down EXCEPT ![m.id] = Absent]
               /\ told' = [told EXCEPT ![m.id] = m.type] /\ UNCHANGED acked
      BY <1>0, <1>4, <2>2, <2>6
    <2> QED  BY <1>4, <2>1, <2>3, <2>4, <2>5, <2>6, ReceiveCases
  <1>5. /\ \A id \in Transfer : FsDownload(id) => UNCHANGED <<acked, told>>
        /\ \A id \in Transfer : FsUpload(id) => UNCHANGED <<down, told>>
        /\ \A id \in Transfer : FsCancel(id) => UNCHANGED told
    BY DEF FsDownload, FsUpload, FsCancel
  <1>6. \/ \E id \in Transfer : FtCommands(id)
        \/ Receive \/ UNCHANGED <<down, acked, told>>
    BY DEF FtNext, ftVars, tables, UploadThread, ThreadGivesUp, ThreadStarts, ThreadChecks,
           ThreadSends, ThreadOnly, HostPump, HostOnly, Host, HostUploadStart, HostChunk,
           HostDownload, HostCancel, SessionEnds, Connects
  <1> QED  BY <1>1, <1>2, <1>3, <1>4, <1>5, <1>6 DEF FtCommands

\* Numbers are given out in order.
LEMMA NumbersGrow ==
  ASSUME Typed, [FtNext]_ftVars
  PROVE  /\ nextId' \in Nat /\ nextId \in Nat /\ nextId <= nextId'
         /\ \A id \in Transfer : FsDownload(id) \/ FsUpload(id) => id = nextId + 1 /\ id = nextId'
  <1>0. nextId \in Nat /\ Transfer \subseteq Nat  BY TypedFacts, Constants
  <1>1. /\ \A id \in Transfer : FsDownload(id) \/ FsUpload(id) => id = nextId + 1 /\ nextId' = id
        /\ \A id \in Transfer : FsCancel(id) \/ UploadThread(id) \/ HostPump(id)
                                => UNCHANGED nextId
        /\ Host \/ Receive \/ SessionEnds \/ Connects \/ UNCHANGED ftVars => UNCHANGED nextId
    BY DEF FsDownload, FsUpload, NewId, FsCancel, UploadThread, ThreadGivesUp, ThreadStarts,
           ThreadChecks, ThreadSends, ThreadOnly, HostPump, HostOnly, Host, HostUploadStart,
           HostChunk, HostDownload, HostCancel, Receive, SessionEnds, Connects, ftVars
  <1>2. UNCHANGED nextId \/ \E id \in Transfer : id = nextId + 1 /\ nextId' = id
    BY <1>1 DEF FtNext, FtCommands
  <1> QED  BY <1>0, <1>1, <1>2

LEMMA IdsStep == Typed /\ Ids /\ [FtNext]_ftVars => Ids'
  <1> SUFFICES ASSUME Typed, Ids, [FtNext]_ftVars PROVE Ids'
    OBVIOUS
  <1> DEFINE Up(x) == thread'[x].pc # "none"
  <1>u. \A x \in Transfer : /\ IsUpload(x) => Up(x)
                            /\ Up(x) => IsUpload(x) \/ FsUpload(x)
    BY RolesStay DEF Ids, IsUpload
  <1>d. ASSUME NEW id \in Transfer, FsDownload(id) PROVE ~Up(id)
    <2>1. FreshTables /\ UNCHANGED thread  BY <1>d DEF Ids, FsDownload
    <2>2. id > nextId  BY <1>d, NumbersGrow
    <2> QED  BY <2>1, <2>2 DEF FreshTables, Untouched
  <1> HIDE DEF Up
  <1>0. /\ FreshTables /\ KnownIds /\ MessagesHaveRoles /\ TablesHaveRoles
        /\ nextId \in Nat /\ nextId' \in Nat /\ nextId <= nextId' /\ Transfer \subseteq Nat
    BY NumbersGrow, Constants DEF Ids
  <1>1. FreshTables'
    <2> SUFFICES ASSUME NEW x \in Transfer, x > nextId' PROVE Untouched(x)'
      BY DEF FreshTables
    <2>1. x > nextId /\ Untouched(x)  BY <1>0 DEF FreshTables
    <2>2. /\ \A j \in DOMAIN toHost : toHost[j].id # x
          /\ \A j \in DOMAIN toCtl : toCtl[j].id # x
      <3>1. \A j \in DOMAIN toHost : toHost[j].id \in Nat /\ toHost[j].id <= nextId
        BY <1>0, QueuedTyped DEF KnownIds
      <3>2. \A j \in DOMAIN toCtl : toCtl[j].id \in Nat /\ toCtl[j].id <= nextId
        BY <1>0, QueuedTyped DEF KnownIds
      <3> QED  BY <1>0, <2>1, <3>1, <3>2
    <2>3. ~FsDownload(x) /\ ~FsUpload(x)  BY <1>0, NumbersGrow
    <2>4. ~FsCancel(x)  BY <1>0, <2>1 DEF FsCancel
    <2>5. uploads'[x] = Absent  BY <2>1, <2>2, UploadsFrom DEF Untouched
    <2>6. downloads'[x] = Absent  BY <2>1, <2>2, DownloadsFrom DEF Untouched
    <2>7. down'[x] = Absent /\ acked'[x] = Absent /\ told'[x] = "nothing"
      BY <2>1, <2>2, <2>3, <2>4, ControllerTablesFrom DEF Untouched
    <2>8. thread'[x].pc = "none"
      BY <1>u, <2>1, <2>3 DEF Untouched, IsUpload, Up
    <2> QED  BY <2>5, <2>6, <2>7, <2>8 DEF Untouched
  <1>2. KnownIds'
    <2>1. ASSUME NEW i \in DOMAIN toHost' PROVE toHost'[i].id <= nextId'
      <3>1. ASSUME NEW j \in DOMAIN toHost, toHost'[i] = toHost[j]
            PROVE  toHost'[i].id <= nextId'
        <4>1. toHost[j].id \in Nat /\ toHost[j].id <= nextId
          BY <1>0, QueuedTyped DEF KnownIds
        <4> QED  BY <1>0, <3>1, <4>1
      <3>2. ASSUME NEW id \in Transfer,
                   FsDownload(id) \/ FsUpload(id) \/ FsCancel(id) \/ ThreadSends(id)
            PROVE  id <= nextId'
        <4>1. CASE FsDownload(id) \/ FsUpload(id)  BY <1>0, <4>1, NumbersGrow
        <4>2. CASE FsCancel(id)  BY <1>0, <4>2 DEF FsCancel
        <4>3. CASE ThreadSends(id)
          <5>1. thread[id].pc # "none"  BY <4>3 DEF ThreadSends
          <5>2. ~(id > nextId)  BY <1>0, <5>1 DEF FreshTables, Untouched
          <5> QED  BY <1>0, <5>2
        <4> QED  BY <3>2, <4>1, <4>2, <4>3
      <3> QED  BY <3>1, <3>2, ToHostFrom DEF Request
    <2>2. ASSUME NEW i \in DOMAIN toCtl' PROVE toCtl'[i].id <= nextId'
      <3>1. ASSUME NEW j \in DOMAIN toCtl, toCtl'[i] = toCtl[j] PROVE toCtl'[i].id <= nextId'
        <4>1. toCtl[j].id \in Nat /\ toCtl[j].id <= nextId
          BY <1>0, QueuedTyped DEF KnownIds
        <4> QED  BY <1>0, <3>1, <4>1
      <3>2. ASSUME NEW j \in DOMAIN toHost, toCtl'[i].id = toHost[j].id
            PROVE  toCtl'[i].id <= nextId'
        <4>1. toHost[j].id \in Nat /\ toHost[j].id <= nextId
          BY <1>0, QueuedTyped DEF KnownIds
        <4> QED  BY <1>0, <3>2, <4>1
      <3>3. ASSUME toCtl'[i].id \in Transfer, downloads[toCtl'[i].id] # Absent
            PROVE  toCtl'[i].id <= nextId'
        <4> DEFINE x == toCtl'[i].id
        <4>1. x \in Transfer /\ downloads[x] # Absent  BY <3>3
        <4> HIDE DEF x
        <4>2. ~(x > nextId)  BY <1>0, <4>1 DEF FreshTables, Untouched
        <4>3. x <= nextId'  BY <1>0, <4>1, <4>2
        <4> QED  BY <4>3 DEF x
      <3> QED  BY <3>1, <3>2, <3>3, ToCtlFrom
    <2> QED  BY <2>1, <2>2 DEF KnownIds
  <1>3. ASSUME NEW x \in Transfer, x <= nextId
        PROVE  (IsUpload(x) => Up(x)) /\ (Up(x) => IsUpload(x))
    BY <1>0, <1>3, <1>u, NumbersGrow
  <1>4. MessagesHaveRoles'
    <2>1. ASSUME NEW i \in DOMAIN toHost'
          PROVE  /\ toHost'[i].type \in {"upload", "chunk"} => Up(toHost'[i].id)
                 /\ toHost'[i].type = "download" => ~Up(toHost'[i].id)
      <3>1. ASSUME NEW j \in DOMAIN toHost, toHost'[i] = toHost[j]
            PROVE  /\ toHost'[i].type \in {"upload", "chunk"} => Up(toHost'[i].id)
                   /\ toHost'[i].type = "download" => ~Up(toHost'[i].id)
        <4> DEFINE x == toHost[j].id
        <4>1. x \in Transfer /\ x <= nextId /\ toHost'[i].id = x /\ toHost'[i].type = toHost[j].type
          BY <1>0, <3>1, QueuedTyped DEF KnownIds
        <4>2. /\ toHost[j].type \in {"upload", "chunk"} => IsUpload(x)
              /\ toHost[j].type = "download" => ~IsUpload(x)
          BY <1>0 DEF MessagesHaveRoles
        <4> HIDE DEF x
        <4>3. (IsUpload(x) => Up(x)) /\ (Up(x) => IsUpload(x))  BY <1>3, <4>1
        <4> QED  BY <4>1, <4>2, <4>3
      <3>2. ASSUME NEW id \in Transfer, FsDownload(id) PROVE ~Up(id)
        BY <1>d, <3>2
      <3>3. ASSUME NEW id \in Transfer, FsUpload(id), link = "live" PROVE Up(id)
        BY <3>3, TypedFacts DEF FsUpload, Up, Threads
      <3>4. ASSUME NEW id \in Transfer, thread[id].pc = "sending" PROVE Up(id)
        BY <1>0, <3>4, <1>u DEF IsUpload
      <3> QED  BY <3>1, <3>2, <3>3, <3>4, ToHostFrom DEF Request
    <2>2. ASSUME NEW i \in DOMAIN toCtl', toCtl'[i].type = "chunk"
          PROVE  ~Up(toCtl'[i].id)
      <3>1. ASSUME NEW j \in DOMAIN toCtl, toCtl'[i] = toCtl[j] PROVE ~Up(toCtl'[i].id)
        <4> DEFINE x == toCtl[j].id
        <4>1. x \in Transfer /\ x <= nextId /\ toCtl'[i].id = x /\ toCtl[j].type = "chunk"
          BY <1>0, <2>2, <3>1, QueuedTyped DEF KnownIds
        <4>2. ~IsUpload(x)  BY <1>0, <4>1 DEF MessagesHaveRoles
        <4> HIDE DEF x
        <4> QED  BY <1>3, <4>1, <4>2
      <3>2. ASSUME toCtl'[i].id \in Transfer, downloads[toCtl'[i].id] # Absent
            PROVE  ~Up(toCtl'[i].id)
        <4> DEFINE x == toCtl'[i].id
        <4>1. x \in Transfer /\ downloads[x] # Absent /\ ~IsUpload(x)
          BY <1>0, <3>2 DEF TablesHaveRoles
        <4>2. ~(x > nextId)  BY <1>0, <4>1 DEF FreshTables, Untouched
        <4> HIDE DEF x
        <4>3. x <= nextId  BY <1>0, <4>1, <4>2
        <4>4. ~Up(x)  BY <1>3, <4>1, <4>3
        <4> QED  BY <4>4 DEF x
      <3> QED  BY <2>2, <3>1, <3>2, ToCtlFrom
    <2> QED  BY <2>1, <2>2 DEF MessagesHaveRoles, IsUpload, Up
  <1>5. TablesHaveRoles'
    <2> SUFFICES ASSUME NEW x \in Transfer
                 PROVE  /\ uploads'[x] # Absent => Up(x)
                        /\ downloads'[x] # Absent => ~Up(x)
                        /\ down'[x] # Absent => ~Up(x)
      BY DEF TablesHaveRoles, IsUpload, Up
    <2>1. ASSUME uploads'[x] # Absent PROVE Up(x)
      <3>1. IsUpload(x)
        BY <1>0, <2>1, UploadsFrom DEF TablesHaveRoles, MessagesHaveRoles
      <3> QED  BY <1>0, <3>1, <1>u
    <2>2. ASSUME downloads'[x] # Absent PROVE ~Up(x)
      <3>1. ~IsUpload(x)
        BY <1>0, <2>2, DownloadsFrom DEF TablesHaveRoles, MessagesHaveRoles
      <3>2. ~(x > nextId)
        <4>1. downloads[x] # Absent => ~(x > nextId)  BY <1>0 DEF FreshTables, Untouched
        <4>2. (\E j \in DOMAIN toHost : toHost[j].id = x) => ~(x > nextId)
          BY <1>0 DEF KnownIds
        <4> QED  BY <2>2, <4>1, <4>2, DownloadsFrom
      <3>3. ~FsUpload(x)  BY <1>0, <3>2, NumbersGrow
      <3> QED  BY <1>0, <3>1, <3>3, <1>u
    <2>3. ASSUME down'[x] # Absent PROVE ~Up(x)
      <3>1. CASE FsDownload(x)
        BY <1>d, <3>1
      <3>2. CASE down[x] # Absent
        <4>1. ~IsUpload(x) /\ ~(x > nextId)
          BY <1>0, <3>2 DEF TablesHaveRoles, FreshTables, Untouched
        <4>2. ~FsUpload(x)  BY <1>0, <4>1, NumbersGrow
        <4> QED  BY <1>0, <4>1, <4>2, <1>u
      <3> QED  BY <2>3, <3>1, <3>2, ControllerTablesFrom
    <2> QED  BY <2>1, <2>2, <2>3
  <1> QED  BY <1>1, <1>2, <1>4, <1>5 DEF Ids

LEMMA IdsInit == FtInit => Ids
  <1> SUFFICES ASSUME FtInit PROVE Ids
    OBVIOUS
  <1>1. /\ toHost = <<>> /\ toCtl = <<>> /\ DOMAIN toHost = {} /\ DOMAIN toCtl = {}
        /\ \A id \in Transfer : /\ down[id] = Absent /\ acked[id] = Absent /\ thread[id] = Idle
                                /\ told[id] = "nothing" /\ uploads[id] = Absent
                                /\ downloads[id] = Absent
    BY DEF FtInit
  <1>2. Idle.pc = "none"  BY DEF Idle
  <1> QED
    BY <1>1, <1>2
    DEF Ids, FreshTables, Untouched, KnownIds, MessagesHaveRoles, TablesHaveRoles, IsUpload

\* A transfer that exists keeps its role.
LEMMA KnownRoles ==
  ASSUME Typed, Ids, [FtNext]_ftVars, NEW x \in Transfer, ~(x > nextId)
  PROVE  /\ IsUpload(x) => thread'[x].pc # "none"
         /\ thread'[x].pc # "none" => IsUpload(x)
         /\ ~FsUpload(x) /\ ~FsDownload(x)
  <1>1. x \in Nat /\ nextId \in Nat  BY TypedFacts, Constants
  <1>2. ~FsUpload(x) /\ ~FsDownload(x)  BY <1>1, NumbersGrow
  <1>3. /\ IsUpload(x) => IsUpload(x)'
        /\ IsUpload(x)' => IsUpload(x) \/ FsUpload(x)
    BY RolesStay DEF Ids
  <1> QED  BY <1>2, <1>3 DEF IsUpload

\* What is on its way, or in a table, belongs to a transfer that exists.
LEMMA InUse ==
  ASSUME Typed, Ids
  PROVE  /\ \A i \in DOMAIN toHost : toHost[i].id \in Transfer /\ ~(toHost[i].id > nextId)
         /\ \A i \in DOMAIN toCtl : toCtl[i].id \in Transfer /\ ~(toCtl[i].id > nextId)
         /\ \A x \in Transfer :
              thread[x].pc # "none" \/ downloads[x] # Absent \/ told[x] # "nothing"
                \/ down[x] # Absent => ~(x > nextId)
  <1>1. \A n \in Nat : n <= nextId => ~(n > nextId)  BY TypedFacts
  <1> QED  BY <1>1, QueuedTyped, Constants DEF Ids, KnownIds, FreshTables, Untouched

\* The file that uploads write to never gets shorter.
LEMMA RemoteGrows ==
  ASSUME Typed, [FtNext]_ftVars
  PROVE  Len(remoteFile) \in Nat /\ Len(remoteFile') \in Nat /\ Len(remoteFile) <= Len(remoteFile')
  <1>0. remoteFile \in Seq(Nat) /\ Len(remoteFile) \in Nat  BY TypedFacts
  <1>1. CASE UNCHANGED remoteFile  BY <1>0, <1>1
  <1>2. CASE HostChunk
    <2> DEFINE m == Head(toHost)
               n == m.at + 1
    <2>1. m = Head(toHost) /\ n = m.at + 1  OBVIOUS
    <2> HIDE DEF m, n
    <2>2. m.at \in Nat /\ n \in Nat  BY <1>2, <2>1, ChunkCases
    <2>3. UNCHANGED remoteFile \/ remoteFile' = Written(remoteFile, m.at, n)
      BY <1>2, <2>1, ChunkCases
    <2>4. CASE remoteFile' = Written(remoteFile, m.at, n)
      <3>1. Len(remoteFile') = IF m.at < Len(remoteFile) THEN Len(remoteFile) ELSE m.at + 1
        BY <1>0, <2>2, <2>4, WrittenTyped
      <3> QED  BY <1>0, <2>2, <3>1
    <2> QED  BY <1>1, <2>3, <2>4
  <1> QED  BY <1>1, <1>2, UploadTableSteps DEF HostUploadStart

-----------------------------------------------------------------------------
\* An upload's success is said, and believed, when the file on the host has all its chunks.
UploadsComplete ==
  /\ \A i \in DOMAIN toCtl :
       toCtl[i].type = "ok" /\ IsUpload(toCtl[i].id) => Size <= Len(remoteFile)
  /\ \A id \in Transfer : told[id] = "ok" /\ IsUpload(id) => Size <= Len(remoteFile)

LEMMA UploadsCompleteStep ==
  Typed /\ Ids /\ UploadsComplete /\ [FtNext]_ftVars => UploadsComplete'
  <1> SUFFICES ASSUME Typed, Ids, UploadsComplete, [FtNext]_ftVars PROVE UploadsComplete'
    OBVIOUS
  <1>1. Size <= Len(remoteFile) => Size <= Len(remoteFile')
    BY RemoteGrows, Constants
  <1>2. ASSUME NEW i \in DOMAIN toCtl', toCtl'[i].type = "ok", thread'[toCtl'[i].id].pc # "none"
        PROVE  Size <= Len(remoteFile')
    <2>1. ASSUME NEW j \in DOMAIN toCtl, toCtl'[i] = toCtl[j] PROVE Size <= Len(remoteFile')
      <3> DEFINE x == toCtl[j].id
      <3>1. x \in Transfer /\ ~(x > nextId)  BY InUse
      <3>2. thread'[x].pc # "none" /\ toCtl[j].type = "ok"  BY <1>2, <2>1
      <3> HIDE DEF x
      <3>3. IsUpload(x)  BY <3>1, <3>2, KnownRoles
      <3> QED  BY <1>1, <3>2, <3>3 DEF UploadsComplete, x
    <2>2. ~(/\ toCtl'[i].id \in Transfer /\ downloads[toCtl'[i].id] # Absent
            /\ HostPump(toCtl'[i].id))
      <3> SUFFICES ASSUME NEW x \in Transfer, x = toCtl'[i].id, downloads[x] # Absent,
                          HostPump(x)
                   PROVE  FALSE
        OBVIOUS
      <3>1. ~IsUpload(x)  BY DEF Ids, TablesHaveRoles
      <3>2. UNCHANGED thread  BY DEF HostPump, HostOnly
      <3> QED  BY <1>2, <3>1, <3>2 DEF IsUpload
    <2> QED  BY <1>2, <2>1, <2>2, ToCtlFrom
  <1>3. ASSUME NEW x \in Transfer, told'[x] = "ok", thread'[x].pc # "none"
        PROVE  Size <= Len(remoteFile')
    <2>1. \/ told[x] = "ok"
          \/ 1 \in DOMAIN toCtl /\ toCtl[1].id = x /\ toCtl[1].type = "ok"
      BY <1>3, ControllerTablesFrom
    <2>2. ~(x > nextId)
      <3>1. CASE told[x] = "ok"  BY <3>1, InUse
      <3>2. CASE 1 \in DOMAIN toCtl /\ toCtl[1].id = x  BY <3>2, InUse
      <3> QED  BY <2>1, <3>1, <3>2
    <2>3. IsUpload(x)  BY <1>3, <2>2, KnownRoles
    <2> QED  BY <1>1, <2>1, <2>3 DEF UploadsComplete
  <1> QED  BY <1>2, <1>3 DEF UploadsComplete, IsUpload

-----------------------------------------------------------------------------
(***************************************************************************)
(* What a sender waits for.  A request that starts a transfer is the first *)
(* thing on its way of it, in both directions; while an upload waits there *)
(* is at most one acknowledgement on its way; its chunks are in order and  *)
(* in the window; and no acknowledgement is ahead of a chunk that the host *)
(* has not taken yet.                                                      *)
(***************************************************************************)
Starting(id) == thread[id].pc \in {"checking", "sending"}

NotStarted(i) ==
  LET id == toHost[i].id IN
    /\ \A j \in DOMAIN toHost : j # i /\ toHost[j].id = id => toHost[j].type = "cancel"
    /\ \A j \in DOMAIN toCtl : toCtl[j].id # id
    /\ downloads[id] = Absent /\ acked[id] \in {Absent, NoAck} /\ ~Starting(id)
    /\ toHost[i].type = "download" => down[id] = Absent \/ down[id] = toHost[i].at

StartsFirst ==
  \A i \in DOMAIN toHost : toHost[i].type \in {"upload", "download"} => NotStarted(i)

OneAckBefore ==
  \A i \in DOMAIN toCtl :
    toCtl[i].type = "progress" /\ thread[toCtl[i].id].pc = "waiting" =>
      /\ acked[toCtl[i].id] \in {Absent, NoAck}
      /\ \A j \in DOMAIN toCtl :
           toCtl[j].id = toCtl[i].id /\ toCtl[j].type = "progress" => j = i

ChunksInWindow ==
  \A i \in DOMAIN toHost : toHost[i].type = "chunk" =>
    LET t == thread[toHost[i].id] IN
      /\ t.pc # "waiting" /\ toHost[i].at < t.sent /\ toHost[i].at + Window + 1 >= t.sent
      /\ t.pc = "sending" => toHost[i].at + Window >= t.sent

ChunksInOrder ==
  \A i, j \in DOMAIN toHost :
    toHost[i].type = "chunk" /\ toHost[j].type = "chunk" /\ toHost[i].id = toHost[j].id
      /\ i < j => toHost[i].at < toHost[j].at

AcksBehind ==
  \A id \in Transfer : Starting(id) =>
    /\ acked[id] # NoAck /\ acked[id] <= thread[id].sent
    /\ \A j \in DOMAIN toHost :
         toHost[j].type = "chunk" /\ toHost[j].id = id => acked[id] <= toHost[j].at

ProgressBehind ==
  \A i \in DOMAIN toCtl : toCtl[i].type = "progress" /\ Starting(toCtl[i].id) =>
    /\ toCtl[i].at <= thread[toCtl[i].id].sent
    /\ \A j \in DOMAIN toHost :
         toHost[j].type = "chunk" /\ toHost[j].id = toCtl[i].id => toCtl[i].at <= toHost[j].at

Flight ==
  StartsFirst /\ OneAckBefore /\ ChunksInWindow /\ ChunksInOrder /\ AcksBehind /\ ProgressBehind

\* What becomes of a thread.
LEMMA ThreadsFrom ==
  ASSUME Typed, [FtNext]_ftVars, NEW x \in Transfer
  PROVE  /\ thread[x].sent \in Nat /\ thread'[x].sent \in Nat
         /\ \/ thread'[x] = thread[x]
            \/ FsUpload(x)
            \/ ThreadGivesUp(x) /\ thread'[x].pc = "over" /\ thread'[x].sent = thread[x].sent
            \/ /\ ThreadStarts(x) /\ acked[x] \in Nat /\ acked[x] \in 0 .. Size - 1
               /\ thread[x].pc = "waiting" /\ thread'[x].pc = "checking"
               /\ thread'[x].sent = acked[x]
            \/ /\ ThreadChecks(x) /\ thread[x].pc = "checking" /\ thread'[x].pc = "sending"
               /\ thread'[x].sent = thread[x].sent
               /\ acked[x] # Absent /\ thread[x].sent - acked[x] <= Window
            \/ /\ ThreadSends(x) /\ thread[x].pc = "sending"
               /\ \/ thread'[x].pc = "over" /\ thread'[x].sent = thread[x].sent
                  \/ thread'[x].pc = "checking" /\ thread'[x].sent = thread[x].sent + 1
  <1>0. thread \in Threads /\ thread' \in Threads
    BY TypedStep, TypedFacts DEF Typed, FtTypeOK, Threads
  <1>1. thread[x].sent \in Nat /\ thread'[x].sent \in Nat  BY <1>0 DEF Threads
  <1>2. ASSUME NEW id \in Transfer, UploadThread(id), id # x PROVE thread'[x] = thread[x]
    BY <1>0, <1>2
    DEF Threads, UploadThread, ThreadGivesUp, ThreadStarts, ThreadChecks, ThreadSends, PhaseGoes
  <1>3. ASSUME NEW id \in Transfer, FsUpload(id), id # x PROVE thread'[x] = thread[x]
    BY <1>0, <1>3 DEF Threads, FsUpload
  <1>4. CASE ThreadGivesUp(x)
    BY <1>0, <1>1, <1>4 DEF ThreadGivesUp, PhaseGoes, Threads
  <1>5. CASE ThreadStarts(x)
    <2>1. acked[x] \in 0 .. Size - 1 /\ thread[x].pc = "waiting"
      BY <1>5 DEF ThreadStarts
    <2>2. acked[x] \in Nat  BY <2>1, Constants
    <2>3. thread'[x] = [pc |-> "checking", sent |-> acked[x]]
      BY <1>0, <1>5 DEF ThreadStarts, Threads
    <2> QED  BY <1>1, <1>5, <2>1, <2>2, <2>3
  <1>6. CASE ThreadChecks(x)
    BY <1>0, <1>1, <1>6 DEF ThreadChecks, PhaseGoes, InWindow, Threads
  <1>7. CASE ThreadSends(x)
    <2>1. /\ thread[x].pc = "sending"
          /\ \/ thread' = [thread EXCEPT ![x].pc = "checking", ![x].sent = @ + 1]
             \/ thread' = [thread EXCEPT ![x].pc = "over"]
      BY <1>7 DEF ThreadSends, PhaseGoes
    <2>2. CASE thread' = [thread EXCEPT ![x].pc = "over"]
      BY <1>0, <1>1, <1>7, <2>1, <2>2 DEF Threads
    <2>3. CASE thread' = [thread EXCEPT ![x].pc = "checking", ![x].sent = @ + 1]
      BY <1>0, <1>1, <1>7, <2>1, <2>3 DEF Threads
    <2> QED  BY <2>1, <2>2, <2>3
  <1>8. \/ \E id \in Transfer : UploadThread(id) \/ FsUpload(id)
        \/ UNCHANGED thread
    BY DEF FtNext, ftVars, FtCommands, FsDownload, FsCancel, HostPump, HostOnly, Receive, Host,
           HostUploadStart, HostChunk, HostDownload, HostCancel, SessionEnds, Connects
  <1> QED
    BY <1>1, <1>2, <1>3, <1>4, <1>5, <1>6, <1>7, <1>8 DEF UploadThread

\* Types, numbers and roles as the steps below need them.
LEMMA FlightFacts ==
  ASSUME Typed, Ids, NEW x \in Transfer
  PROVE  /\ thread[x].sent \in Nat /\ Window \in Nat /\ nextId \in Nat /\ x \in Nat
         /\ acked[x] \in Nat \/ acked[x] = -1 \/ acked[x] = -2
         /\ Absent = -1 /\ NoAck = -2
         /\ thread[x].pc = "none" => ~IsUpload(x)
         /\ thread[x].pc # "none" => IsUpload(x) /\ ~(x > nextId)
  <1>1. /\ thread \in Threads /\ acked \in [Transfer -> Nat \cup {Absent, NoAck}]
        /\ Window \in Nat /\ nextId \in Nat
    BY TypedFacts
  <1>2. thread[x].sent \in Nat  BY <1>1 DEF Threads
  <1>3. x \in Nat /\ Absent = -1 /\ NoAck = -2  BY Constants
  <1>4. acked[x] \in Nat \/ acked[x] = Absent \/ acked[x] = NoAck  BY <1>1
  <1>5. thread[x].pc # "none" => ~(x > nextId)  BY InUse
  <1> QED  BY <1>1, <1>2, <1>3, <1>4, <1>5 DEF IsUpload

\* Who asks for a transfer that is new.
LEMMA NewTransfer ==
  ASSUME Typed, Ids, [FtNext]_ftVars, NEW x \in Transfer, FsDownload(x) \/ FsUpload(x)
  PROVE  /\ Untouched(x) /\ ~Host
         /\ \A i \in DOMAIN toHost : toHost[i].id # x
         /\ \A i \in DOMAIN toCtl : toCtl[i].id # x
         /\ toCtl' = toCtl /\ downloads' = downloads
         /\ acked'[x] = Absent \/ acked'[x] = NoAck
         /\ thread'[x].pc = "none" \/ thread'[x].pc = "waiting"
  <1>1. x > nextId  BY NumbersGrow
  <1>2. Untouched(x)  BY <1>1 DEF Ids, FreshTables
  <1>3. /\ \A i \in DOMAIN toHost : toHost[i].id # x
        /\ \A i \in DOMAIN toCtl : toCtl[i].id # x
    BY <1>1, InUse
  <1>4. ~Host
    <2>1. Host => UNCHANGED nextId  BY HostTakesOne
    <2>2. nextId' # nextId  BY NumbersGrow
    <2> QED  BY <2>1, <2>2
  <1>5. /\ toCtl' = toCtl /\ downloads' = downloads
        /\ acked'[x] = Absent \/ acked'[x] = NoAck
        /\ thread'[x].pc = "none" \/ thread'[x].pc = "waiting"
    <2>0. thread \in Threads /\ acked \in [Transfer -> Nat \cup {Absent, NoAck}]
      BY TypedFacts
    <2>1. CASE FsDownload(x)  BY <1>2, <2>1 DEF FsDownload, Untouched
    <2>2. CASE FsUpload(x)  BY <2>0, <2>2 DEF FsUpload, Threads
    <2> QED  BY <2>1, <2>2
  <1> QED  BY <1>2, <1>3, <1>4, <1>5

LEMMA StartsFirstStep ==
  ASSUME Typed, Ids, StartsFirst, [FtNext]_ftVars
  PROVE  StartsFirst'
  <1> SUFFICES ASSUME NEW i \in DOMAIN toHost', toHost'[i].type \in {"upload", "download"},
                      NEW x, x = toHost'[i].id
               PROVE  /\ \A j \in DOMAIN toHost' :
                           j # i /\ toHost'[j].id = x => toHost'[j].type = "cancel"
                      /\ \A j \in DOMAIN toCtl' : toCtl'[j].id # x
                      /\ downloads'[x] = Absent /\ acked'[x] \in {Absent, NoAck}
                      /\ ~(thread'[x].pc \in {"checking", "sending"})
                      /\ toHost'[i].type = "download"
                           => down'[x] = Absent \/ down'[x] = toHost'[i].at
    BY DEF StartsFirst, NotStarted, Starting
  <1>1. CASE Host
    <2> DEFINE k == i + 1
    <2>1. k \in DOMAIN toHost /\ toHost'[i] = toHost[k] /\ k # 1  BY <1>1, HostTakesOne
    <2>2. NotStarted(k) /\ x = toHost[k].id /\ x \in Transfer
      BY <2>1, QueuedTyped DEF StartsFirst
    <2>3. ASSUME NEW j \in DOMAIN toHost', j # i, toHost'[j].id = x
          PROVE  toHost'[j].type = "cancel"
      <3>1. j + 1 \in DOMAIN toHost /\ toHost'[j] = toHost[j + 1] /\ j + 1 # k
        BY <1>1, <2>3, HostTakesOne
      <3> QED  BY <2>2, <2>3, <3>1 DEF NotStarted
    <2>4. 1 \in DOMAIN toHost /\ (toHost[1].id = x => toHost[1].type = "cancel")
      BY <1>1, <2>1, <2>2, HostTakesOne DEF NotStarted
    <2>5. ASSUME NEW j \in DOMAIN toCtl' PROVE toCtl'[j].id # x
      BY <1>1, <2>2, <2>4, HostSays DEF NotStarted, Answer
    <2>6. downloads'[x] = Absent  BY <2>2, <2>4, DownloadsFrom DEF NotStarted
    <2>7. acked' = acked /\ thread' = thread /\ down' = down  BY <1>1, HostTakesOne
    <2> QED  BY <2>1, <2>2, <2>3, <2>5, <2>6, <2>7 DEF NotStarted, Starting
  <1>2. CASE ~Host /\ i \in DOMAIN toHost /\ toHost'[i] = toHost[i]
    <2>1. NotStarted(i) /\ x = toHost[i].id /\ x \in Transfer /\ ~(x > nextId)
      BY <1>2, InUse DEF StartsFirst
    <2>2. ~FsUpload(x) /\ ~FsDownload(x)  BY <2>1, KnownRoles
    <2>3. ASSUME NEW j \in DOMAIN toHost', j # i, toHost'[j].id = x
          PROVE  toHost'[j].type = "cancel"
      <3>1. CASE j \in DOMAIN toHost /\ toHost'[j] = toHost[j]
        BY <2>1, <2>3, <3>1 DEF NotStarted
      <3>2. ASSUME NEW y \in Transfer, Request(y, toHost'[j]) PROVE toHost'[j].type = "cancel"
        <4>1. y = x  BY <2>3, <3>2 DEF Request
        <4> QED  BY <2>1, <2>2, <3>2, <4>1 DEF Request, NotStarted, Starting
      <3> QED  BY <1>2, <3>1, <3>2, OthersSend
    <2>4. ASSUME NEW j \in DOMAIN toCtl' PROVE toCtl'[j].id # x
      <3>1. ASSUME NEW y \in Transfer, HostPump(y) PROVE toCtl'[j].id # x
        <4>1. y # x  BY <2>1, <3>1 DEF HostPump, NotStarted
        <4> QED  BY <2>1, <3>1, <4>1, PumpSays DEF NotStarted
      <3>2. CASE \A y \in Transfer : ~HostPump(y)
        BY <1>2, <2>1, <3>2, OtherSteps DEF NotStarted
      <3> QED  BY <3>1, <3>2
    <2>5. downloads'[x] = Absent
      BY <1>2, <2>1, DownloadsFrom DEF NotStarted, Host
    <2>6. acked'[x] \in {Absent, NoAck}
      BY <2>1, <2>2, ControllerTablesFrom DEF NotStarted
    <2>7. ~(thread'[x].pc \in {"checking", "sending"})
      <3>1. acked[x] \notin Nat  BY <2>1, Constants DEF NotStarted
      <3> QED  BY <2>1, <2>2, <3>1, ThreadsFrom DEF NotStarted, Starting
    <2>8. toHost'[i].type = "download" => down'[x] = Absent \/ down'[x] = toHost'[i].at
      BY <1>2, <2>1, <2>2, ControllerTablesFrom DEF NotStarted
    <2> QED  BY <2>3, <2>4, <2>5, <2>6, <2>7, <2>8
  <1>3. CASE /\ ~Host /\ i = Len(toHost) + 1
             /\ \E y \in Transfer : Request(y, toHost'[i])
    <2>1. PICK y \in Transfer : Request(y, toHost'[i])  BY <1>3
    <2>2. x = y /\ (FsDownload(x) \/ FsUpload(x))  BY <2>1 DEF Request
    <2>3. /\ Untouched(x)
          /\ \A j \in DOMAIN toHost : toHost[j].id # x
          /\ \A j \in DOMAIN toCtl : toCtl[j].id # x
          /\ toCtl' = toCtl /\ downloads' = downloads
          /\ acked'[x] = Absent \/ acked'[x] = NoAck
          /\ thread'[x].pc = "none" \/ thread'[x].pc = "waiting"
      BY <2>2, NewTransfer
    <2>4. ASSUME NEW j \in DOMAIN toHost', j # i PROVE toHost'[j].id # x
      BY <1>3, <2>3, <2>4, OthersSend
    <2>5. toHost'[i].type = "download" => down'[x] = toHost'[i].at
      <3>1. down \in [Transfer -> Nat \cup {Absent}]  BY TypedFacts
      <3>2. toHost'[i].type = "download" => FsDownload(x) /\ toHost'[i].at = Len(localFile)
        BY <2>1, <2>2 DEF Request
      <3> QED  BY <2>2, <3>1, <3>2 DEF FsDownload
    <2> QED  BY <2>3, <2>4, <2>5 DEF Untouched
  <1> QED  BY <1>1, <1>2, <1>3, OthersSend

\* While an upload waits, the host takes nothing of it but its start.
LEMMA WaitingTakes ==
  ASSUME Typed, Ids, StartsFirst, ChunksInWindow, Host, NEW i \in DOMAIN toCtl', i \notin DOMAIN toCtl,
         thread[toCtl'[i].id].pc = "waiting"
  PROVE  /\ Answer(i, toHost[1]) /\ toHost[1].type = "upload"
         /\ \A j \in DOMAIN toCtl : toCtl[j].id # toCtl'[i].id
         /\ acked[toCtl'[i].id] \in {Absent, NoAck}
  <1>1. Answer(i, toHost[1]) /\ 1 \in DOMAIN toHost  BY HostSays, HostTakesOne
  <1>2. toCtl'[i].id = toHost[1].id /\ toHost[1].type # "cancel"  BY <1>1 DEF Answer
  <1>3. toHost[1].type # "chunk"  BY <1>1, <1>2 DEF ChunksInWindow
  <1>4. toHost[1].type # "download"
    BY <1>1, <1>2 DEF Ids, MessagesHaveRoles, IsUpload
  <1>5. toHost[1].type = "upload"  BY <1>1, <1>2, <1>3, <1>4, QueuedTyped
  <1>6. NotStarted(1)  BY <1>1, <1>5 DEF StartsFirst
  <1> QED  BY <1>1, <1>2, <1>5, <1>6 DEF NotStarted

LEMMA OneAckStep ==
  ASSUME Typed, Ids, Flight, [FtNext]_ftVars
  PROVE  OneAckBefore'
  <1> SUFFICES ASSUME NEW i \in DOMAIN toCtl', toCtl'[i].type = "progress",
                      NEW x, x = toCtl'[i].id, thread'[x].pc = "waiting"
               PROVE  /\ acked'[x] \in {Absent, NoAck}
                      /\ \A j \in DOMAIN toCtl' :
                           toCtl'[j].id = x /\ toCtl'[j].type = "progress" => j = i
    BY DEF OneAckBefore
  <1>0. StartsFirst /\ OneAckBefore /\ ChunksInWindow  BY DEF Flight
  <1>1. x \in Transfer
    <2>1. toCtl'[i] \in CtlMsg
      <3>1. toCtl' \in Seq(CtlMsg)  BY TypedStep DEF Typed, FtTypeOK, CtlMsg
      <3> QED  BY <3>1, ElementOfSeq, LenProperties
    <2> QED  BY <2>1 DEF CtlMsg
  <1>2. ~FsUpload(x)
    <2> SUFFICES ASSUME FsUpload(x) PROVE FALSE
      OBVIOUS
    <2> QED  BY <1>1, NewTransfer
  <1>3. thread[x].pc = "waiting"  BY <1>1, <1>2, ThreadsFrom
  <1>4. CASE Host
    <2>1. acked' = acked  BY <1>4, HostTakesOne
    <2>2. CASE i \in DOMAIN toCtl /\ toCtl'[i] = toCtl[i]
      <3>1. /\ acked[x] \in {Absent, NoAck}
            /\ \A j \in DOMAIN toCtl : toCtl[j].id = x /\ toCtl[j].type = "progress" => j = i
        BY <1>0, <1>3, <2>2 DEF OneAckBefore
      <3>2. ASSUME NEW j \in DOMAIN toCtl', toCtl'[j].id = x, j \notin DOMAIN toCtl PROVE FALSE
        BY <1>0, <1>3, <1>4, <2>2, <3>2, WaitingTakes
      <3>3. \A j \in DOMAIN toCtl' : \/ j \in DOMAIN toCtl /\ toCtl'[j] = toCtl[j]
                                     \/ j \notin DOMAIN toCtl
        BY <1>4, HostSays DEF Answer
      <3> QED  BY <2>1, <3>1, <3>2, <3>3
    <2>3. CASE i \notin DOMAIN toCtl
      <3>1. /\ Answer(i, toHost[1]) /\ acked[x] \in {Absent, NoAck}
            /\ \A j \in DOMAIN toCtl : toCtl[j].id # x
        BY <1>0, <1>3, <1>4, <2>3, WaitingTakes
      <3>2. i = Len(toCtl) + 1  BY <3>1 DEF Answer
      <3>3. ASSUME NEW j \in DOMAIN toCtl', toCtl'[j].id = x, toCtl'[j].type = "progress"
            PROVE  j = i
        BY <1>4, <3>1, <3>2, <3>3, HostSays DEF Answer
      <3> QED  BY <2>1, <3>1, <3>3
    <2> QED  BY <1>4, <2>2, <2>3, HostSays DEF Answer
  <1>5. ASSUME NEW y \in Transfer, HostPump(y)
        PROVE  /\ acked'[x] \in {Absent, NoAck}
               /\ \A j \in DOMAIN toCtl' :
                    toCtl'[j].id = x /\ toCtl'[j].type = "progress" => j = i
    <2>1. acked' = acked  BY <1>5 DEF HostPump, HostOnly
    <2>2. \A j \in DOMAIN toCtl' : toCtl'[j].type = "progress" =>
            j \in DOMAIN toCtl /\ toCtl'[j] = toCtl[j]
      BY <1>5, PumpSays
    <2> QED  BY <1>0, <1>3, <2>1, <2>2 DEF OneAckBefore
  <1>6. CASE ~Host /\ \A y \in Transfer : ~HostPump(y)
    <2>1. CASE Receive /\ \A j \in DOMAIN toCtl' :
                 j \in Nat /\ j + 1 \in DOMAIN toCtl /\ j + 1 # 1 /\ toCtl'[j] = toCtl[j + 1]
      <3>1. /\ acked[x] \in {Absent, NoAck}
            /\ \A j \in DOMAIN toCtl : toCtl[j].id = x /\ toCtl[j].type = "progress" => j = i + 1
        BY <1>0, <1>3, <2>1 DEF OneAckBefore
      <3>2. acked'[x] \in {Absent, NoAck}
        BY <1>1, <1>2, <2>1, <3>1, ControllerTablesFrom
      <3>3. ASSUME NEW j \in DOMAIN toCtl', toCtl'[j].id = x, toCtl'[j].type = "progress"
            PROVE  j = i
        <4>1. j + 1 = i + 1 /\ i \in Nat /\ j \in Nat  BY <2>1, <3>1, <3>3
        <4> QED  BY <4>1
      <3> QED  BY <3>2, <3>3
    <2>2. CASE ~Receive /\ \A j \in DOMAIN toCtl' : j \in DOMAIN toCtl /\ toCtl'[j] = toCtl[j]
      <3>1. /\ acked[x] \in {Absent, NoAck}
            /\ \A j \in DOMAIN toCtl : toCtl[j].id = x /\ toCtl[j].type = "progress" => j = i
        BY <1>0, <1>3, <2>2 DEF OneAckBefore
      <3>2. acked'[x] \in {Absent, NoAck}
        BY <1>1, <1>2, <2>2, <3>1, ControllerTablesFrom
      <3> QED  BY <2>2, <3>1, <3>2
    <2>3. UNCHANGED toCtl => \A j \in DOMAIN toCtl' : j \in DOMAIN toCtl /\ toCtl'[j] = toCtl[j]
      OBVIOUS
    <2>4. Receive => \A j \in DOMAIN toCtl' :
                 j \in Nat /\ j + 1 \in DOMAIN toCtl /\ j + 1 # 1 /\ toCtl'[j] = toCtl[j + 1]
      <3>1. toCtl \in Seq(CtlMsg)  BY TypedFacts
      <3> QED  BY <3>1, ControllerTakes DEF Receive
    <2> QED  BY <1>6, <2>1, <2>2, <2>3, <2>4, OtherSteps
  <1> QED  BY <1>4, <1>5, <1>6

\* A chunk that is sent is the next of its upload.
LEMMA NextChunk ==
  ASSUME Typed, Ids, NEW i \in DOMAIN toHost', NEW x \in Transfer, Request(x, toHost'[i]),
         toHost'[i].type = "chunk"
  PROVE  /\ toHost'[i].id = x /\ toHost'[i].at = thread[x].sent /\ thread[x].sent \in Nat
         /\ thread[x].pc = "sending" /\ thread'[x].pc = "checking"
         /\ thread'[x].sent = thread[x].sent + 1
         /\ UNCHANGED <<toCtl, acked>>
  <1>0. thread \in Threads  BY TypedFacts
  <1>1. /\ toHost'[i].id = x /\ toHost'[i].at = thread[x].sent /\ thread[x].pc = "sending"
        /\ thread' = [thread EXCEPT ![x].pc = "checking", ![x].sent = @ + 1]
        /\ ThreadSends(x)
    BY DEF Request
  <1>2. thread[x].sent \in Nat  BY <1>0 DEF Threads
  <1>3. thread'[x].pc = "checking" /\ thread'[x].sent = thread[x].sent + 1
    BY <1>0, <1>1, <1>2 DEF Threads
  <1> QED  BY <1>1, <1>2, <1>3 DEF ThreadSends, ThreadOnly, tables

LEMMA InWindowStep ==
  ASSUME Typed, Ids, Flight, [FtNext]_ftVars
  PROVE  ChunksInWindow'
  <1> SUFFICES ASSUME NEW i \in DOMAIN toHost', toHost'[i].type = "chunk",
                      NEW x, x = toHost'[i].id
               PROVE  /\ thread'[x].pc # "waiting" /\ toHost'[i].at < thread'[x].sent
                      /\ toHost'[i].at + Window + 1 >= thread'[x].sent
                      /\ thread'[x].pc = "sending" => toHost'[i].at + Window >= thread'[x].sent
    BY DEF ChunksInWindow
  <1>0. ChunksInWindow /\ AcksBehind  BY DEF Flight
  <1>1. CASE Host
    <2>1. /\ i + 1 \in DOMAIN toHost /\ toHost'[i] = toHost[i + 1] /\ thread' = thread
      BY <1>1, HostTakesOne
    <2> QED  BY <1>0, <2>1 DEF ChunksInWindow
  <1>2. CASE ~Host /\ i \in DOMAIN toHost /\ toHost'[i] = toHost[i]
    <2> DEFINE at == toHost[i].at
    <2>1. x = toHost[i].id /\ x \in Transfer /\ ~(x > nextId) /\ at \in Nat /\ toHost'[i].at = at
      BY <1>2, InUse, QueuedTyped
    <2>2. /\ thread[x].pc # "waiting" /\ at < thread[x].sent /\ at + Window + 1 >= thread[x].sent
          /\ thread[x].pc = "sending" => at + Window >= thread[x].sent
      BY <1>0, <1>2, <2>1 DEF ChunksInWindow
    <2>3. thread[x].pc = "checking" => acked[x] # NoAck /\ acked[x] <= at
      BY <1>0, <1>2, <2>1 DEF AcksBehind, Starting
    <2>4. ~FsUpload(x)  BY <2>1, KnownRoles
    <2>5. /\ thread[x].sent \in Nat /\ Window \in Nat /\ Absent = -1 /\ NoAck = -2
          /\ acked[x] \in Nat \/ acked[x] = -1 \/ acked[x] = -2
      BY <2>1, FlightFacts
    <2> HIDE DEF at
    <2>6. CASE thread'[x] = thread[x]  BY <2>1, <2>2, <2>6
    <2>7. CASE thread'[x].pc = "over" /\ thread'[x].sent = thread[x].sent
      BY <2>1, <2>2, <2>7
    <2>8. CASE /\ thread[x].pc = "checking" /\ thread'[x].pc = "sending"
               /\ thread'[x].sent = thread[x].sent
               /\ acked[x] # Absent /\ thread[x].sent - acked[x] <= Window
      <3>1. acked[x] \in Nat /\ acked[x] <= at  BY <2>3, <2>5, <2>8
      <3>2. at + Window >= thread[x].sent  BY <2>1, <2>5, <2>8, <3>1
      <3> QED  BY <2>1, <2>2, <2>5, <2>8, <3>2
    <2>9. CASE /\ thread[x].pc = "sending" /\ thread'[x].pc = "checking"
               /\ thread'[x].sent = thread[x].sent + 1
      BY <2>1, <2>2, <2>5, <2>9
    <2> QED  BY <2>1, <2>2, <2>4, <2>6, <2>7, <2>8, <2>9, ThreadsFrom
  <1>3. CASE ~Host /\ \E y \in Transfer : Request(y, toHost'[i])
    <2>1. PICK y \in Transfer : Request(y, toHost'[i])  BY <1>3
    <2>2. /\ y = x /\ toHost'[i].at = thread[y].sent /\ thread[y].sent \in Nat
          /\ thread'[y].pc = "checking" /\ thread'[y].sent = thread[y].sent + 1
      BY <2>1, NextChunk
    <2>3. Window \in Nat  BY Constants
    <2> QED  BY <2>2, <2>3
  <1> QED  BY <1>1, <1>2, <1>3, OthersSend

LEMMA InOrderStep ==
  ASSUME Typed, Ids, Flight, [FtNext]_ftVars
  PROVE  ChunksInOrder'
  <1> SUFFICES ASSUME NEW i \in DOMAIN toHost', NEW j \in DOMAIN toHost',
                      toHost'[i].type = "chunk", toHost'[j].type = "chunk",
                      toHost'[i].id = toHost'[j].id, i < j
               PROVE  toHost'[i].at < toHost'[j].at
    BY DEF ChunksInOrder
  <1>0. ChunksInWindow /\ ChunksInOrder  BY DEF Flight
  <1>1. CASE Host
    <2>1. /\ i \in Nat /\ i + 1 \in DOMAIN toHost /\ toHost'[i] = toHost[i + 1]
          /\ j \in Nat /\ j + 1 \in DOMAIN toHost /\ toHost'[j] = toHost[j + 1]
      BY <1>1, HostTakesOne
    <2>2. i + 1 < j + 1  BY <2>1
    <2> QED  BY <1>0, <2>1, <2>2 DEF ChunksInOrder
  <1>2. CASE /\ ~Host /\ i \in DOMAIN toHost /\ toHost'[i] = toHost[i]
             /\ j \in DOMAIN toHost /\ toHost'[j] = toHost[j]
    BY <1>0, <1>2 DEF ChunksInOrder
  <1>3. CASE /\ ~Host /\ i \in DOMAIN toHost /\ toHost'[i] = toHost[i]
             /\ \E y \in Transfer : Request(y, toHost'[j])
    <2>1. PICK y \in Transfer : Request(y, toHost'[j])  BY <1>3
    <2>2. y = toHost'[j].id /\ toHost'[j].at = thread[y].sent  BY <2>1, NextChunk
    <2>3. toHost[i].at < thread[y].sent  BY <1>0, <1>3, <2>2 DEF ChunksInWindow
    <2> QED  BY <1>3, <2>2, <2>3
  <1>4. CASE ~Host /\ i = Len(toHost) + 1
    <2>1. toHost \in Seq(HostMsg)  BY TypedFacts
    <2>2. Len(toHost) \in Nat /\ DOMAIN toHost = 1 .. Len(toHost)  BY <2>1, LenProperties
    <2>3. j \in DOMAIN toHost \/ j = Len(toHost) + 1  BY <1>4, OthersSend
    <2> QED  BY <1>4, <2>2, <2>3
  <1> QED  BY <1>1, <1>2, <1>3, <1>4, OthersSend

\* What the controller takes for acknowledged is behind what is sent and on its way.
LEMMA AckedBehind ==
  ASSUME Typed, Ids, Flight, [FtNext]_ftVars, NEW x \in Transfer, Starting(x)
  PROVE  /\ acked'[x] # NoAck /\ acked'[x] <= thread[x].sent
         /\ \A j \in DOMAIN toHost :
              toHost[j].type = "chunk" /\ toHost[j].id = x => acked'[x] <= toHost[j].at
  <1>0. AcksBehind /\ ProgressBehind  BY DEF Flight
  <1>1. ~(x > nextId) /\ Absent = -1 /\ NoAck = -2 /\ thread[x].sent \in Nat
    BY FlightFacts DEF Starting
  <1>2. ~FsUpload(x)  BY <1>1, KnownRoles
  <1>3. CASE acked'[x] = acked[x]  BY <1>0, <1>3 DEF AcksBehind
  <1>4. CASE acked'[x] = Absent
    <2>1. \A j \in DOMAIN toHost : toHost[j].at \in Nat  BY QueuedTyped
    <2> QED  BY <1>1, <1>4, <2>1
  <1>5. CASE /\ 1 \in DOMAIN toCtl /\ toCtl[1].id = x /\ toCtl[1].type = "progress"
             /\ acked'[x] = toCtl[1].at
    <2>1. toCtl[1].at \in Nat  BY <1>5, QueuedTyped
    <2> QED  BY <1>0, <1>1, <1>5, <2>1 DEF ProgressBehind
  <1> QED  BY <1>2, <1>3, <1>4, <1>5, ControllerTablesFrom

\* An upload starts with nothing of it on its way, and goes on from what it has sent.
LEMMA StartingFrom ==
  ASSUME Typed, Ids, Flight, [FtNext]_ftVars, NEW x \in Transfer,
         thread'[x].pc \in {"checking", "sending"}
  PROVE  /\ thread[x].sent \in Nat /\ thread'[x].sent \in Nat
         /\ \/ Starting(x) /\ thread[x].sent <= thread'[x].sent
            \/ /\ UNCHANGED <<toHost, toCtl, acked>> /\ acked[x] \in Nat
               /\ thread'[x].sent = acked[x]
               /\ \A i \in DOMAIN toHost : toHost[i].type = "chunk" => toHost[i].id # x
               /\ \A i \in DOMAIN toCtl : toCtl[i].type = "progress" => toCtl[i].id # x
  <1>0. thread[x].sent \in Nat /\ thread'[x].sent \in Nat  BY ThreadsFrom
  <1>1. ~FsUpload(x)  BY NewTransfer
  <1>2. CASE /\ ThreadStarts(x) /\ acked[x] \in Nat
             /\ thread[x].pc = "waiting" /\ thread'[x].sent = acked[x]
    <2>1. UNCHANGED <<toHost, toCtl, acked>>  BY <1>2 DEF ThreadStarts, ThreadOnly, tables
    <2>2. acked[x] \notin {Absent, NoAck}  BY <1>2, Constants
    <2>3. \A i \in DOMAIN toHost : toHost[i].type = "chunk" => toHost[i].id # x
      BY <1>2 DEF Flight, ChunksInWindow
    <2>4. \A i \in DOMAIN toCtl : toCtl[i].type = "progress" => toCtl[i].id # x
      BY <1>2, <2>2 DEF Flight, OneAckBefore
    <2> QED  BY <1>0, <1>2, <2>1, <2>3, <2>4
  <1>3. CASE Starting(x) /\ (thread'[x].sent = thread[x].sent
                             \/ thread'[x].sent = thread[x].sent + 1)
    BY <1>0, <1>3
  <1> QED  BY <1>0, <1>1, <1>2, <1>3, ThreadsFrom DEF Starting

LEMMA AcksBehindStep ==
  ASSUME Typed, Ids, Flight, [FtNext]_ftVars
  PROVE  AcksBehind'
  <1> SUFFICES ASSUME NEW x \in Transfer, thread'[x].pc \in {"checking", "sending"}
               PROVE  /\ acked'[x] # NoAck /\ acked'[x] <= thread'[x].sent
                      /\ \A j \in DOMAIN toHost' : toHost'[j].type = "chunk" /\ toHost'[j].id = x
                                                     => acked'[x] <= toHost'[j].at
    BY DEF AcksBehind, Starting
  <1>0. thread[x].sent \in Nat /\ thread'[x].sent \in Nat  BY StartingFrom
  <1>1. CASE Starting(x) /\ thread[x].sent <= thread'[x].sent
    <2>1. /\ acked'[x] # NoAck /\ acked'[x] <= thread[x].sent
          /\ \A j \in DOMAIN toHost :
               toHost[j].type = "chunk" /\ toHost[j].id = x => acked'[x] <= toHost[j].at
      BY <1>1, AckedBehind
    <2>2. acked'[x] \in Int
      <3>1. acked' \in [Transfer -> Nat \cup {Absent, NoAck}]
        BY TypedStep DEF Typed, FtTypeOK
      <3> QED  BY <3>1, Constants
    <2>3. ASSUME NEW j \in DOMAIN toHost', toHost'[j].type = "chunk", toHost'[j].id = x
          PROVE  acked'[x] <= toHost'[j].at
      <3>1. ASSUME NEW k \in DOMAIN toHost, toHost'[j] = toHost[k]
            PROVE  acked'[x] <= toHost'[j].at
        BY <2>1, <2>3, <3>1
      <3>2. ASSUME NEW y \in Transfer, Request(y, toHost'[j])
            PROVE  acked'[x] <= toHost'[j].at
        BY <2>1, <2>3, <3>2, NextChunk
      <3> QED  BY <3>1, <3>2, ToHostFrom
    <2> QED  BY <1>0, <1>1, <2>1, <2>2, <2>3
  <1>2. CASE /\ UNCHANGED <<toHost, acked>> /\ acked[x] \in Nat
             /\ thread'[x].sent = acked[x]
             /\ \A i \in DOMAIN toHost : toHost[i].type = "chunk" => toHost[i].id # x
    BY <1>2, Constants
  <1> QED  BY <1>1, <1>2, StartingFrom

LEMMA ProgressBehindStep ==
  ASSUME Typed, Ids, Flight, [FtNext]_ftVars
  PROVE  ProgressBehind'
  <1> SUFFICES ASSUME NEW i \in DOMAIN toCtl', toCtl'[i].type = "progress",
                      NEW x, x = toCtl'[i].id, thread'[x].pc \in {"checking", "sending"}
               PROVE  /\ toCtl'[i].at <= thread'[x].sent
                      /\ \A j \in DOMAIN toHost' : toHost'[j].type = "chunk" /\ toHost'[j].id = x
                                                     => toCtl'[i].at <= toHost'[j].at
    BY DEF ProgressBehind, Starting
  <1>0. StartsFirst /\ ChunksInWindow /\ ChunksInOrder /\ ProgressBehind  BY DEF Flight
  <1>1. x \in Transfer /\ toCtl'[i].at \in Nat
    <2>1. toCtl'[i] \in CtlMsg
      <3>1. toCtl' \in Seq(CtlMsg)  BY TypedStep DEF Typed, FtTypeOK, CtlMsg
      <3> QED  BY <3>1, ElementOfSeq, LenProperties
    <2> QED  BY <2>1 DEF CtlMsg
  <1>2. thread[x].sent \in Nat /\ thread'[x].sent \in Nat  BY <1>1, StartingFrom
  <1>3. ASSUME NEW k \in DOMAIN toCtl, toCtl'[i] = toCtl[k]
        PROVE  /\ toCtl'[i].at <= thread'[x].sent
               /\ \A j \in DOMAIN toHost' : toHost'[j].type = "chunk" /\ toHost'[j].id = x
                                              => toCtl'[i].at <= toHost'[j].at
    <2>1. Starting(x) /\ thread[x].sent <= thread'[x].sent  BY <1>1, <1>3, StartingFrom
    <2>2. /\ toCtl'[i].at <= thread[x].sent
          /\ \A j \in DOMAIN toHost :
               toHost[j].type = "chunk" /\ toHost[j].id = x => toCtl'[i].at <= toHost[j].at
      BY <1>0, <1>3, <2>1 DEF ProgressBehind
    <2>3. ASSUME NEW j \in DOMAIN toHost', toHost'[j].type = "chunk", toHost'[j].id = x
          PROVE  toCtl'[i].at <= toHost'[j].at
      <3>1. ASSUME NEW l \in DOMAIN toHost, toHost'[j] = toHost[l]
            PROVE  toCtl'[i].at <= toHost'[j].at
        BY <2>2, <2>3, <3>1
      <3>2. ASSUME NEW y \in Transfer, Request(y, toHost'[j])
            PROVE  toCtl'[i].at <= toHost'[j].at
        BY <2>2, <2>3, <3>2, NextChunk
      <3> QED  BY <3>1, <3>2, ToHostFrom
    <2> QED  BY <1>1, <1>2, <2>1, <2>2, <2>3
  <1>4. CASE Host /\ Answer(i, toHost[1])
    <2>0. /\ 1 \in DOMAIN toHost /\ thread' = thread /\ toHost[1].at \in Nat
          /\ toHost[1].id = x /\ toHost[1].type # "cancel" /\ Starting(x)
      BY <1>4, HostTakesOne DEF Answer, Starting
    <2>1. toHost[1].type = "chunk"
      <3>1. toHost[1].type # "upload"  BY <1>0, <2>0 DEF StartsFirst, NotStarted
      <3>2. toHost[1].type # "download"
        BY <2>0 DEF Ids, MessagesHaveRoles, IsUpload, Starting
      <3> QED  BY <2>0, <3>1, <3>2, QueuedTyped
    <2>2. toCtl'[i].at = toHost[1].at + 1  BY <1>4, <2>1 DEF Answer
    <2>3. toHost[1].at < thread[x].sent  BY <1>0, <2>0, <2>1 DEF ChunksInWindow
    <2>4. ASSUME NEW j \in DOMAIN toHost', toHost'[j].type = "chunk", toHost'[j].id = x
          PROVE  toCtl'[i].at <= toHost'[j].at
      <3>1. /\ j \in Nat /\ j + 1 \in DOMAIN toHost /\ j + 1 # 1 /\ toHost'[j] = toHost[j + 1]
            /\ toHost[j + 1].at \in Nat
        BY <1>4, HostTakesOne, QueuedTyped
      <3>2. 1 < j + 1  BY <3>1
      <3>3. toHost[1].at < toHost[j + 1].at
        BY <1>0, <2>0, <2>1, <2>4, <3>1, <3>2 DEF ChunksInOrder
      <3> QED  BY <2>0, <2>2, <3>1, <3>3
    <2>5. toCtl'[i].at <= thread'[x].sent  BY <1>2, <2>0, <2>2, <2>3
    <2> QED  BY <2>4, <2>5
  <1>5. ASSUME NEW y \in Transfer, HostPump(y) PROVE \E k \in DOMAIN toCtl : toCtl'[i] = toCtl[k]
    BY <1>5, PumpSays
  <1>6. CASE ~Host /\ \A y \in Transfer : ~HostPump(y)
    <2>1. \E k \in DOMAIN toCtl : toCtl'[i] = toCtl[k]  BY <1>6, OtherSteps
    <2> QED  BY <1>3, <2>1
  <1> QED  BY <1>3, <1>4, <1>5, <1>6, HostSays

LEMMA FlightStep ==
  Typed /\ Ids /\ Flight /\ [FtNext]_ftVars => Flight'
  <1>1. Flight => StartsFirst  BY DEF Flight
  <1> QED
    BY <1>1, StartsFirstStep, OneAckStep, InWindowStep, InOrderStep, AcksBehindStep,
       ProgressBehindStep
    DEF Flight

LEMMA FlightInit == FtInit => Flight
  <1> SUFFICES ASSUME FtInit PROVE Flight
    OBVIOUS
  <1>1. DOMAIN toHost = {} /\ DOMAIN toCtl = {}  BY DEF FtInit
  <1>2. \A id \in Transfer : ~Starting(id)  BY DEF FtInit, Idle, Starting
  <1> QED
    BY <1>1, <1>2
    DEF Flight, StartsFirst, OneAckBefore, ChunksInWindow, ChunksInOrder, AcksBehind,
        ProgressBehind

\* Chunks that are in order and in the window are no more than the window holds.
LEMMA WindowHolds == Typed /\ ChunksInWindow /\ ChunksInOrder => InFlightBounded
  <1> SUFFICES ASSUME Typed, ChunksInWindow, ChunksInOrder, NEW id \in Transfer
               PROVE  Cardinality({i \in DOMAIN toHost :
                                     toHost[i].type = "chunk" /\ toHost[i].id = id})
                        <= Window + 1
    BY DEF InFlightBounded
  <1> DEFINE S == {i \in DOMAIN toHost : toHost[i].type = "chunk" /\ toHost[i].id = id}
             n == thread[id].sent
             T == n - Window - 1 .. n - 1
             f == [i \in S |-> toHost[i].at]
  <1>0. n \in Nat /\ Window \in Nat
    <2>1. thread \in Threads /\ Window \in Nat  BY TypedFacts
    <2> QED  BY <2>1 DEF Threads
  <1>1. \A i \in S : i \in Nat /\ toHost[i].at \in Nat
    <2>1. toHost \in Seq(HostMsg)  BY TypedFacts
    <2>2. DOMAIN toHost = 1 .. Len(toHost) /\ Len(toHost) \in Nat  BY <2>1, LenProperties
    <2> QED  BY <2>2, QueuedTyped
  <1>2. \A i \in S : toHost[i].at < n /\ toHost[i].at + Window + 1 >= n
    BY DEF ChunksInWindow
  <1>3. \A i, j \in S : i < j => toHost[i].at < toHost[j].at  BY DEF ChunksInOrder
  <1>4. f \in [S -> T]
    <2> SUFFICES ASSUME NEW i \in S PROVE toHost[i].at \in T
      OBVIOUS
    <2>1. toHost[i].at \in Nat /\ toHost[i].at < n /\ toHost[i].at + Window + 1 >= n
      BY <1>1, <1>2
    <2> HIDE DEF n
    <2> QED  BY <1>0, <2>1
  <1>5. \A i, j \in S : f[i] = f[j] => i = j
    <2> SUFFICES ASSUME NEW i \in S, NEW j \in S, toHost[i].at = toHost[j].at PROVE i = j
      OBVIOUS
    <2>1. /\ i \in Nat /\ j \in Nat /\ toHost[i].at \in Nat
          /\ i < j => toHost[i].at < toHost[j].at
          /\ j < i => toHost[j].at < toHost[i].at
      BY <1>1, <1>3
    <2> QED  BY <2>1
  <1> HIDE DEF n, S, f
  <1>6. IsFiniteSet(T) /\ Cardinality(T) = Window + 1
    <2>1. n - Window - 1 \in Int /\ n - 1 \in Int  BY <1>0
    <2>2. /\ IsFiniteSet(T)
          /\ Cardinality(T) = IF n - Window - 1 > n - 1 THEN 0
                              ELSE (n - 1) - (n - Window - 1) + 1
      BY <2>1, FS_Interval
    <2> HIDE DEF T
    <2> QED  BY <1>0, <2>2
  <1> HIDE DEF T
  <1>7. IsInjective(f)  BY <1>4, <1>5 DEF IsInjective
  <1>8. f \in Injection(S, T)  BY <1>4, <1>7 DEF Injection
  <1>9. IsFiniteSet(S) /\ Cardinality(S) <= Cardinality(T)  BY <1>6, <1>8, FS_Injection
  <1> QED  BY <1>6, <1>9 DEF S

(***************************************************************************)
(* An upload never has more than Window + 1 chunks before the host         *)
(* (InFlightBounded): the sender looks at the last acknowledgement before  *)
(* each chunk, and one on its way never runs ahead of a chunk that is      *)
(* still before the host, however late it comes and whatever is cancelled, *)
(* fails, or outlives its session.                                         *)
(***************************************************************************)
THEOREM UploadsStayInWindow == FtSpec => []InFlightBounded
  <1> DEFINE Inv == Typed /\ Ids /\ Flight
  <1>1. FtInit => Inv  BY TypedInit, IdsInit, FlightInit
  <1>2. Inv /\ [FtNext]_ftVars => Inv'  BY TypedStep, IdsStep, FlightStep
  <1>3. Inv => InFlightBounded  BY WindowHolds DEF Flight
  <1> HIDE DEF Inv
  <1> QED  BY <1>1, <1>2, <1>3, PTL DEF FtSpec

-----------------------------------------------------------------------------
(***************************************************************************)
(* What a queue carries of the download x: its chunks follow one another   *)
(* from c on, the next one is d, and its success comes after all of them.  *)
(***************************************************************************)
ChunkOf(m, x) == m.type = "chunk" /\ m.id = x

SuccessOf(m, x) == m.type = "ok" /\ m.id = x

Stream(q, x, f) ==
  \A i \in DOMAIN q :
    \/ ChunkOf(q[i], x) /\ q[i].at = f[i - 1] /\ f[i] = f[i - 1] + 1
    \/ ~ChunkOf(q[i], x) /\ f[i] = f[i - 1] /\ (SuccessOf(q[i], x) => Size <= f[i - 1])

Carries(q, x, c, d) ==
  \E f \in [0 .. Len(q) -> Nat] : Stream(q, x, f) /\ f[0] = c /\ f[Len(q)] = d

\* A queue with nothing of the download carries it nowhere.
LEMMA CarriesNothing ==
  ASSUME NEW q \in Seq(CtlMsg), NEW x, NEW c \in Nat,
         \A i \in DOMAIN q : ~ChunkOf(q[i], x) /\ ~SuccessOf(q[i], x)
  PROVE  Carries(q, x, c, c)
  <1> DEFINE f == [k \in 0 .. Len(q) |-> c]
  <1>1. Len(q) \in Nat /\ DOMAIN q = 1 .. Len(q)  BY LenProperties
  <1>2. f \in [0 .. Len(q) -> Nat]  OBVIOUS
  <1>3. f[0] = c /\ f[Len(q)] = c  BY <1>1
  <1>4. \A i \in DOMAIN q : f[i] = c /\ f[i - 1] = c  BY <1>1
  <1> HIDE DEF f
  <1>5. Stream(q, x, f)  BY <1>4 DEF Stream
  <1> QED  BY <1>2, <1>3, <1>5 DEF Carries

\* What one more message does to it.
LEMMA CarriesMore ==
  ASSUME NEW q \in Seq(CtlMsg), NEW x, NEW c \in Nat, NEW d \in Nat, NEW a \in CtlMsg,
         Carries(q, x, c, d)
  PROVE  /\ ChunkOf(a, x) /\ a.at = d => Carries(Append(q, a), x, c, d + 1)
         /\ ~ChunkOf(a, x) /\ (SuccessOf(a, x) => Size <= d) => Carries(Append(q, a), x, c, d)
  <1> DEFINE r == Append(q, a)
             n == Len(q)
  <1>1. PICK f \in [0 .. n -> Nat] : Stream(q, x, f) /\ f[0] = c /\ f[n] = d
    BY DEF Carries
  <1>2. /\ n \in Nat /\ Len(r) = n + 1 /\ DOMAIN q = 1 .. n /\ DOMAIN r = 1 .. n + 1
        /\ \A i \in DOMAIN r : (i \in DOMAIN q /\ r[i] = q[i]) \/ (i = n + 1 /\ r[i] = a)
    BY AddsLast
  <1> HIDE DEF r, n
  <1>3. ASSUME NEW e \in Nat,
               \/ ChunkOf(a, x) /\ a.at = d /\ e = d + 1
               \/ ~ChunkOf(a, x) /\ e = d /\ (SuccessOf(a, x) => Size <= d)
        PROVE  Carries(r, x, c, e)
    <2> DEFINE g == [k \in 0 .. n + 1 |-> IF k = n + 1 THEN e ELSE f[k]]
    <2>1. g \in [0 .. n + 1 -> Nat]  BY <1>2
    <2>2. /\ g[0] = c /\ g[n + 1] = e /\ g[n] = d
          /\ \A k \in 0 .. n : g[k] = f[k]
      BY <1>1, <1>2
    <2> HIDE DEF g
    <2>3. ASSUME NEW i \in DOMAIN r
          PROVE  \/ ChunkOf(r[i], x) /\ r[i].at = g[i - 1] /\ g[i] = g[i - 1] + 1
                 \/ ~ChunkOf(r[i], x) /\ g[i] = g[i - 1] /\ (SuccessOf(r[i], x) => Size <= g[i - 1])
      <3>1. CASE i \in DOMAIN q /\ r[i] = q[i]
        <4>1. i \in 0 .. n /\ i - 1 \in 0 .. n  BY <1>2, <3>1
        <4>2. g[i] = f[i] /\ g[i - 1] = f[i - 1]  BY <2>2, <4>1
        <4>3. \/ ChunkOf(q[i], x) /\ q[i].at = f[i - 1] /\ f[i] = f[i - 1] + 1
              \/ ~ChunkOf(q[i], x) /\ f[i] = f[i - 1] /\ (SuccessOf(q[i], x) => Size <= f[i - 1])
          BY <1>1, <3>1 DEF Stream
        <4> QED  BY <3>1, <4>2, <4>3
      <3>2. CASE i = n + 1 /\ r[i] = a
        <4>1. i - 1 = n  BY <1>2, <3>2
        <4> QED  BY <1>3, <2>2, <3>2, <4>1
      <3> QED  BY <1>2, <3>1, <3>2
    <2>4. Stream(r, x, g)  BY <2>3 DEF Stream
    <2> QED  BY <1>2, <2>1, <2>2, <2>4 DEF Carries
  <1>4. d + 1 \in Nat  OBVIOUS
  <1> QED  BY <1>3, <1>4 DEF r

\* What taking the first message leaves of it.
LEMMA CarriesOn ==
  ASSUME NEW q \in Seq(CtlMsg), q # <<>>, NEW x, NEW c \in Nat, NEW d \in Nat,
         Carries(q, x, c, d)
  PROVE  \/ /\ ChunkOf(Head(q), x) /\ Head(q).at = c
            /\ Carries(Tail(q), x, c + 1, d)
         \/ /\ ~ChunkOf(Head(q), x) /\ (SuccessOf(Head(q), x) => Size <= c)
            /\ Carries(Tail(q), x, c, d)
  <1> DEFINE r == Tail(q)
             n == Len(q)
  <1>1. PICK f \in [0 .. n -> Nat] : Stream(q, x, f) /\ f[0] = c /\ f[n] = d
    BY DEF Carries
  <1>2. /\ Head(q) = q[1] /\ 1 \in DOMAIN q /\ n \in Nat /\ Len(r) = n - 1
        /\ DOMAIN q = 1 .. n /\ DOMAIN r = 1 .. n - 1
        /\ \A i \in DOMAIN r : i \in Nat /\ i + 1 \in DOMAIN q /\ r[i] = q[i + 1]
    BY TakesFirst
  <1> HIDE DEF r, n
  <1>3. n > 0 /\ 1 \in 0 .. n /\ f[1] \in Nat  BY <1>1, <1>2
  <1> DEFINE g == [k \in 0 .. n - 1 |-> f[k + 1]]
  <1>4. \A k \in 0 .. n - 1 : k + 1 \in 0 .. n  BY <1>2
  <1>5. g \in [0 .. n - 1 -> Nat]  BY <1>4
  <1>6. \A k \in 0 .. n - 1 : g[k] = f[k + 1]  OBVIOUS
  <1> HIDE DEF g
  <1>7. g[0] = f[1] /\ g[n - 1] = d
    <2>1. 0 \in 0 .. n - 1 /\ n - 1 \in 0 .. n - 1 /\ 0 + 1 = 1 /\ n - 1 + 1 = n  BY <1>2, <1>3
    <2> QED  BY <1>1, <1>6, <2>1
  <1>8. ASSUME NEW i \in DOMAIN r
        PROVE  \/ ChunkOf(r[i], x) /\ r[i].at = g[i - 1] /\ g[i] = g[i - 1] + 1
               \/ ~ChunkOf(r[i], x) /\ g[i] = g[i - 1] /\ (SuccessOf(r[i], x) => Size <= g[i - 1])
    <2>1. /\ i \in 0 .. n - 1 /\ i - 1 \in 0 .. n - 1 /\ i - 1 + 1 = i /\ i + 1 - 1 = i
          /\ i + 1 \in DOMAIN q /\ r[i] = q[i + 1]
      <3>1. i + 1 \in DOMAIN q /\ r[i] = q[i + 1]  BY <1>2
      <3>2. i \in 1 .. n - 1 /\ n \in Nat  BY <1>2
      <3>3. i \in 0 .. n - 1 /\ i - 1 \in 0 .. n - 1  BY <3>2
      <3>4. i - 1 + 1 = i /\ i + 1 - 1 = i  BY <3>2
      <3> QED  BY <3>1, <3>3, <3>4
    <2>2. g[i] = f[i + 1] /\ g[i - 1] = f[i]
      <3>1. g[i - 1] = f[i - 1 + 1]  BY <1>6, <2>1
      <3> QED  BY <1>6, <2>1, <3>1
    <2> DEFINE j == i + 1
    <2>3. j \in DOMAIN q /\ j - 1 = i /\ r[i] = q[j] /\ g[i] = f[j]  BY <2>1, <2>2
    <2> HIDE DEF j
    <2>4. \/ ChunkOf(q[j], x) /\ q[j].at = f[j - 1] /\ f[j] = f[j - 1] + 1
          \/ ~ChunkOf(q[j], x) /\ f[j] = f[j - 1] /\ (SuccessOf(q[j], x) => Size <= f[j - 1])
      BY <1>1, <2>3 DEF Stream
    <2> QED  BY <2>2, <2>3, <2>4
  <1>9. Stream(r, x, g)  BY <1>8 DEF Stream
  <1>10. Carries(r, x, f[1], d)  BY <1>2, <1>5, <1>7, <1>9 DEF Carries
  <1>11. \/ ChunkOf(q[1], x) /\ q[1].at = f[0] /\ f[1] = f[0] + 1
         \/ ~ChunkOf(q[1], x) /\ f[1] = f[0] /\ (SuccessOf(q[1], x) => Size <= f[0])
    <2>1. 1 - 1 = 0  OBVIOUS
    <2>2. \/ ChunkOf(q[1], x) /\ q[1].at = f[1 - 1] /\ f[1] = f[1 - 1] + 1
          \/ ~ChunkOf(q[1], x) /\ f[1] = f[1 - 1] /\ (SuccessOf(q[1], x) => Size <= f[1 - 1])
      BY <1>1, <1>2 DEF Stream
    <2> QED  BY <2>1, <2>2
  <1> QED  BY <1>1, <1>2, <1>10, <1>11 DEF r

\* What its first messages carry.
LEMMA CarriesAtFirst ==
  ASSUME NEW q \in Seq(CtlMsg), NEW n \in 0 .. Len(q), NEW x, NEW c \in Nat, NEW d \in Nat,
         Carries(q, x, c, d)
  PROVE  \E e \in Nat : Carries(SubSeq(q, 1, n), x, c, e)
  <1> DEFINE r == SubSeq(q, 1, n)
  <1>1. PICK f \in [0 .. Len(q) -> Nat] : Stream(q, x, f) /\ f[0] = c
    BY DEF Carries
  <1>2. /\ Len(r) = n /\ Len(q) \in Nat /\ DOMAIN q = 1 .. Len(q) /\ DOMAIN r = 1 .. n
        /\ \A i \in DOMAIN r : i \in DOMAIN q /\ r[i] = q[i]
    BY KeepsFirst
  <1> HIDE DEF r
  <1> DEFINE g == [k \in 0 .. n |-> f[k]]
  <1>3. n \in Nat /\ \A k \in 0 .. n : k \in 0 .. Len(q)  BY <1>2
  <1>4. g \in [0 .. n -> Nat] /\ g[0] = c /\ g[n] \in Nat  BY <1>1, <1>3
  <1>5. \A k \in 0 .. n : g[k] = f[k]  OBVIOUS
  <1> HIDE DEF g
  <1>6. ASSUME NEW i \in DOMAIN r
        PROVE  \/ ChunkOf(r[i], x) /\ r[i].at = g[i - 1] /\ g[i] = g[i - 1] + 1
               \/ ~ChunkOf(r[i], x) /\ g[i] = g[i - 1] /\ (SuccessOf(r[i], x) => Size <= g[i - 1])
    <2>1. i \in 0 .. n /\ i - 1 \in 0 .. n /\ i \in DOMAIN q /\ r[i] = q[i]  BY <1>2, <1>3
    <2>2. \/ ChunkOf(q[i], x) /\ q[i].at = f[i - 1] /\ f[i] = f[i - 1] + 1
          \/ ~ChunkOf(q[i], x) /\ f[i] = f[i - 1] /\ (SuccessOf(q[i], x) => Size <= f[i - 1])
      BY <1>1, <2>1 DEF Stream
    <2> QED  BY <1>5, <2>1, <2>2
  <1>7. Stream(r, x, g)  BY <1>6 DEF Stream
  <1> QED  BY <1>2, <1>4, <1>7 DEF Carries, r

\* Messages of others, and acknowledgements and failures, change nothing of it.
LEMMA CarriesQuiet ==
  ASSUME NEW q \in Seq(CtlMsg), NEW r \in Seq(CtlMsg), Len(q) <= Len(r), NEW x,
         NEW c \in Nat, NEW d \in Nat, Carries(q, x, c, d),
         \A i \in DOMAIN r : \/ i \in DOMAIN q /\ r[i] = q[i]
                             \/ i \notin DOMAIN q /\ ~ChunkOf(r[i], x) /\ ~SuccessOf(r[i], x)
  PROVE  Carries(r, x, c, d)
  <1> DEFINE m == Len(r)
             n == Len(q)
  <1>1. PICK f \in [0 .. n -> Nat] : Stream(q, x, f) /\ f[0] = c /\ f[n] = d
    BY DEF Carries
  <1>2. m \in Nat /\ n \in Nat /\ n <= m /\ DOMAIN q = 1 .. n /\ DOMAIN r = 1 .. m
    BY LenProperties
  <1>r. m = Len(r)  OBVIOUS
  <1> HIDE DEF m, n
  <1> DEFINE g == [k \in 0 .. m |-> IF k <= n THEN f[k] ELSE d]
  <1>3. \A k \in 0 .. m : k <= n => k \in 0 .. n  BY <1>2
  <1>4. g \in [0 .. m -> Nat]  BY <1>3
  <1>5. \A k \in 0 .. m : g[k] = IF k <= n THEN f[k] ELSE d  OBVIOUS
  <1> HIDE DEF g
  <1>6. g[0] = c /\ g[m] = d
    <2>1. 0 \in 0 .. m /\ m \in 0 .. m /\ 0 <= n /\ (m <= n => m = n)  BY <1>2
    <2> QED  BY <1>1, <1>5, <2>1
  <1>7. ASSUME NEW i \in DOMAIN r
        PROVE  \/ ChunkOf(r[i], x) /\ r[i].at = g[i - 1] /\ g[i] = g[i - 1] + 1
               \/ ~ChunkOf(r[i], x) /\ g[i] = g[i - 1] /\ (SuccessOf(r[i], x) => Size <= g[i - 1])
    <2>1. i \in 0 .. m /\ i - 1 \in 0 .. m /\ i \in Nat  BY <1>2
    <2>2. CASE i \in DOMAIN q /\ r[i] = q[i]
      <3>1. i <= n /\ i - 1 <= n  BY <1>2, <2>2
      <3>2. g[i] = f[i] /\ g[i - 1] = f[i - 1]  BY <1>5, <2>1, <3>1
      <3>3. \/ ChunkOf(q[i], x) /\ q[i].at = f[i - 1] /\ f[i] = f[i - 1] + 1
            \/ ~ChunkOf(q[i], x) /\ f[i] = f[i - 1] /\ (SuccessOf(q[i], x) => Size <= f[i - 1])
        BY <1>1, <2>2 DEF Stream
      <3> QED  BY <2>2, <3>2, <3>3
    <2>3. CASE i \notin DOMAIN q /\ ~ChunkOf(r[i], x) /\ ~SuccessOf(r[i], x)
      <3>1. ~(i <= n) /\ (i - 1 <= n => i - 1 = n)  BY <1>2, <2>1, <2>3
      <3>2. g[i] = d /\ g[i - 1] = d  BY <1>1, <1>5, <2>1, <3>1
      <3> QED  BY <2>3, <3>2
    <2> QED  BY <2>2, <2>3
  <1>8. Stream(r, x, g)  BY <1>7 DEF Stream
  <1> QED  BY <1>4, <1>6, <1>8, <1>r DEF Carries

-----------------------------------------------------------------------------
\* What becomes of the place where a download is written.
EndOf(m, x) == m.type \in {"ok", "failed"} /\ m.id = x

LEMMA DownReceived ==
  ASSUME Typed, Receive, NEW m, m = Head(toCtl), NEW x \in Transfer
  PROVE  /\ \/ /\ ChunkOf(m, x) /\ down[x] # Absent /\ down'[x] = down[x] + 1
               /\ localFile' = Written(localFile, down[x], m.at + 1)
            \/ /\ ChunkOf(m, x) /\ down[x] # Absent /\ x \in spoilt'
               /\ down'[x] = down[x]
            \/ EndOf(m, x) /\ down'[x] = Absent
            \/ /\ ~EndOf(m, x) /\ (ChunkOf(m, x) => down[x] = Absent)
               /\ down'[x] = down[x]
         /\ toCtl # <<>> /\ toCtl' = Tail(toCtl) /\ m = toCtl[1] /\ 1 \in DOMAIN toCtl
         /\ UNCHANGED <<thread, downloads, cancelled, toHost, srcLen>>
  <1>0. down \in [Transfer -> Nat \cup {Absent}] /\ toCtl \in Seq(CtlMsg)
    BY TypedFacts
  <1>1. toCtl # <<>> /\ toCtl' = Tail(toCtl)  BY DEF Receive
  <1>2. m = toCtl[1] /\ 1 \in DOMAIN toCtl /\ m.id \in Transfer  BY <1>0, <1>1, ControllerTakes
  <1>3. UNCHANGED <<thread, downloads, cancelled, toHost, srcLen>>  BY DEF Receive
  <1>4. CASE /\ m.type = "chunk" /\ down[m.id] # Absent
             /\ localFile' = Written(localFile, down[m.id], m.at + 1)
             /\ down' = [down EXCEPT ![m.id] = @ + 1]
    <2>1. CASE x = m.id  BY <1>0, <1>1, <1>2, <1>3, <1>4, <2>1 DEF ChunkOf
    <2>2. CASE x # m.id  BY <1>0, <1>1, <1>2, <1>3, <1>4, <2>2 DEF ChunkOf, EndOf
    <2> QED  BY <2>1, <2>2
  <1>5. CASE m.type = "chunk" /\ (down[m.id] # Absent => m.id \in spoilt') /\ UNCHANGED down
    BY <1>1, <1>2, <1>3, <1>5 DEF ChunkOf, EndOf
  <1>6. CASE m.type = "progress" /\ UNCHANGED down
    BY <1>1, <1>2, <1>3, <1>6 DEF ChunkOf, EndOf
  <1>7. CASE m.type \in {"ok", "failed"} /\ down' = [down EXCEPT ![m.id] = Absent]
    <2>1. CASE x = m.id  BY <1>0, <1>1, <1>2, <1>3, <1>7, <2>1 DEF EndOf
    <2>2. CASE x # m.id  BY <1>0, <1>1, <1>2, <1>3, <1>7, <2>2 DEF ChunkOf, EndOf
    <2> QED  BY <2>1, <2>2
  <1> QED  BY <1>4, <1>5, <1>6, <1>7, ReceiveCases

LEMMA DownOtherwise ==
  ASSUME Typed, [FtNext]_ftVars, ~Receive, NEW x \in Transfer
  PROVE  /\ \/ FsDownload(x) /\ down'[x] = Len(localFile)
            \/ down'[x] = Absent /\ x \in cancelled'
            \/ down'[x] = down[x]
         /\ UNCHANGED localFile
  <1>0. down \in [Transfer -> Nat \cup {Absent}]
    BY TypedFacts
  <1>1. ASSUME NEW id \in Transfer, FsDownload(id)
        PROVE  /\ down'[x] = down[x] \/ (FsDownload(x) /\ down'[x] = Len(localFile))
               /\ UNCHANGED localFile
    BY <1>0, <1>1 DEF FsDownload, files
  <1>2. ASSUME NEW id \in Transfer, FsCancel(id)
        PROVE  /\ down'[x] = down[x] \/ (down'[x] = Absent /\ x \in cancelled')
               /\ UNCHANGED localFile
    BY <1>0, <1>2 DEF FsCancel, Forgets, files
  <1>3. \/ \E id \in Transfer : FsDownload(id) \/ FsCancel(id)
        \/ UNCHANGED <<down, localFile>>
    BY DEF FtNext, FtCommands, ftVars, tables, files, FsUpload, UploadThread, ThreadGivesUp,
           ThreadStarts, ThreadChecks, ThreadSends, ThreadOnly, HostPump, HostOnly, Host,
           HostUploadStart, HostChunk, HostDownload, HostCancel, SessionEnds, Connects
  <1> QED  BY <1>1, <1>2, <1>3

\* A transfer that was cancelled stays so; nobody cancels a download that has no entry yet.
LEMMA CancelsStay ==
  ASSUME Typed, [FtNext]_ftVars
  PROVE  cancelled \subseteq cancelled'
  BY DEF FtNext, FtCommands, ftVars, FsDownload, FsUpload, FsCancel, UploadThread, ThreadGivesUp,
         ThreadStarts, ThreadChecks, ThreadSends, ThreadOnly, HostPump, HostOnly, Receive, Host,
         HostUploadStart, HostChunk, HostDownload, HostCancel, SessionEnds, Connects

\* A download that was spoilt stays so; one that is not when it begins, begins inside the source.
LEMMA SpoiltStay ==
  ASSUME Typed, [FtNext]_ftVars
  PROVE  /\ spoilt \subseteq spoilt'
         /\ \A x \in Transfer : FsDownload(x) /\ x \notin spoilt' => Len(localFile) <= Size
         /\ ~Receive /\ (\A x \in Transfer : ~FsDownload(x)) => spoilt' = spoilt
  <1>1. CASE Receive
    <2>1. spoilt \subseteq spoilt'
      <3>1. PICK m : m = Head(toCtl)  OBVIOUS
      <3> QED  BY <1>1, <3>1, ReceiveCases
    <2>2. ASSUME NEW x \in Transfer, FsDownload(x) PROVE FALSE
      <3>1. toCtl' = toCtl /\ toCtl # <<>> /\ toCtl' = Tail(toCtl)
        BY <1>1, <2>2 DEF Receive, FsDownload
      <3>2. Len(toCtl) \in Nat /\ Len(Tail(toCtl)) = Len(toCtl) - 1
        BY <3>1, TypedFacts, TakesFirst
      <3> QED  BY <3>1, <3>2
    <2> QED  BY <1>1, <2>1, <2>2
  <1>2. ASSUME NEW x \in Transfer, FsDownload(x)
        PROVE  spoilt \subseteq spoilt' /\ (x \notin spoilt' => Len(localFile) <= Size)
    <2>1. Len(localFile) \in Nat /\ Size \in Nat  BY TypedFacts
    <2>2. spoilt' = IF Len(localFile) > Size THEN spoilt \cup {x} ELSE spoilt
      BY <1>2 DEF FsDownload
    <2> QED  BY <2>1, <2>2
  <1>3. CASE ~Receive /\ \A x \in Transfer : ~FsDownload(x)
    BY <1>3 DEF FtNext, FtCommands, ftVars, files, FsUpload, FsCancel, UploadThread,
           ThreadGivesUp, ThreadStarts, ThreadChecks, ThreadSends, ThreadOnly, HostPump, HostOnly,
           Host, HostUploadStart, HostChunk, HostDownload, HostCancel, SessionEnds, Connects
  <1> QED  BY <1>1, <1>2, <1>3

\* A download keeps its entry until its end, or its cancelling.
LEMMA DownKept ==
  ASSUME Typed, [FtNext]_ftVars, NEW x \in Transfer, x \notin cancelled',
         x \notin cancelled => down[x] # Absent
  PROVE  /\ x \notin cancelled /\ down[x] # Absent
         /\ \/ down'[x] # Absent
            \/ Receive /\ 1 \in DOMAIN toCtl /\ EndOf(toCtl[1], x)
  <1>0. /\ down[x] \in Nat \cup {Absent} /\ Absent = -1 /\ Len(localFile) \in Nat
    BY TypedFacts, Constants
  <1>1. x \notin cancelled /\ down[x] # Absent  BY CancelsStay
  <1>2. CASE Receive
    <2> DEFINE m == Head(toCtl)
    <2>1. m = Head(toCtl)  OBVIOUS
    <2> HIDE DEF m
    <2>2. /\ \/ down'[x] = down[x] + 1
             \/ down'[x] = down[x]
             \/ EndOf(m, x)
          /\ m = toCtl[1] /\ 1 \in DOMAIN toCtl
      BY <1>2, <2>1, DownReceived
    <2> QED  BY <1>0, <1>1, <1>2, <2>2
  <1>3. CASE ~Receive
    <2>1. down'[x] = Len(localFile) \/ down'[x] = down[x]  BY <1>3, DownOtherwise
    <2> QED  BY <1>0, <1>1, <2>1
  <1> QED  BY <1>1, <1>2, <1>3

\* The file that downloads are written to never gets shorter.
LEMMA LocalFrom ==
  ASSUME Typed, [FtNext]_ftVars
  PROVE  \/ UNCHANGED localFile
         \/ \E x \in Transfer : /\ Receive /\ ChunkOf(Head(toCtl), x) /\ down[x] # Absent
                                /\ localFile' = Written(localFile, down[x], Head(toCtl).at + 1)
                                /\ down' = [down EXCEPT ![x] = @ + 1]
  <1>1. CASE Receive
    <2> DEFINE m == Head(toCtl)
    <2>1. m = Head(toCtl)  OBVIOUS
    <2>2. m.id \in Transfer
      BY <1>1, ControllerTakes, TypedFacts DEF Receive
    <2> HIDE DEF m
    <2>3. CASE UNCHANGED localFile  BY <2>3
    <2>4. CASE /\ m.type = "chunk" /\ down[m.id] # Absent
               /\ localFile' = Written(localFile, down[m.id], m.at + 1)
               /\ down' = [down EXCEPT ![m.id] = @ + 1]
      <3>1. ChunkOf(m, m.id)  BY <2>4 DEF ChunkOf
      <3> QED  BY <1>1, <2>1, <2>2, <2>4, <3>1
    <2> QED  BY <1>1, <2>1, <2>3, <2>4, ReceiveCases
  <1>2. CASE ~Receive
    BY <1>2 DEF FtNext, FtCommands, ftVars, files, FsDownload, FsUpload, FsCancel, UploadThread,
           ThreadGivesUp, ThreadStarts, ThreadChecks, ThreadSends, ThreadOnly, HostPump, HostOnly,
           Host, HostUploadStart, HostChunk, HostDownload, HostCancel, SessionEnds, Connects
  <1> QED  BY <1>1, <1>2

LEMMA LocalGrows ==
  ASSUME Typed, [FtNext]_ftVars
  PROVE  Len(localFile) \in Nat /\ Len(localFile') \in Nat /\ Len(localFile) <= Len(localFile')
  <1>0. /\ localFile \in Seq(Nat) /\ Len(localFile) \in Nat
        /\ down \in [Transfer -> Nat \cup {Absent}]
    BY TypedFacts
  <1>1. CASE UNCHANGED localFile  BY <1>0, <1>1
  <1>2. ASSUME NEW x \in Transfer, Receive, down[x] # Absent,
               localFile' = Written(localFile, down[x], Head(toCtl).at + 1)
        PROVE  Len(localFile') \in Nat /\ Len(localFile) <= Len(localFile')
    <2>1. down[x] \in Nat  BY <1>0, <1>2
    <2>2. Head(toCtl).at + 1 \in Nat
      <3>1. Head(toCtl).at \in Nat  BY <1>2, ControllerTakes, TypedFacts DEF Receive
      <3> QED  BY <3>1
    <2>3. Len(localFile') = IF down[x] < Len(localFile) THEN Len(localFile) ELSE down[x] + 1
      BY <1>0, <1>2, <2>1, <2>2, WrittenTyped
    <2> QED  BY <1>0, <2>1, <2>3
  <1> QED  BY <1>0, <1>1, <1>2, LocalFrom

LEMMA DownloadsBehindStep == Typed /\ DownloadsBehind /\ [FtNext]_ftVars => DownloadsBehind'
  <1> SUFFICES ASSUME Typed, DownloadsBehind, [FtNext]_ftVars, NEW x \in Transfer,
                      down'[x] # Absent
               PROVE  down'[x] <= Len(localFile')
    BY DEF DownloadsBehind
  <1>0. /\ localFile \in Seq(Nat) /\ Absent = -1 /\ down[x] \in Nat \cup {Absent}
        /\ Len(localFile) \in Nat /\ Len(localFile') \in Nat /\ Len(localFile) <= Len(localFile')
    BY TypedFacts, Constants, LocalGrows
  <1>1. CASE down'[x] = down[x]
    <2>1. down[x] <= Len(localFile)  BY <1>1 DEF DownloadsBehind
    <2> QED  BY <1>0, <1>1, <2>1
  <1>2. CASE Receive
    <2> DEFINE m == Head(toCtl)
    <2>1. m = Head(toCtl)  OBVIOUS
    <2>2. m.at \in Nat  BY <1>2, ControllerTakes, TypedFacts DEF Receive
    <2> HIDE DEF m
    <2>3. CASE /\ down[x] # Absent /\ down'[x] = down[x] + 1
               /\ localFile' = Written(localFile, down[x], m.at + 1)
      <3>1. down[x] \in Nat /\ m.at + 1 \in Nat  BY <1>0, <2>2, <2>3
      <3>2. Len(localFile') = IF down[x] < Len(localFile) THEN Len(localFile) ELSE down[x] + 1
        BY <1>0, <2>3, <3>1, WrittenTyped
      <3> QED  BY <1>0, <2>3, <3>1, <3>2
    <2> QED  BY <1>1, <1>2, <2>1, <2>3, DownReceived
  <1>3. CASE ~Receive
    <2>1. down'[x] = Len(localFile) \/ down'[x] = down[x]  BY <1>3, DownOtherwise
    <2> QED  BY <1>0, <1>1, <2>1
  <1> QED  BY <1>2, <1>3

-----------------------------------------------------------------------------
(***************************************************************************)
(* A download that was not cancelled keeps its entry on the controller     *)
(* until its end has arrived: while the host has it, while the request is  *)
(* on its way, and while its end is, of which there is one.                *)
(***************************************************************************)
AskedFor ==
  /\ \A x \in Transfer : downloads[x] # Absent /\ x \notin cancelled => down[x] # Absent
  /\ \A i \in DOMAIN toHost :
       toHost[i].type = "download" /\ toHost[i].id \notin cancelled => down[toHost[i].id] # Absent

EndsOnce ==
  \A x \in Transfer : \A i \in DOMAIN toCtl : EndOf(toCtl[i], x) /\ ~IsUpload(x) =>
    /\ downloads[x] = Absent
    /\ \A j \in DOMAIN toCtl : EndOf(toCtl[j], x) => j = i
    /\ x \notin cancelled => down[x] # Absent

\* The host says that a download is over when it cannot open it, or when it forgets it.
LEMMA FailsToOpen ==
  ASSUME Typed, Host, 1 \in DOMAIN toHost, toHost[1].type = "download"
  PROVE  /\ HostDownload
         /\ \A i \in DOMAIN toCtl' :
              i \notin DOMAIN toCtl /\ toCtl'[i].type \in {"ok", "failed"} => UNCHANGED downloads
  <1>0. toHost \in Seq(HostMsg) /\ toCtl \in Seq(CtlMsg)  BY TypedFacts
  <1>1. HostDownload
    <2>1. ASSUME NEW type, Takes(type) PROVE type = "download"  BY <1>0, <2>1, HostTakes
    <2> QED  BY <2>1 DEF Host, HostUploadStart, HostChunk, HostCancel
  <1> DEFINE m == Head(toHost)
             off == Least(m.at, Size)
  <1>2. m = Head(toHost) /\ off = Least(m.at, Size)  OBVIOUS
  <1> HIDE DEF m, off
  <1>3. /\ Progress(m.id, off) \in CtlMsg
        /\ UNCHANGED downloads \/ toCtl' = toCtl \o <<Progress(m.id, off)>>
    BY <1>1, <1>2, DownloadCases
  <1>4. Progress(m.id, off).type = "progress"  BY ProgressFields
  <1>5. CASE toCtl' = toCtl \o <<Progress(m.id, off)>>
    <2>1. \A i \in DOMAIN toCtl' : i \in DOMAIN toCtl \/ toCtl'[i] = Progress(m.id, off)
      BY <1>0, <1>3, <1>5, SaysOne
    <2> QED  BY <1>1, <1>4, <2>1
  <1> QED  BY <1>1, <1>3, <1>5

LEMMA PumpEnds ==
  ASSUME Typed, NEW id \in Transfer, HostPump(id), NEW i \in DOMAIN toCtl', i \notin DOMAIN toCtl,
         toCtl'[i].type \in {"ok", "failed"}
  PROVE  downloads'[id] = Absent
  <1>0. toCtl \in Seq(CtlMsg) /\ downloads \in [Transfer -> 0 .. Size \cup {Absent}]
    BY TypedFacts
  <1> DEFINE off == downloads[id]
  <1>1. off = downloads[id]  OBVIOUS
  <1> HIDE DEF off
  <1>2. /\ Chunk(id, off) \in CtlMsg
        /\ \/ downloads' = [downloads EXCEPT ![id] = Absent]
           \/ toCtl' = toCtl \o <<Chunk(id, off)>>
    BY <1>1, PumpCases
  <1>3. Chunk(id, off).type = "chunk"  BY ChunkFields
  <1>4. CASE toCtl' = toCtl \o <<Chunk(id, off)>>
    <2>1. toCtl'[i] = Chunk(id, off)  BY <1>0, <1>2, <1>4, SaysOne
    <2> QED  BY <1>3, <2>1
  <1> QED  BY <1>0, <1>2, <1>4

LEMMA AskedForStep ==
  ASSUME Typed, Ids, StartsFirst, EndsOnce, AskedFor, [FtNext]_ftVars
  PROVE  AskedFor'
  <1>1. ASSUME NEW x \in Transfer, downloads'[x] # Absent, x \notin cancelled'
        PROVE  down'[x] # Absent
    <2>1. x \notin cancelled  BY <1>1, CancelsStay
    <2>2. CASE downloads[x] # Absent
      <3>1. down[x] # Absent /\ ~IsUpload(x)
        BY <2>1, <2>2 DEF AskedFor, Ids, TablesHaveRoles
      <3>2. ~(1 \in DOMAIN toCtl /\ EndOf(toCtl[1], x))  BY <2>2, <3>1 DEF EndsOnce
      <3> QED  BY <1>1, <3>1, <3>2, DownKept
    <2>3. CASE HostDownload /\ 1 \in DOMAIN toHost /\ toHost[1].id = x /\ toHost[1].type = "download"
      <3>1. down[x] # Absent  BY <2>1, <2>3 DEF AskedFor
      <3>2. UNCHANGED down  BY <2>3 DEF HostDownload, HostOnly
      <3> QED  BY <3>1, <3>2
    <2> QED  BY <1>1, <2>2, <2>3, DownloadsFrom
  <1>2. ASSUME NEW i \in DOMAIN toHost', NEW x, x = toHost'[i].id,
               toHost'[i].type = "download", x \notin cancelled'
        PROVE  down'[x] # Absent
    <2>1. x \notin cancelled  BY <1>2, CancelsStay
    <2>2. ASSUME NEW j \in DOMAIN toHost, toHost'[i] = toHost[j] PROVE down'[x] # Absent
      <3>1. toHost[j].type = "download" /\ toHost[j].id = x /\ x \in Transfer
        BY <1>2, <2>2, QueuedTyped
      <3>2. down[x] # Absent  BY <2>1, <3>1 DEF AskedFor
      <3>3. NotStarted(j)  BY <3>1 DEF StartsFirst
      <3>4. ~(1 \in DOMAIN toCtl /\ EndOf(toCtl[1], x))  BY <3>1, <3>3 DEF NotStarted, EndOf
      <3> QED  BY <1>2, <3>1, <3>2, <3>4, DownKept
    <2>3. ASSUME NEW id \in Transfer, Request(id, toHost'[i]) PROVE down'[x] # Absent
      <3>1. FsDownload(id) /\ id = x  BY <1>2, <2>3 DEF Request
      <3>2. down \in [Transfer -> Nat \cup {Absent}] /\ Len(localFile) \in Nat /\ Absent = -1
        BY TypedFacts, Constants
      <3>3. down' = [down EXCEPT ![id] = Len(localFile)]  BY <3>1 DEF FsDownload
      <3> QED  BY <3>1, <3>2, <3>3
    <2> QED  BY <2>2, <2>3, ToHostFrom
  <1> QED  BY <1>1, <1>2 DEF AskedFor

\* What the host answers to the request of a download: nothing of it was on its way.
LEMMA AnswersDownload ==
  ASSUME Typed, Ids, StartsFirst, Host, NEW x \in Transfer, ~IsUpload(x),
         NEW j \in DOMAIN toCtl', Answer(j, toHost[1]), toCtl'[j].id = x
  PROVE  /\ toHost[1].type = "download" /\ toHost[1].id = x /\ NotStarted(1)
         /\ \A k \in DOMAIN toCtl : toCtl[k].id # x
         /\ downloads[x] = Absent
  <1>1. 1 \in DOMAIN toHost  BY HostTakesOne
  <1>2. toHost[1].id = x /\ toHost[1].type # "cancel"  BY DEF Answer
  <1>3. toHost[1].type = "download"
    BY <1>1, <1>2, QueuedTyped DEF Ids, MessagesHaveRoles
  <1>4. NotStarted(1)  BY <1>1, <1>3 DEF StartsFirst
  <1> QED  BY <1>2, <1>3, <1>4 DEF NotStarted

LEMMA EndsOnceStep ==
  ASSUME Typed, Ids, StartsFirst, EndsOnce, AskedFor, [FtNext]_ftVars
  PROVE  EndsOnce'
  <1> SUFFICES ASSUME NEW x \in Transfer, NEW i \in DOMAIN toCtl', EndOf(toCtl'[i], x),
                      thread'[x].pc = "none"
               PROVE  /\ downloads'[x] = Absent
                      /\ \A j \in DOMAIN toCtl' : EndOf(toCtl'[j], x) => j = i
                      /\ x \notin cancelled' => down'[x] # Absent
    BY DEF EndsOnce, IsUpload, EndOf
  <1>0. ~IsUpload(x)
    <2>1. thread'[x].pc = "none" => ~IsUpload(x)  BY RolesStay DEF Ids, IsUpload
    <2> QED  BY <2>1
  <1>k. ASSUME x \notin cancelled', x \notin cancelled => down[x] # Absent, ~Receive
        PROVE  down'[x] # Absent
    BY <1>k, DownKept
  <1>1. CASE Host
    <2>1. UNCHANGED <<down, cancelled>> /\ 1 \in DOMAIN toHost  BY <1>1, HostTakesOne
    <2>2. ASSUME i \in DOMAIN toCtl, toCtl'[i] = toCtl[i]
          PROVE  /\ downloads'[x] = Absent
                 /\ \A j \in DOMAIN toCtl' : EndOf(toCtl'[j], x) => j = i
                 /\ x \notin cancelled' => down'[x] # Absent
      <3>1. /\ EndOf(toCtl[i], x) /\ downloads[x] = Absent
            /\ \A j \in DOMAIN toCtl : EndOf(toCtl[j], x) => j = i
            /\ x \notin cancelled => down[x] # Absent
        BY <1>0, <2>2 DEF EndsOnce
      <3>2. downloads'[x] = Absent
        <4>1. ASSUME 1 \in DOMAIN toHost, toHost[1].id = x, toHost[1].type = "download"
              PROVE  FALSE
          <5>1. NotStarted(1)  BY <4>1 DEF StartsFirst
          <5> QED  BY <2>2, <3>1, <4>1, <5>1 DEF NotStarted, EndOf
        <4> QED  BY <3>1, <4>1, DownloadsFrom
      <3>3. ASSUME NEW j \in DOMAIN toCtl', EndOf(toCtl'[j], x) PROVE j = i
        <4>1. CASE j \in DOMAIN toCtl /\ toCtl'[j] = toCtl[j]  BY <3>1, <3>3, <4>1
        <4>2. CASE Answer(j, toHost[1])
          <5>1. toCtl'[j].id = x  BY <3>3 DEF EndOf
          <5>2. \A k \in DOMAIN toCtl : toCtl[k].id # x
            BY <1>0, <1>1, <4>2, <5>1, AnswersDownload
          <5> QED  BY <2>2, <3>1, <5>2 DEF EndOf
        <4> QED  BY <1>1, <4>1, <4>2, HostSays
      <3> QED  BY <2>1, <3>1, <3>2, <3>3
    <2>3. ASSUME Answer(i, toHost[1])
          PROVE  /\ downloads'[x] = Absent
                 /\ \A j \in DOMAIN toCtl' : EndOf(toCtl'[j], x) => j = i
                 /\ x \notin cancelled' => down'[x] # Absent
      <3>1. /\ toHost[1].type = "download" /\ toHost[1].id = x
            /\ \A k \in DOMAIN toCtl : toCtl[k].id # x
            /\ downloads[x] = Absent
        <4>1. toCtl'[i].id = x  BY DEF EndOf
        <4> QED  BY <1>0, <1>1, <2>3, <4>1, AnswersDownload
      <3>2. /\ toCtl'[i].type \in {"ok", "failed"} /\ i \notin DOMAIN toCtl /\ i = Len(toCtl')
        BY <2>3 DEF Answer, EndOf
      <3>3. downloads'[x] = Absent  BY <1>1, <2>1, <3>1, <3>2, FailsToOpen
      <3>4. ASSUME NEW j \in DOMAIN toCtl', EndOf(toCtl'[j], x) PROVE j = i
        <4>1. ~(j \in DOMAIN toCtl /\ toCtl'[j] = toCtl[j])  BY <3>1, <3>4 DEF EndOf
        <4>2. Answer(j, toHost[1])  BY <1>1, <4>1, HostSays
        <4> QED  BY <3>2, <3>4, <4>2 DEF Answer, EndOf
      <3>5. x \notin cancelled => down[x] # Absent  BY <2>1, <3>1 DEF AskedFor
      <3> QED  BY <2>1, <3>3, <3>4, <3>5
    <2> QED  BY <1>1, <2>2, <2>3, HostSays
  <1>2. ASSUME NEW id \in Transfer, HostPump(id)
        PROVE  /\ downloads'[x] = Absent
               /\ \A j \in DOMAIN toCtl' : EndOf(toCtl'[j], x) => j = i
               /\ x \notin cancelled' => down'[x] # Absent
    <2>0. /\ downloads[id] # Absent /\ UNCHANGED <<down, cancelled>>
          /\ \E v : downloads' = [downloads EXCEPT ![id] = v]
      BY <1>2 DEF HostPump, HostOnly
    <2>t. downloads \in [Transfer -> 0 .. Size \cup {Absent}]  BY TypedFacts
    <2>1. ASSUME NEW j \in DOMAIN toCtl, toCtl'[i] = toCtl[j], j = i
          PROVE  /\ downloads'[x] = Absent
                 /\ \A k \in DOMAIN toCtl' : EndOf(toCtl'[k], x) => k = i
                 /\ x \notin cancelled' => down'[x] # Absent
      <3>1. /\ downloads[x] = Absent
            /\ \A k \in DOMAIN toCtl : EndOf(toCtl[k], x) => k = i
            /\ x \notin cancelled => down[x] # Absent
        BY <1>0, <2>1 DEF EndsOnce
      <3>2. x # id /\ downloads'[x] = Absent  BY <2>0, <2>t, <3>1
      <3>3. ASSUME NEW k \in DOMAIN toCtl', EndOf(toCtl'[k], x) PROVE k = i
        <4>1. k \in DOMAIN toCtl /\ toCtl'[k] = toCtl[k]
          BY <1>2, <3>2, <3>3, PumpSays DEF EndOf
        <4> QED  BY <3>1, <3>3, <4>1
      <3> QED  BY <2>0, <3>1, <3>2, <3>3
    <2>2. ASSUME i \notin DOMAIN toCtl, toCtl'[i].id = id,
                 toCtl'[i].type \in {"ok", "failed"}, i = Len(toCtl')
          PROVE  /\ downloads'[x] = Absent
                 /\ \A k \in DOMAIN toCtl' : EndOf(toCtl'[k], x) => k = i
                 /\ x \notin cancelled' => down'[x] # Absent
      <3>1. x = id  BY <2>2 DEF EndOf
      <3>2. downloads'[x] = Absent  BY <1>2, <2>2, <3>1, PumpEnds
      <3>3. x \notin cancelled => down[x] # Absent  BY <2>0, <3>1 DEF AskedFor
      <3>4. ASSUME NEW k \in DOMAIN toCtl', EndOf(toCtl'[k], x) PROVE k = i
        <4>1. ~(k \in DOMAIN toCtl /\ toCtl'[k] = toCtl[k])
          BY <1>0, <2>0, <3>1, <3>4 DEF EndsOnce
        <4> QED  BY <1>2, <2>2, <3>4, <4>1, PumpSays DEF EndOf
      <3> QED  BY <2>0, <3>2, <3>3, <3>4
    <2>3. \/ i \in DOMAIN toCtl /\ toCtl'[i] = toCtl[i]
          \/ /\ i \notin DOMAIN toCtl /\ toCtl'[i].id = id
             /\ \/ toCtl'[i].type = "chunk" /\ i = Len(toCtl) + 1
                \/ toCtl'[i].type \in {"ok", "failed"} /\ i = Len(toCtl')
      BY <1>2, PumpSays
    <2>4. toCtl'[i].type # "chunk"  BY DEF EndOf
    <2> QED  BY <2>1, <2>2, <2>3, <2>4
  <1>3. CASE /\ Receive
             /\ \A j \in DOMAIN toCtl' :
                  j \in Nat /\ j + 1 \in DOMAIN toCtl /\ j + 1 # 1 /\ toCtl'[j] = toCtl[j + 1]
    <2>1. /\ downloads[x] = Absent
          /\ \A j \in DOMAIN toCtl : EndOf(toCtl[j], x) => j = i + 1
          /\ x \notin cancelled => down[x] # Absent
      <3>1. i + 1 \in DOMAIN toCtl /\ EndOf(toCtl[i + 1], x)  BY <1>3
      <3> QED  BY <1>0, <3>1 DEF EndsOnce
    <2>2. UNCHANGED downloads  BY <1>3, DownReceived
    <2>3. ASSUME NEW j \in DOMAIN toCtl', EndOf(toCtl'[j], x) PROVE j = i
      <3>1. j + 1 = i + 1 /\ j \in Nat /\ i \in Nat  BY <1>3, <2>1, <2>3
      <3> QED  BY <3>1
    <2>4. ASSUME x \notin cancelled' PROVE down'[x] # Absent
      <3>1. ~(1 \in DOMAIN toCtl /\ EndOf(toCtl[1], x))
        <4>1. i + 1 # 1  BY <1>3
        <4> QED  BY <2>1, <4>1
      <3> QED  BY <2>1, <2>4, <3>1, DownKept
    <2> QED  BY <2>1, <2>2, <2>3, <2>4
  <1>4. ASSUME ~Host, \A id \in Transfer : ~HostPump(id), ~Receive,
               \A j \in DOMAIN toCtl' : j \in DOMAIN toCtl /\ toCtl'[j] = toCtl[j]
        PROVE  /\ downloads'[x] = Absent
               /\ \A j \in DOMAIN toCtl' : EndOf(toCtl'[j], x) => j = i
               /\ x \notin cancelled' => down'[x] # Absent
    <2>1. /\ downloads[x] = Absent
          /\ \A j \in DOMAIN toCtl : EndOf(toCtl[j], x) => j = i
          /\ x \notin cancelled => down[x] # Absent
      BY <1>0, <1>4 DEF EndsOnce
    <2>2. downloads'[x] = Absent  BY <1>4, <2>1, DownloadsFrom DEF Host
    <2> QED  BY <1>4, <1>k, <2>1, <2>2
  <1>5. CASE Receive
    <2>1. toCtl \in Seq(CtlMsg) /\ toCtl # <<>> /\ toCtl' = Tail(toCtl)
      BY <1>5, TypedFacts DEF Receive
    <2> QED  BY <1>3, <1>5, <2>1, ControllerTakes
  <1> QED  BY <1>1, <1>2, <1>4, <1>5, OtherSteps

-----------------------------------------------------------------------------
(***************************************************************************)
(* A download that was not spoilt goes on where the controller writes it:  *)
(* it was asked for inside the source, the chunks on their way are the     *)
(* next ones, up to what the host sends next, and the success comes after  *)
(* the last one.                                                           *)
(***************************************************************************)
Continues(q, x, p, o) ==
  \E d \in Nat : Carries(q, x, p, d) /\ (o # Absent => d = o)

AskedInside ==
  \A i \in DOMAIN toHost :
    toHost[i].type = "download" /\ toHost[i].id \notin spoilt => toHost[i].at <= Size

DownloadsInOrder ==
  \A x \in Transfer \ spoilt :
    down[x] # Absent => Continues(toCtl, x, down[x], downloads[x])

LEMMA AskedInsideStep ==
  ASSUME Typed, AskedInside, [FtNext]_ftVars
  PROVE  AskedInside'
  <1> SUFFICES ASSUME NEW i \in DOMAIN toHost', toHost'[i].type = "download",
                      toHost'[i].id \notin spoilt'
               PROVE  toHost'[i].at <= Size
    BY DEF AskedInside
  <1>0. spoilt \subseteq spoilt'  BY SpoiltStay
  <1>1. ASSUME NEW j \in DOMAIN toHost, toHost'[i] = toHost[j] PROVE toHost'[i].at <= Size
    BY <1>0, <1>1 DEF AskedInside
  <1>2. ASSUME NEW x \in Transfer, Request(x, toHost'[i]) PROVE toHost'[i].at <= Size
    <2>1. toHost'[i].id = x /\ FsDownload(x) /\ toHost'[i].at = Len(localFile)
      BY <1>2 DEF Request
    <2> QED  BY <2>1, SpoiltStay
  <1> QED  BY <1>1, <1>2, ToHostFrom

\* The host adds to the queue.
LEMMA QueueGrows ==
  ASSUME Typed, Host \/ \E id \in Transfer : HostPump(id)
  PROVE  Len(toCtl) <= Len(toCtl')
  <1>0. toCtl \in Seq(CtlMsg) /\ Len(toCtl) \in Nat  BY TypedFacts, LenProperties
  <1>1. ASSUME NEW a \in CtlMsg, toCtl' = toCtl \o <<a>> PROVE Len(toCtl) <= Len(toCtl')
    <2>1. Len(toCtl') = Len(toCtl) + 1  BY <1>0, <1>1, SaysOne
    <2> QED  BY <1>0, <2>1
  <1>2. ASSUME NEW a \in CtlMsg, NEW b \in CtlMsg, toCtl' = toCtl \o <<a, b>>
        PROVE  Len(toCtl) <= Len(toCtl')
    <2>1. Len(toCtl') = Len(toCtl) + 2  BY <1>0, <1>2, SaysTwo
    <2> QED  BY <1>0, <2>1
  <1>3. CASE UNCHANGED toCtl  BY <1>0, <1>3
  <1> DEFINE m == Head(toHost)
  <1>m. m = Head(toHost)  OBVIOUS
  <1> HIDE DEF m
  <1>4. CASE HostUploadStart
    <2> DEFINE e == ExistingFile(m)
    <2>1. e = ExistingFile(m)  OBVIOUS
    <2> HIDE DEF e
    <2>2. /\ Progress(m.id, e) \in CtlMsg /\ Done(m.id, TRUE) \in CtlMsg
          /\ Done(m.id, FALSE) \in CtlMsg
          /\ \/ toCtl' = toCtl \o <<Progress(m.id, e), Done(m.id, TRUE)>>
             \/ toCtl' = toCtl \o <<Progress(m.id, e)>>
             \/ toCtl' = toCtl \o <<Done(m.id, FALSE)>>
      BY <1>4, <1>m, <2>1, UploadStartCases
    <2> QED  BY <1>1, <1>2, <2>2
  <1>5. CASE HostChunk
    <2> DEFINE n == m.at + 1
    <2>1. n = m.at + 1  OBVIOUS
    <2> HIDE DEF n
    <2>2. /\ Progress(m.id, n) \in CtlMsg /\ Done(m.id, TRUE) \in CtlMsg
          /\ \/ toCtl' = toCtl \o <<Progress(m.id, n), Done(m.id, TRUE)>>
             \/ toCtl' = toCtl \o <<Progress(m.id, n)>>
             \/ UNCHANGED toCtl
      BY <1>5, <1>m, <2>1, ChunkCases
    <2> QED  BY <1>1, <1>2, <1>3, <2>2
  <1>6. CASE HostDownload
    <2> DEFINE off == Least(m.at, Size)
    <2>1. off = Least(m.at, Size)  OBVIOUS
    <2> HIDE DEF off
    <2>2. /\ Progress(m.id, off) \in CtlMsg /\ Done(m.id, FALSE) \in CtlMsg
          /\ \/ toCtl' = toCtl \o <<Progress(m.id, off)>>
             \/ toCtl' = toCtl \o <<Done(m.id, FALSE)>>
      BY <1>6, <1>m, <2>1, DownloadCases
    <2> QED  BY <1>1, <2>2
  <1>7. CASE HostCancel  BY <1>3, <1>7 DEF HostCancel
  <1>8. ASSUME NEW id \in Transfer, HostPump(id) PROVE Len(toCtl) <= Len(toCtl')
    <2> DEFINE off == downloads[id]
    <2>1. off = downloads[id]  OBVIOUS
    <2> HIDE DEF off
    <2>2. /\ Chunk(id, off) \in CtlMsg /\ Done(id, TRUE) \in CtlMsg /\ Done(id, FALSE) \in CtlMsg
          /\ \/ toCtl' = toCtl \o <<Chunk(id, off), Done(id, TRUE)>>
             \/ toCtl' = toCtl \o <<Chunk(id, off)>>
             \/ toCtl' = toCtl \o <<Done(id, TRUE)>>
             \/ toCtl' = toCtl \o <<Done(id, FALSE)>>
      BY <1>8, <2>1, PumpCases
    <2> QED  BY <1>1, <1>2, <2>2
  <1> QED  BY <1>4, <1>5, <1>6, <1>7, <1>8 DEF Host

\* The host starts a download where the controller writes it.
LEMMA DownloadStarts ==
  ASSUME Typed, StartsFirst, AskedInside, HostDownload, NEW x \in Transfer \ spoilt,
         toHost[1].id = x, 1 \in DOMAIN toHost, toHost[1].type = "download", down[x] # Absent,
         downloads'[x] # Absent
  PROVE  Continues(toCtl', x, down[x], downloads'[x])
  <1>0. /\ toHost \in Seq(HostMsg) /\ toCtl \in Seq(CtlMsg)
        /\ downloads \in [Transfer -> 0 .. Size \cup {Absent}]
    BY TypedFacts
  <1>1. /\ \A j \in DOMAIN toCtl : toCtl[j].id # x
        /\ downloads[x] = Absent /\ down[x] = toHost[1].at /\ toHost[1].at <= Size
    <2>1. NotStarted(1) /\ toHost[1].at <= Size  BY DEF StartsFirst, AskedInside
    <2> QED  BY <2>1 DEF NotStarted
  <1> DEFINE m == Head(toHost)
             off == Least(m.at, Size)
  <1>2. m = Head(toHost) /\ off = Least(m.at, Size) /\ m = toHost[1]
    BY <1>0, HostTakes DEF HostDownload
  <1> HIDE DEF m, off
  <1>3. /\ off \in Nat /\ off <= m.at /\ (off < Size => off = m.at)
        /\ Progress(m.id, off) \in CtlMsg
        /\ \/ /\ toCtl' = toCtl \o <<Progress(m.id, off)>>
              /\ downloads' = [downloads EXCEPT ![m.id] = off]
           \/ UNCHANGED downloads
    BY <1>2, DownloadCases
  <1>4. toCtl' = toCtl \o <<Progress(m.id, off)>> /\ downloads'[x] = off
    BY <1>0, <1>1, <1>2, <1>3
  <1>5. Progress(m.id, off).type = "progress"  BY ProgressFields
  <1>6. /\ toCtl' \in Seq(CtlMsg)
        /\ \A i \in DOMAIN toCtl' :
             (i \in DOMAIN toCtl /\ toCtl'[i] = toCtl[i]) \/ toCtl'[i] = Progress(m.id, off)
    BY <1>0, <1>3, <1>4, SaysOne
  <1>7. \A i \in DOMAIN toCtl' : ~ChunkOf(toCtl'[i], x) /\ ~SuccessOf(toCtl'[i], x)
    BY <1>1, <1>5, <1>6 DEF ChunkOf, SuccessOf
  <1>8. Carries(toCtl', x, off, off)  BY <1>3, <1>6, <1>7, CarriesNothing
  <1>9. off = down[x]
    <2>1. off = m.at \/ off = Size  BY <1>2 DEF Least
    <2>2. m.at \in Nat /\ Size \in Nat  BY <1>2, DownloadCases, Constants
    <2> QED  BY <1>1, <1>2, <1>3, <2>1, <2>2
  <1> QED  BY <1>3, <1>4, <1>8, <1>9 DEF Continues

\* The host's other answers are no part of a download.
LEMMA HostContinues ==
  ASSUME Typed, Ids, StartsFirst, AskedInside, Host, [FtNext]_ftVars,
         NEW x \in Transfer \ spoilt, down[x] # Absent,
         Continues(toCtl, x, down[x], downloads[x])
  PROVE  Continues(toCtl', x, down[x], downloads'[x])
  <1>0. /\ toCtl \in Seq(CtlMsg) /\ toCtl' \in Seq(CtlMsg) /\ 1 \in DOMAIN toHost
        /\ downloads \in [Transfer -> 0 .. Size \cup {Absent}] /\ down[x] \in Nat
    BY TypedFacts, TypedStep, HostTakesOne DEF Typed, FtTypeOK, CtlMsg
  <1>1. CASE toHost[1].id = x /\ toHost[1].type = "download" /\ downloads'[x] # Absent
    BY <1>0, <1>1, DownloadStarts, FailsToOpen
  <1>2. CASE ~(toHost[1].id = x /\ toHost[1].type = "download" /\ downloads'[x] # Absent)
    <2>1. PICK d \in Nat : /\ Carries(toCtl, x, down[x], d)
                           /\ downloads[x] # Absent => d = downloads[x]
      BY DEF Continues
    <2>2. downloads'[x] # Absent => downloads'[x] = downloads[x]
      <3>1. CASE HostDownload
        <4> DEFINE m == Head(toHost)
                   off == Least(m.at, Size)
        <4>1. m = Head(toHost) /\ off = Least(m.at, Size)  OBVIOUS
        <4>2. m = toHost[1] /\ m.type = "download"
          BY <3>1, TypedFacts, HostTakes DEF HostDownload
        <4> HIDE DEF m, off
        <4>3. downloads' = downloads \/ downloads' = [downloads EXCEPT ![m.id] = off]
          BY <3>1, <4>1, DownloadCases
        <4> QED  BY <1>0, <1>2, <4>2, <4>3
      <3>2. CASE HostCancel  BY <1>0, <3>2 DEF HostCancel
      <3> QED  BY <3>1, <3>2 DEF Host, HostUploadStart, HostChunk
    <2>3. ASSUME NEW i \in DOMAIN toCtl'
          PROVE  \/ i \in DOMAIN toCtl /\ toCtl'[i] = toCtl[i]
                 \/ i \notin DOMAIN toCtl /\ ~ChunkOf(toCtl'[i], x) /\ ~SuccessOf(toCtl'[i], x)
      <3>1. CASE Answer(i, toHost[1])
        <4>1. toHost[1].id = x => toHost[1].type \in {"download", "cancel"}
          BY <1>0, QueuedTyped DEF Ids, MessagesHaveRoles, TablesHaveRoles
        <4> QED  BY <3>1, <4>1 DEF Answer, ChunkOf, SuccessOf
      <3> QED  BY <3>1, HostSays
    <2>4. Len(toCtl) <= Len(toCtl')  BY QueueGrows
    <2>5. Carries(toCtl', x, down[x], d)  BY <1>0, <2>1, <2>3, <2>4, CarriesQuiet
    <2> QED  BY <2>1, <2>2, <2>5 DEF Continues
  <1> QED  BY <1>1, <1>2

\* The host sends the next chunk of a download, or its end.
LEMMA PumpContinues ==
  ASSUME Typed, NEW id \in Transfer, HostPump(id), NEW x \in Transfer, [FtNext]_ftVars,
         NEW p \in Nat, Continues(toCtl, x, p, downloads[x])
  PROVE  Continues(toCtl', x, p, downloads'[x])
  <1>0. /\ toCtl \in Seq(CtlMsg) /\ toCtl' \in Seq(CtlMsg) /\ Absent = -1
        /\ downloads \in [Transfer -> 0 .. Size \cup {Absent}] /\ downloads[id] # Absent
    BY TypedFacts, TypedStep, Constants DEF Typed, FtTypeOK, CtlMsg, HostPump
  <1>1. PICK d \in Nat : /\ Carries(toCtl, x, p, d)
                         /\ downloads[x] # Absent => d = downloads[x]
    BY DEF Continues
  <1> DEFINE off == downloads[id]
  <1>o. off = downloads[id]  OBVIOUS
  <1> HIDE DEF off
  <1>2. /\ off \in Nat /\ Chunk(id, off) \in CtlMsg /\ Done(id, TRUE) \in CtlMsg
        /\ Done(id, FALSE) \in CtlMsg
    BY <1>o, PumpCases
  <1>3. CASE id # x
    <2>1. downloads'[x] = downloads[x]
      <3>1. \E v : downloads' = [downloads EXCEPT ![id] = v]  BY DEF HostPump
      <3> QED  BY <1>0, <1>3, <3>1
    <2>2. \A i \in DOMAIN toCtl' :
            \/ i \in DOMAIN toCtl /\ toCtl'[i] = toCtl[i]
            \/ i \notin DOMAIN toCtl /\ ~ChunkOf(toCtl'[i], x) /\ ~SuccessOf(toCtl'[i], x)
      BY <1>3, PumpSays DEF ChunkOf, SuccessOf
    <2>3. Len(toCtl) <= Len(toCtl')  BY QueueGrows
    <2>4. Carries(toCtl', x, p, d)  BY <1>0, <1>1, <2>2, <2>3, CarriesQuiet
    <2> QED  BY <1>1, <2>1, <2>4 DEF Continues
  <1>4. CASE id = x
    <2>1. d = off  BY <1>0, <1>1, <1>4, <1>o
    <2>2. ChunkOf(Chunk(x, off), x) /\ Chunk(x, off).at = off
      BY ChunkFields DEF ChunkOf
    <2>3. SuccessOf(Done(x, TRUE), x) /\ ~ChunkOf(Done(x, TRUE), x)
          /\ ~ChunkOf(Done(x, FALSE), x) /\ ~SuccessOf(Done(x, FALSE), x)
      BY EndFields DEF ChunkOf, SuccessOf
    <2> DEFINE more == Append(toCtl, Chunk(x, off))
    <2>4. /\ more \in Seq(CtlMsg) /\ toCtl \o <<Chunk(x, off)>> = more
          /\ Carries(more, x, p, off + 1) /\ off + 1 \in Nat
      BY <1>0, <1>1, <1>2, <1>4, <2>1, <2>2, AddsLast, CarriesMore
    <2>5. CASE /\ off + 1 >= Size /\ toCtl' = toCtl \o <<Chunk(id, off), Done(id, TRUE)>>
               /\ downloads' = [downloads EXCEPT ![id] = Absent]
      <3> HIDE DEF more
      <3>1. toCtl' = Append(more, Done(x, TRUE))
        <4> DEFINE a == Chunk(x, off)
                   b == Done(x, TRUE)
        <4>1. a \in CtlMsg /\ b \in CtlMsg  BY <1>2, <1>4
        <4>2. toCtl' = toCtl \o <<a, b>>  BY <1>4, <2>5
        <4>3. more = toCtl \o <<a>>  BY <2>4
        <4> HIDE DEF a, b
        <4>4. more = Append(toCtl, a)  BY <1>0, <4>1, <4>3, AddsLast
        <4>5. toCtl' = Append(more, b)  BY <1>0, <4>1, <4>2, <4>4, TwoInTurn
        <4> QED  BY <4>5 DEF b
      <3>2. Size <= off + 1  BY <1>2, <2>5, Constants
      <3>3. Carries(Append(more, Done(x, TRUE)), x, p, off + 1)
        BY <1>2, <1>4, <2>3, <2>4, <3>2, CarriesMore
      <3>4. downloads'[x] = Absent  BY <1>0, <1>4, <2>5
      <3> QED  BY <1>1, <2>4, <3>1, <3>3, <3>4 DEF Continues
    <2>6. CASE /\ toCtl' = toCtl \o <<Chunk(id, off)>>
               /\ downloads' = [downloads EXCEPT ![id] = off + 1]
      <3>1. downloads'[x] = off + 1 /\ toCtl' = more  BY <1>0, <1>4, <2>4, <2>6
      <3> HIDE DEF more
      <3> QED  BY <1>1, <2>4, <3>1 DEF Continues
    <2>7. CASE /\ off >= Size /\ toCtl' = toCtl \o <<Done(id, TRUE)>>
               /\ downloads' = [downloads EXCEPT ![id] = Absent]
      <3>1. toCtl' = Append(toCtl, Done(x, TRUE)) /\ downloads'[x] = Absent
        <4>1. downloads'[x] = Absent  BY <1>0, <1>4, <2>7
        <4> DEFINE b == Done(x, TRUE)
        <4>2. b \in CtlMsg  BY <1>2, <1>4
        <4>3. toCtl' = toCtl \o <<b>>  BY <1>4, <2>7
        <4> HIDE DEF b
        <4>4. toCtl' = Append(toCtl, b)  BY <1>0, <4>2, <4>3, AddsLast
        <4> QED  BY <4>1, <4>4 DEF b
      <3>2. Size <= d  BY <1>2, <2>1, <2>7, Constants
      <3>3. Carries(Append(toCtl, Done(x, TRUE)), x, p, d)
        BY <1>0, <1>1, <1>2, <1>4, <2>3, <3>2, CarriesMore
      <3> QED  BY <1>1, <3>1, <3>3 DEF Continues
    <2>8. CASE /\ toCtl' = toCtl \o <<Done(id, FALSE)>>
               /\ downloads' = [downloads EXCEPT ![id] = Absent]
      <3>1. toCtl' = Append(toCtl, Done(x, FALSE)) /\ downloads'[x] = Absent
        <4>1. downloads'[x] = Absent  BY <1>0, <1>4, <2>8
        <4> DEFINE b == Done(x, FALSE)
        <4>2. b \in CtlMsg  BY <1>2, <1>4
        <4>3. toCtl' = toCtl \o <<b>>  BY <1>4, <2>8
        <4> HIDE DEF b
        <4>4. toCtl' = Append(toCtl, b)  BY <1>0, <4>2, <4>3, AddsLast
        <4> QED  BY <4>1, <4>4 DEF b
      <3>2. Carries(Append(toCtl, Done(x, FALSE)), x, p, d)
        BY <1>0, <1>1, <1>2, <1>4, <2>3, CarriesMore
      <3> QED  BY <1>1, <3>1, <3>2 DEF Continues
    <2> QED  BY <1>o, <2>5, <2>6, <2>7, <2>8, PumpCases
  <1> QED  BY <1>3, <1>4

\* The controller takes the next chunk of a download, and writes it.
LEMMA ReceiveContinues ==
  ASSUME Typed, Receive, NEW x \in Transfer, x \notin spoilt', down'[x] # Absent,
         down[x] # Absent => Continues(toCtl, x, down[x], downloads[x])
  PROVE  Continues(toCtl', x, down'[x], downloads'[x])
  <1> DEFINE m == Head(toCtl)
  <1>1. m = Head(toCtl)  OBVIOUS
  <1> HIDE DEF m
  <1>0. /\ toCtl \in Seq(CtlMsg) /\ toCtl # <<>> /\ toCtl' = Tail(toCtl)
        /\ downloads' = downloads /\ down[x] \in Nat \cup {Absent} /\ Absent = -1
        /\ Size \in Nat
    BY <1>1, TypedFacts, DownReceived, Constants
  <1>2. /\ down[x] # Absent
        /\ \/ ChunkOf(m, x) /\ down'[x] = down[x] + 1
           \/ ~ChunkOf(m, x) /\ down'[x] = down[x]
    BY <1>1, DownReceived
  <1>3. PICK d \in Nat : /\ Carries(toCtl, x, down[x], d)
                         /\ downloads[x] # Absent => d = downloads[x]
    BY <1>2 DEF Continues
  <1> DEFINE c == down[x]
  <1>c. c \in Nat /\ c = down[x] /\ Carries(toCtl, x, c, d)  BY <1>0, <1>2, <1>3
  <1> HIDE DEF c
  <1>4. CASE ChunkOf(m, x) /\ down'[x] = down[x] + 1
    <2>1. Carries(Tail(toCtl), x, c + 1, d)  BY <1>0, <1>1, <1>c, <1>4, CarriesOn
    <2> QED  BY <1>0, <1>3, <1>c, <1>4, <2>1 DEF Continues
  <1>5. CASE ~ChunkOf(m, x) /\ down'[x] = down[x]
    <2>1. Carries(Tail(toCtl), x, c, d)  BY <1>0, <1>1, <1>c, <1>5, CarriesOn
    <2> QED  BY <1>0, <1>3, <1>c, <1>5, <2>1 DEF Continues
  <1> QED  BY <1>2, <1>4, <1>5

LEMMA DownloadsInOrderStep ==
  ASSUME Typed, Ids, StartsFirst, AskedInside, DownloadsInOrder, [FtNext]_ftVars
  PROVE  DownloadsInOrder'
  <1> SUFFICES ASSUME NEW x \in Transfer, x \notin spoilt', down'[x] # Absent
               PROVE  Continues(toCtl', x, down'[x], downloads'[x])
    BY DEF DownloadsInOrder
  <1>0. /\ toCtl \in Seq(CtlMsg) /\ Absent = -1 /\ Len(localFile) \in Nat /\ Size \in Nat
        /\ down \in [Transfer -> Nat \cup {Absent}] /\ x \notin spoilt
    BY TypedFacts, Constants, SpoiltStay
  <1>1. CASE FsDownload(x)
    <2>1. /\ \A i \in DOMAIN toCtl : toCtl[i].id # x
          /\ toCtl' = toCtl /\ downloads'[x] = Absent
      BY <1>1, NewTransfer DEF Untouched
    <2>2. down'[x] = Len(localFile)  BY <1>0, <1>1 DEF FsDownload
    <2>3. Carries(toCtl, x, Len(localFile), Len(localFile))
      BY <1>0, <2>1, CarriesNothing DEF ChunkOf, SuccessOf
    <2> QED  BY <1>0, <2>1, <2>2, <2>3 DEF Continues
  <1>2. CASE Host
    <2>1. UNCHANGED down  BY <1>2, HostTakesOne
    <2> QED  BY <1>0, <1>2, <2>1, HostContinues DEF DownloadsInOrder
  <1>3. ASSUME NEW id \in Transfer, HostPump(id)
        PROVE  Continues(toCtl', x, down'[x], downloads'[x])
    <2>1. UNCHANGED down  BY <1>3 DEF HostPump, HostOnly
    <2>2. down[x] \in Nat /\ Continues(toCtl, x, down[x], downloads[x])
      BY <1>0, <2>1 DEF DownloadsInOrder
    <2> QED  BY <1>3, <2>1, <2>2, PumpContinues
  <1>4. CASE Receive  BY <1>0, <1>4, ReceiveContinues DEF DownloadsInOrder
  <1>5. CASE SessionEnds
    <2>1. /\ UNCHANGED down /\ downloads'[x] = Absent
          /\ \E n \in 0 .. Len(toCtl) : toCtl' = SubSeq(toCtl, 1, n)
      BY <1>5 DEF SessionEnds
    <2>2. PICK n \in 0 .. Len(toCtl) : toCtl' = SubSeq(toCtl, 1, n)  BY <2>1
    <2>3. down[x] \in Nat /\ \E d \in Nat : Carries(toCtl, x, down[x], d)
      BY <1>0, <2>1 DEF DownloadsInOrder, Continues
    <2>4. \E e \in Nat : Carries(toCtl', x, down[x], e)  BY <1>0, <2>2, <2>3, CarriesAtFirst
    <2> QED  BY <2>1, <2>4 DEF Continues
  <1>6. CASE /\ ~FsDownload(x) /\ ~Host /\ ~Receive /\ ~SessionEnds
             /\ \A id \in Transfer : ~HostPump(id)
    <2>1. down'[x] = down[x]  BY <1>6, DownOtherwise
    <2>2. UNCHANGED toCtl  BY <1>6, OtherSteps
    <2>3. UNCHANGED downloads
      BY <1>6 DEF FtNext, FtCommands, ftVars, tables, FsDownload, FsUpload, FsCancel, UploadThread,
                  ThreadGivesUp, ThreadStarts, ThreadChecks, ThreadSends, ThreadOnly, Connects
    <2> QED  BY <1>0, <2>1, <2>2, <2>3 DEF DownloadsInOrder
  <1> QED  BY <1>1, <1>2, <1>3, <1>4, <1>5, <1>6

-----------------------------------------------------------------------------
\* A download's success is believed when the local file has all its chunks, or it was spoilt.
DownloadsComplete ==
  \A x \in Transfer \ (cancelled \cup spoilt) :
    told[x] = "ok" /\ ~IsUpload(x) => Size <= Len(localFile)

LEMMA DownloadsCompleteStep ==
  ASSUME Typed, Ids, DownloadsBehind, EndsOnce, DownloadsInOrder, DownloadsComplete,
         [FtNext]_ftVars
  PROVE  DownloadsComplete'
  <1> SUFFICES ASSUME NEW x \in Transfer, x \notin cancelled', x \notin spoilt',
                      told'[x] = "ok", thread'[x].pc = "none"
               PROVE  Size <= Len(localFile')
    BY DEF DownloadsComplete, IsUpload
  <1>0. /\ Len(localFile) \in Nat /\ Len(localFile') \in Nat /\ Len(localFile) <= Len(localFile')
        /\ Size \in Nat /\ toCtl \in Seq(CtlMsg)
        /\ down[x] \in Nat \cup {Absent} /\ x \notin cancelled /\ x \notin spoilt
    BY TypedFacts, LocalGrows, CancelsStay, SpoiltStay
  <1>1. ~IsUpload(x)
    <2>1. thread'[x].pc = "none" => ~IsUpload(x)  BY RolesStay DEF Ids, IsUpload
    <2> QED  BY <2>1
  <1>2. CASE told[x] = "ok"
    <2>1. Size <= Len(localFile)  BY <1>0, <1>1, <1>2 DEF DownloadsComplete
    <2> QED  BY <1>0, <2>1
  <1>3. CASE /\ Receive /\ 1 \in DOMAIN toCtl /\ toCtl[1].id = x /\ toCtl[1].type = "ok"
    <2>1. down[x] # Absent
      <3>1. EndOf(toCtl[1], x)  BY <1>3 DEF EndOf
      <3> QED  BY <1>0, <1>1, <1>3, <3>1 DEF EndsOnce
    <2>2. down[x] \in Nat /\ \E d \in Nat : Carries(toCtl, x, down[x], d)
      BY <1>0, <2>1 DEF DownloadsInOrder, Continues
    <2>3. toCtl # <<>> /\ SuccessOf(Head(toCtl), x)
      <3>1. toCtl # <<>>  BY <1>3 DEF Receive
      <3>2. Head(toCtl) = toCtl[1]  BY <1>0, <3>1, TakesFirst
      <3> QED  BY <1>3, <3>1, <3>2 DEF SuccessOf
    <2>4. Size <= down[x]
      <3>1. ~ChunkOf(Head(toCtl), x)  BY <2>3 DEF ChunkOf, SuccessOf
      <3> QED  BY <1>0, <2>2, <2>3, <3>1, CarriesOn
    <2>5. down[x] <= Len(localFile)  BY <2>1 DEF DownloadsBehind
    <2> QED  BY <1>0, <2>2, <2>4, <2>5
  <1> QED  BY <1>2, <1>3, ControllerTablesFrom

(***************************************************************************)
(* What the inductive invariant of downloads consists of.                  *)
(***************************************************************************)
Downloads ==
  StartsFirst /\ AskedInside /\ AskedFor /\ EndsOnce /\ DownloadsBehind /\ DownloadsInOrder

LEMMA DownloadsStep ==
  ASSUME Typed, Ids, Downloads, [FtNext]_ftVars
  PROVE  Downloads'
  <1> USE DEF Downloads
  <1>1. StartsFirst'  BY StartsFirstStep
  <1>2. AskedFor'  BY AskedForStep
  <1>3. EndsOnce'  BY EndsOnceStep
  <1>4. DownloadsBehind'  BY DownloadsBehindStep
  <1>5. DownloadsInOrder'  BY DownloadsInOrderStep
  <1>6. AskedInside'  BY AskedInsideStep
  <1> QED  BY <1>1, <1>2, <1>3, <1>4, <1>5, <1>6

LEMMA DownloadsInit ==
  ASSUME FtInit
  PROVE  Downloads /\ DownloadsComplete /\ UploadsComplete
  <1>1. DOMAIN toHost = {} /\ DOMAIN toCtl = {}  BY DEF FtInit
  <1>2. /\ \A x \in Transfer : /\ down[x] = Absent /\ downloads[x] = Absent
                               /\ told[x] = "nothing"
    BY DEF FtInit
  <1> QED
    BY <1>1, <1>2
    DEF Downloads, StartsFirst, AskedInside, AskedFor, EndsOnce, DownloadsBehind, DownloadsInOrder,
        DownloadsComplete, UploadsComplete

(***************************************************************************)
(* The panel is told that a transfer succeeded only when the file has all  *)
(* its chunks (DoneMeansComplete; fs.rs on the host says the end, lib.rs   *)
(* passes it on), unless it is a download that was cancelled or spoilt.    *)
(* Nothing is assumed about which calls fail: of a download without a      *)
(* failed write of its own the success means what it says, whatever became *)
(* of the others.                                                          *)
(***************************************************************************)
THEOREM SuccessMeansComplete == FtSpec => []DoneMeansComplete
  <1> DEFINE Inv == Typed /\ Ids /\ UploadsComplete /\ Downloads /\ DownloadsComplete
  <1>1. FtInit => Inv  BY TypedInit, IdsInit, DownloadsInit
  <1>2. Inv /\ [FtNext]_ftVars => Inv'
    <2> SUFFICES ASSUME Inv, [FtNext]_ftVars PROVE Inv'
      OBVIOUS
    <2>1. Typed' /\ Ids' /\ UploadsComplete'  BY TypedStep, IdsStep, UploadsCompleteStep
    <2>2. Downloads'  BY DownloadsStep
    <2>3. DownloadsComplete'  BY DownloadsCompleteStep DEF Downloads
    <2> QED  BY <2>1, <2>2, <2>3
  <1>3. Inv => DoneMeansComplete
    <2> SUFFICES ASSUME Inv, NEW x \in Transfer \ (cancelled \cup spoilt), told[x] = "ok"
                 PROVE  Len(IF IsUpload(x) THEN remoteFile ELSE localFile) >= Size
      BY DEF DoneMeansComplete
    <2>0. Len(localFile) \in Nat /\ Len(remoteFile) \in Nat /\ Size \in Nat  BY TypedFacts
    <2>1. CASE IsUpload(x)  BY <2>0, <2>1 DEF UploadsComplete
    <2>2. CASE ~IsUpload(x)  BY <2>0, <2>2 DEF DownloadsComplete
    <2> QED  BY <2>1, <2>2
  <1> HIDE DEF Inv
  <1> QED  BY <1>1, <1>2, <1>3, PTL DEF FtSpec

-----------------------------------------------------------------------------
\* As long as no download was spoilt, a chunk is written where it belongs.
LocalKept == spoilt = {} => LocalIntact

LEMMA LocalKeptStep ==
  ASSUME Typed, DownloadsBehind, DownloadsInOrder, LocalKept, [FtNext]_ftVars
  PROVE  LocalKept'
  <1> SUFFICES ASSUME spoilt' = {} PROVE LocalIntact'
    BY DEF LocalKept
  <1>0. spoilt = {} /\ LocalIntact
    <2>1. spoilt \subseteq spoilt'  BY SpoiltStay
    <2> QED  BY <2>1 DEF LocalKept
  <1>1. CASE UNCHANGED localFile  BY <1>0, <1>1 DEF LocalIntact
  <1>2. ASSUME NEW x \in Transfer, Receive, ChunkOf(Head(toCtl), x), down[x] # Absent,
               localFile' = Written(localFile, down[x], Head(toCtl).at + 1)
        PROVE  LocalIntact'
    <2> DEFINE m == Head(toCtl)
    <2>0. /\ m = toCtl[1] /\ 1 \in DOMAIN toCtl /\ toCtl # <<>> /\ toCtl \in Seq(CtlMsg)
          /\ m.at \in Nat
      BY <1>2, TypedFacts, ControllerTakes DEF Receive
    <2>1. down[x] \in Nat /\ \E d \in Nat : Carries(toCtl, x, down[x], d)
      BY <1>0, <1>2, TypedFacts DEF DownloadsInOrder, Continues
    <2>2. m.at = down[x]  BY <1>2, <2>0, <2>1, CarriesOn
    <2>3. m.at <= Len(localFile)  BY <1>2, <2>2 DEF DownloadsBehind
    <2>4. localFile \in Seq(Nat) /\ \A i \in DOMAIN localFile : localFile[i] = i
      BY <1>0, TypedFacts DEF LocalIntact
    <2>5. localFile' = Written(localFile, m.at, m.at + 1)  BY <1>2, <2>2
    <2> HIDE DEF m
    <2>6. \A i \in DOMAIN Written(localFile, m.at, m.at + 1) :
            Written(localFile, m.at, m.at + 1)[i] = i
      BY <2>0, <2>3, <2>4, WrittenIntact
    <2> QED  BY <2>5, <2>6 DEF LocalIntact
  <1> QED  BY <1>1, <1>2, LocalFrom

(***************************************************************************)
(* A file that transfers write to holds the right chunk at every place     *)
(* (FilesIntact), whatever fails: the one that uploads write to always,    *)
(* and the one that downloads write to until one of them is spoilt.  No    *)
(* length is assumed of the sources.                                       *)
(***************************************************************************)
THEOREM TransfersStayIntact == FtSpec => []FilesIntact
  <1> DEFINE Inv == Typed /\ Ids /\ Downloads /\ LocalKept
  <1>1. FtInit => Inv
    <2> SUFFICES ASSUME FtInit PROVE Inv
      OBVIOUS
    <2>1. LocalKept  BY EmptySeq DEF FtInit, LocalKept, LocalIntact
    <2> QED  BY <2>1, TypedInit, IdsInit, DownloadsInit
  <1>2. Inv /\ [FtNext]_ftVars => Inv'
    <2> SUFFICES ASSUME Inv, [FtNext]_ftVars PROVE Inv'
      OBVIOUS
    <2>1. Typed' /\ Ids'  BY TypedStep, IdsStep
    <2>2. Downloads'  BY DownloadsStep
    <2>3. LocalKept'  BY LocalKeptStep DEF Downloads
    <2> QED  BY <2>1, <2>2, <2>3
  <1>3. Inv => LocalKept  OBVIOUS
  <1>4. LocalKept /\ RemoteIntact => FilesIntact  BY DEF FilesIntact, LocalKept
  <1> HIDE DEF Inv
  <1> QED  BY <1>1, <1>2, <1>3, <1>4, UploadsStayIntact, PTL DEF FtSpec

-----------------------------------------------------------------------------
(***************************************************************************)
(* The promises of FileCopy.  The one that needs an invariant of its own   *)
(* is that a transfer has one end: once its end has been said, nothing is  *)
(* left in the tables or on its way that could cause another.              *)
(***************************************************************************)
Asked(x) == \E i \in DOMAIN toHost : toHost[i].id = x /\ toHost[i].type \in {"upload", "download"}

MayEnd(x) == uploads[x] # Absent \/ downloads[x] # Absent \/ Asked(x)

EndSaid(x) == told[x] # "nothing" \/ \E i \in DOMAIN toCtl : EndOf(toCtl[i], x)

ToldOnce ==
  \A x \in Transfer :
    /\ EndSaid(x) => ~MayEnd(x)
    /\ told[x] # "nothing" => down[x] = Absent /\ \A i \in DOMAIN toCtl : ~EndOf(toCtl[i], x)
    /\ \A i, j \in DOMAIN toCtl : EndOf(toCtl[i], x) /\ EndOf(toCtl[j], x) => i = j
    /\ Asked(x) => uploads[x] = Absent
    /\ x \in cancelled => down[x] = Absent /\ ~(x > nextId)

\* Nothing but a command of the panel begins what may end.
LEMMA MayEndFrom ==
  ASSUME Typed, Ids, [FtNext]_ftVars, NEW x \in Transfer, MayEnd(x)'
  PROVE  MayEnd(x) \/ FsDownload(x) \/ FsUpload(x)
  <1>1. CASE uploads'[x] # Absent  BY <1>1, UploadsFrom DEF MayEnd, Asked
  <1>2. CASE downloads'[x] # Absent  BY <1>2, DownloadsFrom DEF MayEnd, Asked
  <1>3. CASE Asked(x)'
    <2>1. PICK i \in DOMAIN toHost' : /\ toHost'[i].id = x
                                      /\ toHost'[i].type \in {"upload", "download"}
      BY <1>3 DEF Asked
    <2>2. ASSUME NEW j \in DOMAIN toHost, toHost'[i] = toHost[j] PROVE Asked(x)
      BY <2>1, <2>2 DEF Asked
    <2>3. ASSUME NEW id \in Transfer, Request(id, toHost'[i]) PROVE FsDownload(x) \/ FsUpload(x)
      BY <2>1, <2>3 DEF Request
    <2> QED  BY <2>2, <2>3, ToHostFrom DEF MayEnd
  <1> QED  BY <1>1, <1>2, <1>3 DEF MayEnd

\* Of a transfer whose request is on its way nothing else is.
LEMMA AskedAlone ==
  ASSUME Typed, Ids, StartsFirst, ToldOnce, NEW i \in DOMAIN toHost, NEW x \in Transfer,
         toHost[i].id = x, toHost[i].type \in {"upload", "download"}
  PROVE  /\ Asked(x) /\ MayEnd(x) /\ uploads[x] = Absent /\ downloads[x] = Absent
         /\ \A j \in DOMAIN toHost : j # i /\ toHost[j].id = x => toHost[j].type = "cancel"
  <1>1. Asked(x) /\ MayEnd(x)  BY DEF Asked, MayEnd
  <1>2. NotStarted(i)  BY DEF StartsFirst
  <1> QED  BY <1>1, <1>2 DEF NotStarted, ToldOnce

\* An end that is said is that of a transfer that could end, and now no longer can.
LEMMA HostSaysEnd ==
  ASSUME Typed, Ids, StartsFirst, ToldOnce, [FtNext]_ftVars, Host, NEW x \in Transfer,
         NEW i \in DOMAIN toCtl', i \notin DOMAIN toCtl, EndOf(toCtl'[i], x)
  PROVE  MayEnd(x) /\ ~MayEnd(x)' /\ i = Len(toCtl')
  <1> DEFINE m == toHost[1]
  <1>1. Answer(i, m)  BY HostSays
  <1>2. /\ m.id = x /\ m.type # "cancel" /\ i = Len(toCtl')
        /\ toCtl'[i].type \in {"ok", "failed"}
    BY <1>1 DEF Answer, EndOf
  <1>3. /\ 1 \in DOMAIN toHost /\ m.type \in {"upload", "download", "chunk"}
        /\ \A k \in DOMAIN toHost' : k + 1 \in DOMAIN toHost /\ k + 1 # 1 /\ toHost'[k] = toHost[k + 1]
    BY <1>2, HostTakesOne, QueuedTyped
  <1>4. toHost \in Seq(HostMsg) /\ toCtl \in Seq(CtlMsg)  BY TypedFacts
  <1>5. ASSUME m.type \in {"upload", "download"}
        PROVE  MayEnd(x) /\ ~Asked(x)' /\ uploads[x] = Absent /\ downloads[x] = Absent
    <2>1. /\ MayEnd(x) /\ uploads[x] = Absent /\ downloads[x] = Absent
          /\ \A j \in DOMAIN toHost : j # 1 /\ toHost[j].id = x => toHost[j].type = "cancel"
      BY <1>2, <1>3, <1>5, AskedAlone
    <2> QED  BY <1>3, <2>1 DEF Asked
  <1>6. CASE m.type = "download"
    <2>1. UNCHANGED downloads  BY <1>2, <1>3, <1>6, FailsToOpen
    <2>2. uploads'[x] = Absent  BY <1>5, <1>6, UploadsFrom
    <2> QED  BY <1>2, <1>5, <1>6, <2>1, <2>2 DEF MayEnd
  <1>7. CASE m.type = "upload"
    <2>1. HostUploadStart
      <3>1. \A type : Takes(type) => m.type = type  BY <1>4, HostTakes
      <3> QED  BY <1>7, <3>1 DEF Host, HostChunk, HostDownload, HostCancel
    <2>2. downloads'[x] = Absent  BY <1>5, <1>7, DownloadsFrom
    <2>3. UNCHANGED uploads
      <3> DEFINE h == Head(toHost)
      <3> DEFINE e == ExistingFile(h)
      <3>1. h = Head(toHost) /\ e = ExistingFile(h)  OBVIOUS
      <3> HIDE DEF h, e
      <3>2. /\ e \in Nat /\ h.id \in Transfer /\ Progress(h.id, e) \in CtlMsg
            /\ \/ UNCHANGED uploads
               \/ toCtl' = toCtl \o <<Progress(h.id, e)>>
        BY <2>1, <3>1, UploadStartCases
      <3>3. ASSUME toCtl' = toCtl \o <<Progress(h.id, e)>> PROVE FALSE
        <4>1. toCtl'[i] = Progress(h.id, e)  BY <1>4, <3>2, <3>3, SaysOne
        <4>2. toCtl'[i].type = "progress"  BY <4>1, ProgressFields
        <4> QED  BY <1>2, <4>2
      <3> QED  BY <3>2, <3>3
    <2> QED  BY <1>2, <1>5, <1>7, <2>2, <2>3 DEF MayEnd
  <1>8. CASE m.type = "chunk"
    <2>1. HostChunk
      <3>1. \A type : Takes(type) => m.type = type  BY <1>4, HostTakes
      <3> QED  BY <1>8, <3>1 DEF Host, HostUploadStart, HostDownload, HostCancel
    <2>2. uploads[x] # Absent /\ uploads'[x] = Absent
      <3> DEFINE h == Head(toHost)
      <3> DEFINE n == h.at + 1
      <3>1. h = Head(toHost) /\ n = h.at + 1  OBVIOUS
      <3>0. h = m  BY <1>4, <2>1, HostTakes DEF HostChunk
      <3> HIDE DEF h, n
      <3>2. /\ h.id \in Transfer /\ h.at \in Nat /\ n \in Nat
            /\ Progress(h.id, n) \in CtlMsg /\ Done(h.id, TRUE) \in CtlMsg
        BY <2>1, <3>1, ChunkCases
      <3>3. \/ /\ uploads[h.id] = h.at /\ uploads' = [uploads EXCEPT ![h.id] = Entry(n)]
               /\ n >= Size
            \/ toCtl' = toCtl
            \/ toCtl' = toCtl \o <<Progress(h.id, n)>>
        BY <2>1, <3>1, ChunkCases
      <3>4. ASSUME toCtl' = toCtl \o <<Progress(h.id, n)>> PROVE FALSE
        <4>1. toCtl'[i] = Progress(h.id, n)  BY <1>4, <3>2, <3>4, SaysOne
        <4>2. toCtl'[i].type = "progress"  BY <4>1, ProgressFields
        <4> QED  BY <1>2, <4>2
      <3>5. toCtl' # toCtl  OBVIOUS
      <3>6. /\ uploads[h.id] = h.at /\ uploads' = [uploads EXCEPT ![h.id] = Entry(n)]
            /\ Entry(n) = Absent
        BY <3>3, <3>4, <3>5 DEF Entry
      <3>7. uploads \in [Transfer -> 0 .. Size - 1 \cup {Absent}] /\ h.id = x
        BY <1>2, <3>0, TypedFacts
      <3> QED  BY <3>2, <3>6, <3>7, Constants
    <2>3. downloads'[x] = Absent
      <3>1. downloads[x] = Absent  BY <2>2 DEF Ids, TablesHaveRoles
      <3> QED  BY <1>8, <3>1, DownloadsFrom
    <2>4. ~Asked(x)'
      <3>1. ~Asked(x)  BY <2>2 DEF ToldOnce
      <3> QED  BY <1>3, <3>1 DEF Asked
    <2> QED  BY <1>2, <2>2, <2>3, <2>4 DEF MayEnd
  <1> QED  BY <1>3, <1>6, <1>7, <1>8

LEMMA NewEnd ==
  ASSUME Typed, Ids, StartsFirst, ToldOnce, [FtNext]_ftVars, NEW x \in Transfer,
         NEW i \in DOMAIN toCtl', ~(i \in DOMAIN toCtl /\ toCtl'[i] = toCtl[i]),
         ~Receive, EndOf(toCtl'[i], x)
  PROVE  MayEnd(x) /\ ~MayEnd(x)' /\ i = Len(toCtl') /\ i \notin DOMAIN toCtl
  <1>1. CASE Host
    <2>1. i \notin DOMAIN toCtl  BY <1>1, HostSays DEF Answer
    <2> QED  BY <1>1, <2>1, HostSaysEnd
  <1>2. ASSUME NEW id \in Transfer, HostPump(id)
        PROVE  MayEnd(x) /\ ~MayEnd(x)' /\ i = Len(toCtl') /\ i \notin DOMAIN toCtl
    <2>1. /\ i \notin DOMAIN toCtl /\ id = x /\ i = Len(toCtl')
          /\ toCtl'[i].type \in {"ok", "failed"}
      BY <1>2, PumpSays DEF EndOf
    <2>2. downloads[x] # Absent /\ UNCHANGED <<uploads, toHost>>
      BY <1>2, <2>1 DEF HostPump
    <2>3. downloads'[x] = Absent  BY <1>2, <2>1, PumpEnds
    <2>4. uploads[x] = Absent  BY <2>2 DEF Ids, TablesHaveRoles
    <2>5. ~Asked(x)  BY <2>2, AskedAlone DEF Asked
    <2> QED  BY <2>1, <2>2, <2>3, <2>4, <2>5 DEF MayEnd, Asked
  <1>3. CASE ~Host /\ \A id \in Transfer : ~HostPump(id)
    BY <1>3, OtherSteps
  <1> QED  BY <1>1, <1>2, <1>3

\* What has been said stays said, and what the panel is told was on its way.
LEMMA EndSaidFrom ==
  ASSUME Typed, Ids, StartsFirst, ToldOnce, [FtNext]_ftVars, NEW x \in Transfer, EndSaid(x)'
  PROVE  EndSaid(x) \/ (MayEnd(x) /\ ~MayEnd(x)')
  <1>1. CASE told'[x] # "nothing"
    <2>1. CASE told'[x] = told[x]  BY <1>1, <2>1 DEF EndSaid
    <2>2. CASE 1 \in DOMAIN toCtl /\ EndOf(toCtl[1], x)  BY <2>2 DEF EndSaid
    <2> QED  BY <2>1, <2>2, ControllerTablesFrom DEF EndOf
  <1>2. ASSUME NEW i \in DOMAIN toCtl', EndOf(toCtl'[i], x)
        PROVE  EndSaid(x) \/ (MayEnd(x) /\ ~MayEnd(x)')
    <2>1. CASE i \in DOMAIN toCtl /\ toCtl'[i] = toCtl[i]  BY <1>2, <2>1 DEF EndSaid
    <2>2. CASE Receive
      <3>1. toCtl \in Seq(CtlMsg) /\ toCtl # <<>> /\ toCtl' = Tail(toCtl)
        BY <2>2, TypedFacts DEF Receive
      <3>2. i + 1 \in DOMAIN toCtl /\ toCtl'[i] = toCtl[i + 1]  BY <3>1, ControllerTakes
      <3> QED  BY <1>2, <3>2 DEF EndSaid
    <2> QED  BY <1>2, <2>1, <2>2, NewEnd
  <1> QED  BY <1>1, <1>2 DEF EndSaid

LEMMA ToldOnceStep ==
  ASSUME Typed, Ids, StartsFirst, ToldOnce, [FtNext]_ftVars
  PROVE  ToldOnce'
  <1> SUFFICES ASSUME NEW x \in Transfer
               PROVE  /\ EndSaid(x)' => ~MayEnd(x)'
                      /\ told'[x] # "nothing" =>
                           down'[x] = Absent /\ \A i \in DOMAIN toCtl' : ~EndOf(toCtl'[i], x)
                      /\ \A i, j \in DOMAIN toCtl' :
                           EndOf(toCtl'[i], x) /\ EndOf(toCtl'[j], x) => i = j
                      /\ Asked(x)' => uploads'[x] = Absent
                      /\ x \in cancelled' => down'[x] = Absent /\ ~(x > nextId')
    BY DEF ToldOnce
  <1>0. EndSaid(x) => ~MayEnd(x)  BY DEF ToldOnce
  <1>n. ASSUME FsDownload(x) \/ FsUpload(x)
        PROVE  /\ told[x] = "nothing" /\ ~EndSaid(x) /\ x \notin cancelled /\ uploads'[x] = Absent
               /\ told' = told /\ cancelled' = cancelled
    <2>1. Untouched(x) /\ \A i \in DOMAIN toCtl : toCtl[i].id # x  BY <1>n, NewTransfer
    <2>2. x > nextId  BY <1>n, NumbersGrow, TypedFacts DEF Ids
    <2>3. x \notin cancelled  BY <2>2 DEF ToldOnce
    <2>4. UNCHANGED <<told, cancelled, uploads>>  BY <1>n DEF FsDownload, FsUpload
    <2> QED  BY <2>1, <2>3, <2>4 DEF Untouched, EndSaid, EndOf
  <1>r. ASSUME Receive
        PROVE  \A i \in DOMAIN toCtl' :
                 i \in Nat /\ i + 1 \in DOMAIN toCtl /\ i + 1 # 1 /\ toCtl'[i] = toCtl[i + 1]
    <2>1. toCtl \in Seq(CtlMsg) /\ toCtl # <<>> /\ toCtl' = Tail(toCtl)
      BY <1>r, TypedFacts DEF Receive
    <2> QED  BY <2>1, ControllerTakes
  <1>1. ASSUME EndSaid(x)', MayEnd(x)' PROVE FALSE
    <2>1. EndSaid(x)  BY <1>1, EndSaidFrom
    <2> QED  BY <1>0, <1>1, <1>n, <2>1, MayEndFrom
  <1>2. ASSUME told'[x] # "nothing"
        PROVE  down'[x] = Absent /\ \A i \in DOMAIN toCtl' : ~EndOf(toCtl'[i], x)
    <2>1. CASE told'[x] = told[x]
      <3>1. down[x] = Absent /\ \A i \in DOMAIN toCtl : ~EndOf(toCtl[i], x)
        BY <1>2, <2>1 DEF ToldOnce
      <3>2. ~MayEnd(x)  BY <1>0, <1>2, <2>1 DEF EndSaid
      <3>3. down'[x] = Absent  BY <1>2, <1>n, <2>1, <3>1, ControllerTablesFrom
      <3>4. ASSUME NEW i \in DOMAIN toCtl', EndOf(toCtl'[i], x) PROVE FALSE
        <4>1. CASE Receive  BY <1>r, <3>1, <3>4, <4>1
        <4>2. CASE ~Receive  BY <3>1, <3>2, <3>4, <4>2, NewEnd
        <4> QED  BY <4>1, <4>2
      <3> QED  BY <3>3, <3>4
    <2>2. CASE Receive /\ 1 \in DOMAIN toCtl /\ EndOf(toCtl[1], x)
      <3>1. \A j \in DOMAIN toCtl : EndOf(toCtl[j], x) => j = 1  BY <2>2 DEF ToldOnce
      <3>2. \A i \in DOMAIN toCtl' : ~EndOf(toCtl'[i], x)  BY <1>r, <2>2, <3>1
      <3>3. down'[x] = Absent
        <4> DEFINE m == Head(toCtl)
        <4>0. m = Head(toCtl)  OBVIOUS
        <4> HIDE DEF m
        <4>1. m = toCtl[1]  BY <2>2, <4>0, DownReceived
        <4>2. EndOf(m, x)  BY <2>2, <4>1
        <4>3. ~ChunkOf(m, x)  BY <4>2 DEF EndOf, ChunkOf
        <4> QED  BY <2>2, <4>0, <4>2, <4>3, DownReceived
      <3> QED  BY <3>2, <3>3
    <2> QED  BY <2>1, <2>2, ControllerTablesFrom DEF EndOf
  <1>3. ASSUME NEW i \in DOMAIN toCtl', NEW j \in DOMAIN toCtl', EndOf(toCtl'[i], x),
               EndOf(toCtl'[j], x)
        PROVE  i = j
    <2>1. \A k, l \in DOMAIN toCtl : EndOf(toCtl[k], x) /\ EndOf(toCtl[l], x) => k = l
      BY DEF ToldOnce
    <2>2. CASE Receive
      <3>1. /\ i \in Nat /\ j \in Nat /\ i + 1 \in DOMAIN toCtl /\ j + 1 \in DOMAIN toCtl
            /\ EndOf(toCtl[i + 1], x) /\ EndOf(toCtl[j + 1], x)
        BY <1>3, <1>r, <2>2
      <3>2. i + 1 = j + 1  BY <2>1, <3>1
      <3> QED  BY <3>1, <3>2
    <2>3. CASE ~Receive
      <3> DEFINE Old(k) == k \in DOMAIN toCtl /\ toCtl'[k] = toCtl[k]
      <3>1. ASSUME NEW k \in {i, j}, Old(k) PROVE ~MayEnd(x)
        BY <1>0, <1>3, <3>1 DEF EndSaid
      <3>2. ASSUME NEW k \in {i, j}, ~Old(k) PROVE MayEnd(x) /\ k = Len(toCtl')
        BY <1>3, <2>3, <3>2, NewEnd
      <3>3. CASE Old(i) /\ Old(j)  BY <1>3, <2>1, <3>3
      <3> HIDE DEF Old
      <3> QED  BY <3>1, <3>2, <3>3
    <2> QED  BY <2>2, <2>3
  <1>4. ASSUME Asked(x)' PROVE uploads'[x] = Absent
    <2>1. PICK i \in DOMAIN toHost' : /\ toHost'[i].id = x
                                      /\ toHost'[i].type \in {"upload", "download"}
      BY <1>4 DEF Asked
    <2>2. ASSUME NEW j \in DOMAIN toHost, toHost'[i] = toHost[j] PROVE uploads'[x] = Absent
      <3>1. Asked(x)  BY <2>1, <2>2 DEF Asked
      <3>2. uploads[x] = Absent  BY <3>1 DEF ToldOnce
      <3>3. ASSUME Host, 1 \in DOMAIN toHost, toHost[1].id = x, toHost[1].type = "upload"
            PROVE  FALSE
        <4>1. \A k \in DOMAIN toHost : k # 1 /\ toHost[k].id = x => toHost[k].type = "cancel"
          BY <3>3, AskedAlone
        <4>2. i + 1 \in DOMAIN toHost /\ i + 1 # 1 /\ toHost'[i] = toHost[i + 1]
          BY <3>3, HostTakesOne
        <4> QED  BY <2>1, <4>1, <4>2
      <3> QED  BY <3>2, <3>3, UploadsFrom
    <2>3. ASSUME NEW id \in Transfer, Request(id, toHost'[i]) PROVE uploads'[x] = Absent
      BY <1>n, <2>1, <2>3 DEF Request
    <2> QED  BY <2>2, <2>3, ToHostFrom
  <1>5. ASSUME x \in cancelled' PROVE down'[x] = Absent /\ ~(x > nextId')
    <2>1. CASE x \in cancelled
      <3>1. down[x] = Absent /\ ~(x > nextId)  BY <2>1 DEF ToldOnce
      <3>2. down'[x] = Absent  BY <1>n, <2>1, <3>1, ControllerTablesFrom
      <3>3. nextId \in Nat /\ nextId' \in Nat /\ nextId <= nextId' /\ x \in Nat
        BY NumbersGrow, Constants
      <3> QED  BY <3>1, <3>2, <3>3
    <2>2. CASE FsCancel(x)
      <3>1. down \in [Transfer -> Nat \cup {Absent}] /\ nextId \in Nat /\ x \in Nat
        BY TypedFacts, Constants
      <3>2. down' = [down EXCEPT ![x] = Absent] /\ x <= nextId /\ nextId' = nextId
        BY <2>2 DEF FsCancel, Forgets
      <3> QED  BY <3>1, <3>2
    <2>3. x \in cancelled \/ FsCancel(x)
      <3>1. CASE \E id \in Transfer : FtCommands(id)
        BY <1>5, <3>1 DEF FtCommands, FsDownload, FsUpload, FsCancel
      <3>2. CASE \E id \in Transfer : UploadThread(id)
        BY <1>5, <3>2 DEF UploadThread, ThreadGivesUp, ThreadStarts, ThreadChecks, ThreadSends,
               ThreadOnly
      <3>3. CASE (\E id \in Transfer : HostPump(id)) \/ Host
        BY <1>5, <3>3 DEF HostPump, HostOnly, Host, HostUploadStart, HostChunk, HostDownload,
               HostCancel
      <3>4. CASE Receive \/ SessionEnds \/ Connects \/ UNCHANGED ftVars
        BY <1>5, <3>4 DEF Receive, SessionEnds, Connects, ftVars
      <3> QED  BY <3>1, <3>2, <3>3, <3>4 DEF FtNext
    <2> QED  BY <2>1, <2>2, <2>3
  <1> QED  BY <1>1, <1>2, <1>3, <1>4, <1>5

LEMMA ToldOnceInit == FtInit => ToldOnce
  <1> SUFFICES ASSUME FtInit, NEW x \in Transfer
               PROVE  /\ told[x] = "nothing" /\ uploads[x] = Absent /\ x \notin cancelled
                      /\ DOMAIN toCtl = {}
    BY DEF ToldOnce, EndSaid
  <1> QED  BY DEF FtInit

\* A chunk that belongs where the file ends makes it longer by that chunk; one that is in it
\* already changes nothing.
LEMMA WrittenGrows ==
  ASSUME NEW file \in Seq(Nat), NEW at \in Nat, at <= Len(file),
         \A i \in DOMAIN file : file[i] = i
  PROVE  Written(file, at, at + 1) = IF at = Len(file) THEN Append(file, Len(file) + 1) ELSE file
  <1> DEFINE w == Written(file, at, at + 1)
  <1>1. at + 1 \in Nat  OBVIOUS
  <1>2. /\ w \in Seq(Nat) /\ Len(file) \in Nat /\ DOMAIN file = 1 .. Len(file)
        /\ Len(w) = IF at < Len(file) THEN Len(file) ELSE at + 1
        /\ DOMAIN w = 1 .. Len(w)
    BY <1>1, WrittenTyped
  <1>3. \A i \in DOMAIN w : w[i] = i  BY WrittenIntact
  <1> HIDE DEF w
  <1>4. CASE at = Len(file)
    <2> DEFINE a == Append(file, at + 1)
    <2>1. /\ a \in Seq(Nat) /\ Len(a) = Len(file) + 1 /\ DOMAIN a = 1 .. Len(file) + 1
          /\ \A i \in DOMAIN a : (i \in DOMAIN file /\ a[i] = file[i])
                                \/ (i = Len(file) + 1 /\ a[i] = at + 1)
      BY <1>1, AddsLast
    <2> HIDE DEF a
    <2>2. Len(w) = Len(a)  BY <1>2, <1>4, <2>1
    <2>3. \A i \in 1 .. Len(w) : w[i] = a[i]  BY <1>2, <1>3, <1>4, <2>1, <2>2
    <2>4. w = a  BY <1>2, <2>1, <2>2, <2>3, SeqEqual
    <2> QED  BY <1>4, <2>4 DEF w, a
  <1>5. CASE at # Len(file)
    <2>0. Len(file) \in Nat  BY <1>2
    <2>1. Len(w) = Len(file)
      <3>1. at < Len(file)  BY <1>5, <2>0
      <3> QED  BY <1>2, <3>1
    <2>2. \A i \in 1 .. Len(w) : w[i] = file[i]
      <3> SUFFICES ASSUME NEW i \in 1 .. Len(w)  PROVE w[i] = file[i]  OBVIOUS
      <3>1. i \in DOMAIN w /\ i \in DOMAIN file  BY <1>2, <2>1
      <3>2. w[i] = i  BY <1>3, <3>1
      <3>3. file[i] = i  BY <3>1
      <3> QED  BY <3>2, <3>3
    <2>3. w = file  BY <1>2, <2>1, <2>2, SeqEqual
    <2> QED  BY <1>5, <2>3 DEF w
  <1> QED  BY <1>4, <1>5

\* What FileCopy sees of a transfer's number and role.
Known == 1 .. nextId

Up == {id \in Transfer : IsUpload(id)}

LEMMA KnownMeans ==
  ASSUME Typed, NEW x \in Transfer
  PROVE  (x \in Known <=> ~(x > nextId)) /\ (x \in Up <=> IsUpload(x))
  <1>1. nextId \in Nat /\ x \in Nat /\ x >= 1  BY TypedFacts DEF Transfer
  <1> QED  BY <1>1 DEF Known, Up

\* Without a new number nobody becomes an upload.
LEMMA RolesUnchanged ==
  ASSUME Typed, Ids, [FtNext]_ftVars, UNCHANGED nextId
  PROVE  Known' = Known /\ Up' = Up
  <1>1. ASSUME NEW x \in Transfer PROVE IsUpload(x)' <=> IsUpload(x)
    <2>1. nextId \in Nat /\ nextId + 1 # nextId'  BY TypedFacts
    <2>2. ~FsUpload(x)  BY <2>1, NumbersGrow
    <2> QED  BY <2>2, RolesStay DEF Ids
  <1> QED  BY <1>1 DEF Known, Up

\* What FileCopy sees of a step.
LEMMA CopySteps ==
  ASSUME [FtNext]_ftVars
  PROVE  \/ \E id \in Transfer : FsDownload(id) \/ FsUpload(id) \/ FsCancel(id)
         \/ HostChunk \/ Receive
         \/ UNCHANGED <<nextId, cancelled, told, spoilt, localFile, remoteFile>>
  BY DEF FtNext, FtCommands, ftVars, files, UploadThread, ThreadGivesUp, ThreadStarts, ThreadChecks,
         ThreadSends, ThreadOnly, HostPump, HostOnly, Host, HostUploadStart, HostDownload,
         HostCancel, SessionEnds, Connects

\* What the promises rest on: the invariants of the theorems above, and that ends are said once.
CopyInv ==
  /\ Typed /\ Ids /\ UploadsBehind /\ RemoteIntact /\ UploadsComplete
  /\ Downloads /\ DownloadsComplete /\ ToldOnce

LEMMA CopyInvInit == FtInit => CopyInv
  <1> SUFFICES ASSUME FtInit PROVE CopyInv
    OBVIOUS
  <1>1. UploadsBehind /\ RemoteIntact
    BY EmptySeq DEF FtInit, UploadsBehind, RemoteIntact
  <1> QED  BY <1>1, TypedInit, IdsInit, DownloadsInit, ToldOnceInit DEF CopyInv

LEMMA CopyInvStep ==
  ASSUME CopyInv, [FtNext]_ftVars
  PROVE  CopyInv'
  <1> USE DEF CopyInv
  <1>1. Typed' /\ Ids'  BY TypedStep, IdsStep
  <1>2. UploadsBehind' /\ RemoteIntact' /\ UploadsComplete'
    BY UploadsBehindStep, RemoteIntactStep, UploadsCompleteStep
  <1>3. Downloads'  BY DownloadsStep
  <1>4. DownloadsComplete'  BY DownloadsCompleteStep DEF Downloads
  <1>5. ToldOnce'  BY ToldOnceStep DEF Downloads
  <1> QED  BY <1>1, <1>2, <1>3, <1>4, <1>5

-----------------------------------------------------------------------------
\* Who tells FileCopy what.  A command of the panel asks for a transfer, or cancels one.
LEMMA CommandsCopy ==
  ASSUME CopyInv, [FtNext]_ftVars, NEW x \in Transfer, FsDownload(x) \/ FsUpload(x) \/ FsCancel(x)
  PROVE  Copy!Asks(x) \/ Copy!Cancels(x)
  <1>0. Typed /\ Ids /\ nextId \in Nat /\ cancelled \subseteq Transfer  BY TypedFacts DEF CopyInv
  <1>1. UNCHANGED <<told, localFile, remoteFile>>
    BY DEF FsDownload, FsUpload, FsCancel, files
  <1>2. CASE FsCancel(x)
    <2>1. /\ x <= nextId /\ x \notin cancelled /\ cancelled' = cancelled \cup {x}
          /\ UNCHANGED <<nextId, spoilt>>
      BY <1>2 DEF FsCancel, files
    <2>2. Known' = Known /\ Up' = Up  BY <1>0, <2>1, RolesUnchanged
    <2>3. x \in Known  BY <1>0, <2>1 DEF Known, Transfer
    <2> QED  BY <1>1, <2>1, <2>2, <2>3 DEF Copy!Cancels, Known, Up
  <1>3. CASE FsDownload(x) \/ FsUpload(x)
    <2>1. x = nextId + 1 /\ nextId' = x  BY <1>0, <1>3, NumbersGrow
    <2>2. cancelled' = cancelled  BY <1>3 DEF FsDownload, FsUpload
    <2>3. x \notin Known /\ Known' = Known \cup {x}  BY <1>0, <2>1 DEF Known
    <2>4. ASSUME NEW y \in Transfer, y # x PROVE y \in Up' <=> y \in Up
      <3>1. ~FsUpload(y)  BY <1>0, <2>1, <2>4, NumbersGrow
      <3> QED  BY <1>0, <3>1, RolesStay DEF Ids, Up
    <2>5. x \notin Up
      <3>1. x > nextId  BY <1>0, <2>1
      <3> QED  BY <1>0, <3>1 DEF Ids, FreshTables, Untouched, IsUpload, Up
    <2>6. Up \subseteq Transfer /\ Up' \subseteq Transfer  BY DEF Up
    <2>7. CASE FsDownload(x)
      <3>1. Up' = Up
        <4>1. x \notin Up'  BY <1>0, <2>5, <2>7 DEF FsDownload, Up, IsUpload
        <4> QED  BY <2>4, <2>5, <2>6, <4>1
      <3>2. spoilt' = IF Len(localFile) > Size THEN spoilt \cup {x} ELSE spoilt
        BY <2>7 DEF FsDownload
      <3> QED  BY <1>1, <2>2, <2>3, <3>1, <3>2 DEF Copy!Asks, Known, Up
    <2>8. CASE FsUpload(x)
      <3>1. spoilt' = spoilt  BY <2>8 DEF FsUpload, files
      <3>2. Up' = Up \/ Up' = Up \cup {x}  BY <2>4, <2>5, <2>6
      <3> QED  BY <1>1, <2>2, <2>3, <3>1, <3>2 DEF Copy!Asks, Known, Up
    <2> QED  BY <1>3, <2>7, <2>8
  <1> QED  BY <1>2, <1>3

\* A chunk that the host writes is the next of an upload under way, or one it had already.
LEMMA ChunkCopies ==
  ASSUME CopyInv, [FtNext]_ftVars, HostChunk
  PROVE  UNCHANGED Copy!kvars \/ \E x \in Transfer : Copy!Puts(x)
  <1>0. Typed /\ Ids /\ Known' = Known /\ Up' = Up
        /\ UNCHANGED <<cancelled, told, localFile, spoilt>>
    <2>1. Typed /\ Ids  BY DEF CopyInv
    <2>2. UNCHANGED <<nextId, cancelled, told, localFile, spoilt>>  BY DEF HostChunk, HostOnly
    <2> QED  BY <2>1, <2>2, RolesUnchanged
  <1> DEFINE m == Head(toHost)
             n == m.at + 1
  <1>1. m = Head(toHost) /\ n = m.at + 1  OBVIOUS
  <1> HIDE DEF m, n
  <1>2. m.id \in Transfer /\ m.at \in Nat  BY <1>0, <1>1, ChunkCases
  <1>3. \/ uploads[m.id] = m.at /\ remoteFile' = Written(remoteFile, m.at, n)
        \/ UNCHANGED remoteFile
    BY <1>0, <1>1, ChunkCases
  <1>4. CASE UNCHANGED remoteFile  BY <1>0, <1>4 DEF Copy!kvars, Known, Up
  <1>5. CASE uploads[m.id] = m.at /\ remoteFile' = Written(remoteFile, m.at, n)
    <2>0. /\ uploads \in [Transfer -> 0 .. Size - 1 \cup {Absent}] /\ Size \in Nat
          /\ remoteFile \in Seq(Nat) /\ Len(remoteFile) \in Nat
      BY <1>0, TypedFacts
    <2>1. uploads[m.id] # Absent  BY <1>2, <1>5, Constants
    <2>2. m.at <= Len(remoteFile)  BY <1>2, <1>5, <2>1 DEF CopyInv, UploadsBehind
    <2>3. m.at < Size  BY <1>2, <1>5, <2>0, <2>1
    <2>4. remoteFile' = IF m.at = Len(remoteFile)
                          THEN Append(remoteFile, Len(remoteFile) + 1) ELSE remoteFile
      <3>1. \A i \in DOMAIN remoteFile : remoteFile[i] = i  BY DEF CopyInv, RemoteIntact
      <3>2. Written(remoteFile, m.at, m.at + 1) =
              IF m.at = Len(remoteFile) THEN Append(remoteFile, Len(remoteFile) + 1)
                                        ELSE remoteFile
        BY <1>2, <2>0, <2>2, <3>1, WrittenGrows
      <3> QED  BY <1>1, <1>5, <3>2
    <2>5. CASE m.at # Len(remoteFile)  BY <1>4, <2>4, <2>5
    <2>6. CASE m.at = Len(remoteFile)
      <3>1. IsUpload(m.id)  BY <1>0, <1>2, <2>1 DEF Ids, TablesHaveRoles
      <3>2. ~(m.id > nextId)  BY <1>0, <1>2, <3>1, InUse DEF IsUpload
      <3>3. m.id \in Known /\ m.id \in Up  BY <1>0, <1>2, <3>1, <3>2, KnownMeans
      <3>4. told[m.id] = "nothing"
        BY <1>2, <2>1 DEF CopyInv, ToldOnce, EndSaid, MayEnd
      <3>5. Copy!UnderWay(m.id)  BY <3>3, <3>4 DEF Copy!UnderWay, Known
      <3>6. Len(remoteFile) < Size /\ remoteFile' = Append(remoteFile, Len(remoteFile) + 1)
        BY <2>3, <2>4, <2>6
      <3>7. Copy!Puts(m.id)  BY <1>0, <3>3, <3>5, <3>6 DEF Copy!Puts, Known, Up
      <3> QED  BY <1>2, <3>7
    <2> QED  BY <2>5, <2>6
  <1> QED  BY <1>3, <1>4, <1>5

\* Only a download that is under way takes a chunk.
LEMMA TakesUnderWay ==
  ASSUME CopyInv, NEW x \in Transfer, NEW i \in DOMAIN toCtl, ChunkOf(toCtl[i], x),
         down[x] # Absent
  PROVE  Copy!Downloading(x)
  <1>0. Typed /\ Ids  BY DEF CopyInv
  <1>1. ~IsUpload(x) /\ ~(x > nextId)  BY <1>0, InUse DEF Ids, TablesHaveRoles
  <1>2. x \in Known /\ x \notin Up  BY <1>0, <1>1, KnownMeans
  <1>3. told[x] = "nothing" /\ x \notin cancelled  BY DEF CopyInv, ToldOnce
  <1> QED  BY <1>2, <1>3 DEF Copy!Downloading, Copy!UnderWay, Known, Up

\* A chunk that the controller writes goes to one place of the file, or right behind it, and
\* to its own unless the download was spoilt.
LEMMA LocalCopies ==
  ASSUME CopyInv, [FtNext]_ftVars, NEW x \in Transfer, Receive, ChunkOf(Head(toCtl), x),
         down[x] # Absent, localFile' = Written(localFile, down[x], Head(toCtl).at + 1),
         UNCHANGED <<told, spoilt>>
  PROVE  Copy!Gets(x)
  <1>0. /\ Typed /\ Ids /\ Known' = Known /\ Up' = Up
        /\ UNCHANGED <<cancelled, remoteFile>>
    <2>1. Typed /\ Ids  BY DEF CopyInv
    <2>2. UNCHANGED <<nextId, cancelled, remoteFile>>  BY DEF Receive
    <2> QED  BY <2>1, <2>2, RolesUnchanged
  <1> DEFINE m == Head(toCtl)
             at == down[x] + 1
  <1>1. /\ m = toCtl[1] /\ 1 \in DOMAIN toCtl /\ toCtl # <<>> /\ toCtl \in Seq(CtlMsg)
        /\ m.at \in Nat /\ m.at + 1 \in Nat /\ down[x] \in Nat /\ localFile \in Seq(Nat)
    BY <1>0, TypedFacts, ControllerTakes DEF Receive
  <1>2. Copy!Downloading(x)  BY <1>1, TakesUnderWay
  <1>3. x \notin spoilt => m.at = down[x]
    <2> SUFFICES ASSUME x \notin spoilt PROVE m.at = down[x]
      OBVIOUS
    <2>1. \E d \in Nat : Carries(toCtl, x, down[x], d)
      BY DEF CopyInv, Downloads, DownloadsInOrder, Continues
    <2> QED  BY <1>1, <2>1, CarriesOn
  <1>4. down[x] <= Len(localFile)  BY DEF CopyInv, Downloads, DownloadsBehind
  <1> DEFINE c == m.at + 1
  <1>5. c \in Nat /\ localFile' = Written(localFile, down[x], c)  BY <1>1
  <1>6. c = m.at + 1  OBVIOUS
  <1> HIDE DEF m, c
  <1>7. /\ Len(localFile) \in Nat /\ DOMAIN localFile = 1 .. Len(localFile)
        /\ DOMAIN localFile' =
             1 .. (IF down[x] < Len(localFile) THEN Len(localFile) ELSE down[x] + 1)
        /\ \A i \in DOMAIN localFile' :
             localFile'[i] = IF i = down[x] + 1 THEN c
                             ELSE IF i <= Len(localFile) THEN localFile[i] ELSE 0
    <2> DEFINE n == down[x]
    <2>1. n \in Nat /\ localFile \in Seq(Nat)  BY <1>1
    <2> HIDE DEF n
    <2>2. /\ Len(localFile) \in Nat /\ DOMAIN localFile = 1 .. Len(localFile)
          /\ DOMAIN Written(localFile, n, c) =
               1 .. (IF n < Len(localFile) THEN Len(localFile) ELSE n + 1)
          /\ \A i \in DOMAIN Written(localFile, n, c) :
               Written(localFile, n, c)[i] =
                 IF i = n + 1 THEN c ELSE IF i <= Len(localFile) THEN localFile[i] ELSE 0
      BY <1>5, <2>1, WrittenTyped
    <2>3. localFile' = Written(localFile, n, c)  BY <1>5 DEF n
    <2>4. n = down[x]  BY DEF n
    <2> QED  BY <2>2, <2>3, <2>4
  <1>8. at \in DOMAIN localFile' /\ localFile'[at] = c  BY <1>1, <1>4, <1>7
  <1>9. Copy!WrittenAt(at)
    <2>1. at <= Len(localFile) + 1  BY <1>1, <1>4, <1>7
    <2>2. DOMAIN localFile' = 1 .. (IF at <= Len(localFile) THEN Len(localFile) ELSE at)
      BY <1>1, <1>7
    <2>3. ASSUME NEW i \in DOMAIN localFile' \ {at} PROVE localFile'[i] = localFile[i]
      <3>1. i \in Nat /\ i <= Len(localFile)  BY <1>1, <1>4, <1>7, <2>3
      <3> QED  BY <1>7, <2>3, <3>1
    <2> QED  BY <2>1, <2>2, <2>3 DEF Copy!WrittenAt
  <1>10. x \notin spoilt => localFile'[at] = at  BY <1>3, <1>6, <1>8
  <1> HIDE DEF at
  <1>11. \E k \in DOMAIN localFile' :
           Copy!WrittenAt(k) /\ (x \notin spoilt => localFile'[k] = k)
    BY <1>8, <1>9, <1>10
  <1> QED  BY <1>0, <1>2, <1>11 DEF Copy!Gets, Known, Up

\* An end that the panel is told of is the one end of a transfer, and a success is of a complete
\* file, or of a download that was cancelled or spoilt.
LEMMA EndCopies ==
  ASSUME CopyInv, [FtNext]_ftVars,
         Receive, NEW m, m = Head(toCtl), m.type \in {"ok", "failed"},
         UNCHANGED <<localFile, spoilt>>,
         NEW x, x = m.id, told' = [told EXCEPT ![x] = m.type]
  PROVE  x \in Transfer /\ Copy!Tells(x, m.type)
  <1>0. /\ Typed /\ Ids /\ Known' = Known /\ Up' = Up
        /\ UNCHANGED <<cancelled, remoteFile, localFile>>
    <2>1. Typed /\ Ids  BY DEF CopyInv
    <2>2. UNCHANGED <<nextId, cancelled, remoteFile>>  BY DEF Receive
    <2> QED  BY <2>1, <2>2, RolesUnchanged
  <1>1. /\ m = toCtl[1] /\ 1 \in DOMAIN toCtl /\ x \in Transfer
        /\ m.type \in {"ok", "failed"} /\ told' = [told EXCEPT ![x] = m.type]
    BY <1>0, TypedFacts, ControllerTakes DEF Receive
  <1>2. /\ told \in [Transfer -> {"nothing", "ok", "failed"}] /\ Size \in Nat
        /\ Len(localFile) \in Nat /\ Len(remoteFile) \in Nat
    BY <1>0, TypedFacts
  <1>3. ~(x > nextId)  BY <1>0, <1>1, InUse
  <1>4. EndOf(toCtl[1], x)  BY <1>1 DEF EndOf
  <1>5. told[x] = "nothing"  BY <1>1, <1>4 DEF CopyInv, ToldOnce
  <1>6. x \in Known /\ (x \in Up <=> IsUpload(x))  BY <1>0, <1>1, <1>3, KnownMeans
  <1>7. Copy!UnderWay(x)  BY <1>5, <1>6 DEF Copy!UnderWay, Known
  <1>8. ASSUME m.type = "ok"
        PROVE  IF x \in Up THEN Len(remoteFile) >= Size
                           ELSE x \in cancelled \cup spoilt \/ Len(localFile) >= Size
    <2>1. ASSUME IsUpload(x) PROVE Len(remoteFile) >= Size
      <3>1. Size <= Len(remoteFile)
        BY <1>1, <1>8, <2>1 DEF CopyInv, UploadsComplete
      <3> QED  BY <1>2, <3>1
    <2>2. ASSUME ~IsUpload(x), x \notin cancelled, x \notin spoilt
          PROVE  Len(localFile) >= Size
      <3>1. DownloadsComplete'  BY CopyInvStep DEF CopyInv
      <3>2. told'[x] = "ok" /\ ~IsUpload(x)' /\ x \notin cancelled' /\ x \notin spoilt'
        <4>1. ~IsUpload(x)'  BY <1>0, <1>1, <2>2 DEF Up
        <4> QED  BY <1>0, <1>1, <1>2, <1>8, <2>2, <4>1
      <3>3. Size <= Len(localFile')  BY <1>1, <3>1, <3>2 DEF DownloadsComplete
      <3> QED  BY <1>0, <1>2, <3>3
    <2> QED  BY <1>6, <2>1, <2>2
  <1>9. Copy!Tells(x, m.type)
    BY <1>0, <1>1, <1>7, <1>8 DEF Copy!Tells, Known, Up
  <1> QED  BY <1>1, <1>9

LEMMA CopyInit == FtInit => Copy!KInit
  <1> SUFFICES ASSUME FtInit PROVE Copy!KInit
    OBVIOUS
  <1>1. 1 .. nextId = {}  BY DEF FtInit
  <1>2. {id \in Transfer : IsUpload(id)} = {}  BY DEF FtInit, IsUpload, Idle
  <1> QED  BY <1>1, <1>2 DEF FtInit, Copy!KInit

LEMMA CopyStep ==
  ASSUME CopyInv, [FtNext]_ftVars
  PROVE  [Copy!KNext]_(Copy!kvars)
  <1>0. Typed /\ Ids  BY DEF CopyInv
  <1>1. ASSUME NEW x \in Transfer, FsDownload(x) \/ FsUpload(x) \/ FsCancel(x) PROVE Copy!KNext
    BY <1>1, CommandsCopy DEF Copy!KNext
  <1>2. CASE HostChunk  BY <1>2, ChunkCopies DEF Copy!KNext
  <1>3. CASE Receive
    <2> DEFINE m == Head(toCtl)
    <2>1. m = Head(toCtl)  OBVIOUS
    <2>2. UNCHANGED <<nextId, cancelled, remoteFile>>  BY <1>3 DEF Receive
    <2>3. Known' = Known /\ Up' = Up  BY <1>0, <2>2, RolesUnchanged
    <2>0. m = toCtl[1] /\ 1 \in DOMAIN toCtl /\ m.id \in Transfer
      BY <1>0, <1>3, TypedFacts, ControllerTakes DEF Receive
    <2>4. CASE UNCHANGED <<localFile, told, spoilt>>
      BY <2>2, <2>3, <2>4 DEF Copy!kvars, Known, Up
    <2>5. CASE /\ m.type \in {"ok", "failed"} /\ told' = [told EXCEPT ![m.id] = m.type]
               /\ UNCHANGED <<localFile, spoilt>>
      <3>1. PICK n, x : n = m /\ x = n.id  OBVIOUS
      <3>2. x \in Transfer /\ Copy!Tells(x, n.type) /\ n.type \in {"ok", "failed"}
        BY <1>3, <2>5, <3>1, EndCopies
      <3> QED  BY <3>2 DEF Copy!KNext
    <2>6. CASE /\ m.type = "chunk" /\ down[m.id] # Absent
               /\ localFile' = Written(localFile, down[m.id], m.at + 1)
               /\ UNCHANGED <<told, spoilt>>
      <3>1. PICK x \in Transfer : x = m.id  BY <2>0
      <3>2. ChunkOf(Head(toCtl), x)  BY <2>6, <3>1 DEF ChunkOf
      <3>3. Copy!Gets(x)  BY <1>3, <2>6, <3>1, <3>2, LocalCopies
      <3> QED  BY <3>3 DEF Copy!KNext
    <2>7. CASE /\ m.type = "chunk" /\ down[m.id] # Absent /\ spoilt' = spoilt \cup {m.id}
               /\ UNCHANGED <<localFile, told>>
      <3>1. PICK x \in Transfer : x = m.id  BY <2>0
      <3>2. ChunkOf(toCtl[1], x) /\ 1 \in DOMAIN toCtl  BY <2>0, <2>7, <3>1 DEF ChunkOf
      <3>3. Copy!Downloading(x)  BY <2>7, <3>1, <3>2, TakesUnderWay
      <3> HIDE DEF m
      <3>4. Copy!Spoils(x)  BY <2>2, <2>3, <2>7, <3>1, <3>3 DEF Copy!Spoils, Known, Up
      <3> QED  BY <3>4 DEF Copy!KNext
    <2> HIDE DEF m
    <2> QED  BY <1>3, <2>1, <2>4, <2>5, <2>6, <2>7, ReceiveCases
  <1>4. CASE UNCHANGED <<nextId, cancelled, told, spoilt, localFile, remoteFile>>
    <2>1. Known' = Known /\ Up' = Up  BY <1>0, <1>4, RolesUnchanged
    <2> QED  BY <1>4, <2>1 DEF Copy!kvars, Known, Up
  <1> QED  BY <1>1, <1>2, <1>3, <1>4, CopySteps

(***************************************************************************)
(* File transfers implement FileCopy, whatever fails and however long the  *)
(* sources are: whatever the threads, tables and sessions of lib.rs and    *)
(* connection.rs do, the two files are written chunk by chunk and for a    *)
(* transfer under way, a download's not after it was cancelled; what is    *)
(* not spoilt writes only the right chunk at the right place; fsDone is    *)
(* believed once for each transfer, and as a success of one that is not    *)
(* spoilt only when the copy is complete.                                  *)
(***************************************************************************)
THEOREM TransfersAreCopies == FtSpec => ImplementsCopy
  <1>1. FtInit => CopyInv /\ Copy!KInit  BY CopyInvInit, CopyInit
  <1>2. CopyInv /\ [FtNext]_ftVars => CopyInv' /\ [Copy!KNext]_(Copy!kvars)
    BY CopyInvStep, CopyStep
  <1> QED  BY <1>1, <1>2, PTL DEF FtSpec, ImplementsCopy, Copy!KSpec
=============================================================================
