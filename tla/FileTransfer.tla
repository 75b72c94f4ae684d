---------------------------- MODULE FileTransfer ----------------------------
(***************************************************************************)
(* File transfer between a controller and the machine it controls, over    *)
(* the session's channel.  On the controller (desktop lib.rs) there are    *)
(* the commands of the panel, one thread for each upload, and the thread   *)
(* that receives frames; they share two tables.  On the host               *)
(* (connection.rs, managed_loop) one loop keeps the two tables of a        *)
(* session, pumps downloads and writes uploads.                            *)
(*                                                                         *)
(* Files are counted in chunks (FILE_CHUNK); a file is the sequence of the *)
(* chunk numbers it holds, so the file an intact transfer leaves holds i   *)
(* at every i.  All downloads are of one file into one file, and so are    *)
(* all uploads: a transfer resumes, or runs beside, an earlier one.  Both  *)
(* sources have Size chunks when their size is looked up, and srcLen when  *)
(* they are read.                                                          *)
(***************************************************************************)
EXTENDS Integers, Sequences, FiniteSets

CONSTANTS
  MaxId,        \* bound of the model: the transfers asked for
  MaxSession,   \* bound of the model: the sessions of the application
  Size,         \* length of a source, in chunks
  SourceLen,    \* what the length may turn out to be when it is read
  Window,       \* 1_048_576 bytes: how far the sender runs ahead
  AckEvery,     \* 524_288 bytes: the host acknowledges at multiples of this
  QueueLow,     \* 48: downloads are pumped while fewer messages are queued
  MayFail       \* the calls to the file system that may fail

ASSUME TransferAssumption ==
  /\ {MaxId, MaxSession, Size, Window, AckEvery, QueueLow} \subseteq Nat
  /\ SourceLen \subseteq Nat /\ AckEvery > 0
  /\ MayFail \subseteq {"open", "read", "seek", "hostWrite", "localWrite"}

VARIABLES
  nextId,      \* Transfers.next_id
  sessions,    \* the sessions so far
  link,        \* AppState.conn: "none", "live", or "dead" (a session that has ended by itself)
  down,        \* Transfers.down: where the next chunk of a download is written
  acked,       \* Transfers.up_acked: what the host has acknowledged of an upload
  thread,      \* the upload threads: where each is, and how far it has sent
  toHost, toCtl,       \* what is on its way, the sending queues included
  uploads, downloads,  \* the tables of managed_loop: bytes written, the next offset to read
  localFile, remoteFile,  \* what downloads and uploads write to
  srcLen,      \* the length of the sources when they are read
  told,        \* what the panel was told of each transfer's end
  cancelled,   \* transfers that were cancelled
  skipped,     \* uploads of which the host skipped a chunk
  spoilt       \* downloads that lost a chunk to a failed write, or began behind the source's end

tables == <<down, acked, uploads, downloads>>
files  == <<localFile, remoteFile, srcLen, spoilt>>
wires  == <<toHost, toCtl>>
ftVars == <<nextId, sessions, link, thread, tables, wires, files, told, cancelled, skipped>>

-----------------------------------------------------------------------------
Transfer == 1 .. MaxId
Absent   == -1   \* no entry in a table
NoAck    == -2   \* u64::MAX in up_acked: nothing acknowledged yet

Idle == [pc |-> "none", sent |-> 0]

Fails(call) == call \in MayFail
Least(a, b) == IF a < b THEN a ELSE b

Start(type, id, n) == [type |-> type, id |-> id, at |-> n]
Chunk(id, n)       == [type |-> "chunk", id |-> id, at |-> n]
Progress(id, n)    == [type |-> "progress", id |-> id, at |-> n]
Done(id, ok)       == [type |-> IF ok THEN "ok" ELSE "failed", id |-> id, at |-> 0]
Cancel(id)         == [type |-> "cancel", id |-> id, at |-> 0]

\* Writing a chunk at a position; behind the end of the file it leaves a hole.
Written(file, at, chunk) ==
  [i \in 1 .. IF at < Len(file) THEN Len(file) ELSE at + 1 |->
     IF i = at + 1 THEN chunk ELSE IF i <= Len(file) THEN file[i] ELSE 0]

\* send_input and send_raw: without a live session the message goes nowhere.
Send(m) == toHost' = IF link = "live" THEN Append(toHost, m) ELSE toHost

-----------------------------------------------------------------------------
(***************************************************************************)
(* The commands of the panel.  An entry is made before the connection is   *)
(* looked at, and stays when there is none.  A download goes on at the end *)
(* of the local file, also when that is longer than the source.            *)
(***************************************************************************)
NewId(id) == id = nextId + 1 /\ id \in Transfer /\ nextId' = id

FsDownload(id) ==
  /\ NewId(id)
  /\ down' = [down EXCEPT ![id] = Len(localFile)]
  /\ Send(Start("download", id, Len(localFile)))
  /\ spoilt' = IF Len(localFile) > Size THEN spoilt \cup {id} ELSE spoilt
  /\ UNCHANGED <<sessions, link, thread, acked, uploads, downloads, toCtl, localFile, remoteFile,
                 srcLen, told, cancelled, skipped>>

FsUpload(id) ==
  /\ NewId(id)
  /\ acked' = [acked EXCEPT ![id] = NoAck]
  /\ Send(Start("upload", id, Size))
  /\ thread' = [thread EXCEPT ![id].pc = IF link = "none" THEN "none" ELSE "waiting"]
  /\ UNCHANGED <<sessions, link, down, uploads, downloads, toCtl, files, told, cancelled,
                 skipped>>

\* Faulty variant: a download stays in the table when it is cancelled.
ForgetsUpload(id) == acked' = [acked EXCEPT ![id] = Absent] /\ UNCHANGED down

Forgets(id) ==
  /\ down' = [down EXCEPT ![id] = Absent]
  /\ acked' = [acked EXCEPT ![id] = Absent]

FsCancel(id) ==
  /\ id <= nextId /\ id \notin cancelled
  /\ Forgets(id)
  /\ Send(Cancel(id))
  /\ cancelled' = cancelled \cup {id}
  /\ UNCHANGED <<nextId, sessions, link, thread, uploads, downloads, toCtl, files, told,
                 skipped>>

-----------------------------------------------------------------------------
(***************************************************************************)
(* An upload thread: it waits for the first acknowledgement, at most 15 s, *)
(* then sends while it is at most Window ahead of the last one.            *)
(***************************************************************************)
PhaseGoes(id, p) == thread' = [thread EXCEPT ![id].pc = p]

ThreadOnly == UNCHANGED <<nextId, sessions, link, tables, toCtl, files, told, cancelled, skipped>>

\* Cancelled, timed out, nothing to send, or the seek fails.
ThreadGivesUp(id) ==
  /\ \/ /\ thread[id].pc = "waiting"
        /\ \/ acked[id] = Absent \/ acked[id] = NoAck \/ acked[id] >= Size
           \/ Fails("seek")
     \/ thread[id].pc = "checking" /\ acked[id] = Absent
  /\ PhaseGoes(id, "over")
  /\ ThreadOnly /\ UNCHANGED toHost

ThreadStarts(id) ==
  /\ thread[id].pc = "waiting" /\ acked[id] \in 0 .. Size - 1
  /\ thread' = [thread EXCEPT ![id] = [pc |-> "checking", sent |-> acked[id]]]
  /\ ThreadOnly /\ UNCHANGED toHost

\* Faulty variant: the window is measured in messages of its own, not in what is sent.
InWindowOfTwo(id) == thread[id].sent - acked[id] <= 2 * Window

InWindow(id) == thread[id].sent - acked[id] <= Window

ThreadChecks(id) ==
  /\ thread[id].pc = "checking" /\ acked[id] # Absent
  /\ InWindow(id)
  /\ PhaseGoes(id, "sending")
  /\ ThreadOnly /\ UNCHANGED toHost

\* The end of the file, a read error, or no connection: the thread is over.
ThreadSends(id) ==
  /\ thread[id].pc = "sending"
  /\ \/ /\ thread[id].sent < srcLen /\ link # "none"
        /\ Send(Chunk(id, thread[id].sent))
        /\ thread' = [thread EXCEPT ![id].pc = "checking", ![id].sent = @ + 1]
     \/ /\ thread[id].sent >= srcLen \/ link = "none" \/ Fails("read")
        /\ PhaseGoes(id, "over")
        /\ UNCHANGED toHost
  /\ ThreadOnly

-----------------------------------------------------------------------------
(***************************************************************************)
(* The thread that receives frames: chunks go to the file, progress to     *)
(* up_acked whether or not the transfer has an entry, the end removes a    *)
(* download's entry.  A chunk that cannot be written is skipped without a  *)
(* word, and the next one goes where it belonged.                          *)
(***************************************************************************)
Receive ==
  /\ toCtl # <<>> /\ toCtl' = Tail(toCtl)
  /\ LET m == Head(toCtl) IN
       \/ /\ m.type = "chunk" /\ down[m.id] # Absent
          /\ \/ /\ localFile' = Written(localFile, down[m.id], m.at + 1)
                /\ down' = [down EXCEPT ![m.id] = @ + 1]
                /\ UNCHANGED spoilt
             \/ /\ Fails("localWrite") /\ UNCHANGED <<localFile, down>>
                /\ spoilt' = spoilt \cup {m.id}
          /\ UNCHANGED <<acked, told>>
       \/ /\ m.type = "chunk" /\ down[m.id] = Absent
          /\ UNCHANGED <<localFile, down, acked, told, spoilt>>
       \/ /\ m.type = "progress"
          /\ acked' = [acked EXCEPT ![m.id] = m.at]
          /\ UNCHANGED <<localFile, down, told, spoilt>>
       \/ /\ m.type \in {"ok", "failed"}
          /\ down' = [down EXCEPT ![m.id] = Absent]
          /\ told' = [told EXCEPT ![m.id] = m.type]
          /\ UNCHANGED <<localFile, acked, spoilt>>
  /\ UNCHANGED <<nextId, sessions, link, thread, toHost, uploads, downloads, remoteFile, srcLen,
                 cancelled, skipped>>

-----------------------------------------------------------------------------
(***************************************************************************)
(* The host's loop.                                                        *)
(***************************************************************************)
Takes(type) == link = "live" /\ toHost # <<>> /\ Head(toHost).type = type /\ toHost' = Tail(toHost)

HostOnly == UNCHANGED <<nextId, sessions, link, down, acked, thread, localFile, srcLen, told,
                        cancelled, spoilt>>

Says(ms) == toCtl' = toCtl \o ms

\* An upload starts at what is already there; a complete file is done at once.
ExistingFile(m) == Least(Len(remoteFile), m.at)

HostUploadStart ==
  /\ Takes("upload")
  /\ LET m == Head(toHost) IN
       \/ /\ ExistingFile(m) >= m.at
          /\ Says(<<Progress(m.id, ExistingFile(m)), Done(m.id, TRUE)>>)
          /\ UNCHANGED uploads
       \/ /\ ExistingFile(m) < m.at
          /\ Says(<<Progress(m.id, ExistingFile(m))>>)
          /\ uploads' = [uploads EXCEPT ![m.id] = ExistingFile(m)]
       \/ Fails("open") /\ Says(<<Done(m.id, FALSE)>>) /\ UNCHANGED uploads
  /\ HostOnly /\ UNCHANGED <<downloads, remoteFile, skipped>>

\* Faulty variant: a chunk is written wherever it says.
ExpectsAny(m) == uploads[m.id] # Absent

\* The chunk is the next of an upload in the table.
Expects(m) == uploads[m.id] = m.at

\* Faulty variant: only the end of the file is acknowledged.
AcksTheEndOnly(n) == n >= Size

\* Having n chunks calls for an acknowledgement.
AckDue(n) == n >= Size \/ n \div AckEvery # (n - 1) \div AckEvery

\* What the host says of it.
AckOf(id, n) == IF ~AckDue(n) THEN <<>>
                ELSE IF n >= Size THEN <<Progress(id, n), Done(id, TRUE)>> ELSE <<Progress(id, n)>>

\* What the table holds of an upload that has n chunks: nothing if that is all of them.
Entry(n) == IF n >= Size THEN Absent ELSE n

\* A chunk that is not expected, or cannot be written, is skipped without a word.
HostChunk ==
  /\ Takes("chunk")
  /\ LET m == Head(toHost)
         n == m.at + 1 IN
       \/ /\ Expects(m)
          /\ remoteFile' = Written(remoteFile, m.at, n)
          /\ uploads' = [uploads EXCEPT ![m.id] = Entry(n)]
          /\ Says(AckOf(m.id, n))
          /\ UNCHANGED skipped
       \/ /\ ~Expects(m) \/ Fails("hostWrite")
          /\ skipped' = skipped \cup {m.id}
          /\ UNCHANGED <<uploads, remoteFile, toCtl>>
  /\ HostOnly /\ UNCHANGED downloads

HostDownload ==
  /\ Takes("download")
  /\ LET m == Head(toHost)
         off == Least(m.at, Size) IN
       \/ /\ Says(<<Progress(m.id, off)>>)
          /\ downloads' = [downloads EXCEPT ![m.id] = off]
       \/ Fails("open") /\ Says(<<Done(m.id, FALSE)>>) /\ UNCHANGED downloads
  /\ HostOnly /\ UNCHANGED <<uploads, remoteFile, skipped>>

HostCancel ==
  /\ Takes("cancel")
  /\ LET id == Head(toHost).id IN
       /\ downloads' = [downloads EXCEPT ![id] = Absent]
       /\ uploads' = [uploads EXCEPT ![id] = Absent]
  /\ HostOnly /\ UNCHANGED <<toCtl, remoteFile, skipped>>

\* Faulty variant: the last chunk is taken to be the one before.
LastButOne(off) == off + 2 >= Size

\* The chunk at off ends a download.
Last(off) == off + 1 >= Size

\* The next chunk of some download, while the queue is short.
HostPump(id) ==
  /\ link = "live" /\ downloads[id] # Absent /\ Len(toCtl) < QueueLow
  /\ LET off == downloads[id]
         last == Last(off) IN
       \/ /\ off < srcLen
          /\ Says(IF last THEN <<Chunk(id, off), Done(id, TRUE)>> ELSE <<Chunk(id, off)>>)
          /\ downloads' = [downloads EXCEPT ![id] = IF last THEN Absent ELSE off + 1]
       \/ /\ off >= srcLen
          /\ Says(<<Done(id, off >= Size)>>)
          /\ downloads' = [downloads EXCEPT ![id] = Absent]
       \/ /\ Fails("read")
          /\ Says(<<Done(id, FALSE)>>)
          /\ downloads' = [downloads EXCEPT ![id] = Absent]
  /\ HostOnly /\ UNCHANGED <<uploads, toHost, remoteFile, skipped>>

-----------------------------------------------------------------------------
(***************************************************************************)
(* The session ends by itself (link is "dead"), is closed by disconnect,   *)
(* or another one is started.  The tables of managed_loop go with it; some *)
(* of what was on its way to the controller still arrives.                 *)
(***************************************************************************)
SessionEnds ==
  /\ \/ link = "live" /\ link' \in {"dead", "none"}
     \/ link = "dead" /\ link' = "none"
  /\ toHost' = <<>>
  /\ \E n \in 0 .. Len(toCtl) : toCtl' = SubSeq(toCtl, 1, n)
  /\ uploads' = [id \in Transfer |-> Absent] /\ downloads' = [id \in Transfer |-> Absent]
  /\ UNCHANGED <<nextId, sessions, down, acked, thread, files, told, cancelled, skipped>>

Connects ==
  /\ link # "live" /\ toCtl = <<>> /\ sessions < MaxSession
  /\ link' = "live" /\ sessions' = sessions + 1
  /\ UNCHANGED <<nextId, thread, tables, wires, files, told, cancelled, skipped>>

-----------------------------------------------------------------------------
FtInit ==
  /\ nextId = 0 /\ sessions = 1 /\ link = "live"
  /\ down = [id \in Transfer |-> Absent] /\ acked = [id \in Transfer |-> Absent]
  /\ thread = [id \in Transfer |-> Idle]
  /\ toHost = <<>> /\ toCtl = <<>>
  /\ uploads = [id \in Transfer |-> Absent] /\ downloads = [id \in Transfer |-> Absent]
  /\ localFile = <<>> /\ remoteFile = <<>> /\ srcLen \in SourceLen
  /\ told = [id \in Transfer |-> "nothing"] /\ cancelled = {} /\ skipped = {}
  /\ spoilt = {}

FtCommands(id) == FsDownload(id) \/ FsUpload(id) \/ FsCancel(id)
UploadThread(id) == ThreadGivesUp(id) \/ ThreadStarts(id) \/ ThreadChecks(id) \/ ThreadSends(id)
Host == HostUploadStart \/ HostChunk \/ HostDownload \/ HostCancel

FtNext ==
  \/ \E id \in Transfer : FtCommands(id) \/ UploadThread(id) \/ HostPump(id)
  \/ Receive \/ Host \/ SessionEnds \/ Connects

FtSpec == FtInit /\ [][FtNext]_ftVars

Progresses == Receive \/ Host \/ \E id \in Transfer : UploadThread(id) \/ HostPump(id)

\* The loops and threads poll without blocking, so some of them goes on while one can.
FtFair == WF_ftVars(Progresses)

FtLiveSpec == FtSpec /\ FtFair

-----------------------------------------------------------------------------
\* Tables, threads, messages and files have their types; an upload that is in the host's
\* table is not complete.
FtTypeOK ==
  /\ nextId \in 0 .. MaxId /\ sessions \in 1 .. MaxSession \cup {1}
  /\ link \in {"none", "live", "dead"}
  /\ down \in [Transfer -> Nat \cup {Absent}]
  /\ acked \in [Transfer -> Nat \cup {Absent, NoAck}]
  /\ thread \in [Transfer -> [pc : {"none", "waiting", "checking", "sending", "over"},
                              sent : Nat]]
  /\ toHost \in Seq([type : {"upload", "download", "chunk", "cancel"}, id : Transfer, at : Nat])
  /\ toCtl \in Seq([type : {"progress", "chunk", "ok", "failed"}, id : Transfer, at : Nat])
  /\ uploads \in [Transfer -> 0 .. Size - 1 \cup {Absent}]
  /\ downloads \in [Transfer -> 0 .. Size \cup {Absent}]
  /\ localFile \in Seq(Nat) /\ remoteFile \in Seq(Nat) /\ srcLen \in SourceLen
  /\ told \in [Transfer -> {"nothing", "ok", "failed"}]
  /\ cancelled \subseteq Transfer /\ skipped \subseteq Transfer /\ spoilt \subseteq Transfer

\* A file holds the right chunk at every place: what downloads write to, and uploads.
LocalIntact  == \A i \in DOMAIN localFile : localFile[i] = i
RemoteIntact == \A i \in DOMAIN remoteFile : remoteFile[i] = i

(***************************************************************************)
(* A file that transfers write to holds the right chunk at every place it  *)
(* has, through resumption, two transfers at a time, cancelling, failed    *)
(* writes on the host, and threads that outlive their session.  What can   *)
(* put a wrong chunk into it is only a download that was spoilt: by a      *)
(* failed write of the controller, which the code skips (lib.rs:142), or   *)
(* by beginning on a file longer than its source.                          *)
(***************************************************************************)
FilesIntact == (spoilt = {} => LocalIntact) /\ RemoteIntact

(***************************************************************************)
(* The panel is told that a transfer succeeded only when the file has all  *)
(* its chunks (fsDone, ok).  What it is told of one it cancelled does not  *)
(* count: the end may have been on its way.  Nor does it for a download    *)
(* that was spoilt, of which the same is said as of any other.             *)
(***************************************************************************)
IsUpload(id) == thread[id].pc # "none"

DoneMeansComplete ==
  \A id \in Transfer \ (cancelled \cup spoilt) : told[id] = "ok" =>
    Len(IF IsUpload(id) THEN remoteFile ELSE localFile) >= Size

(***************************************************************************)
(* What the plan of the repository takes as reached: files are transferred *)
(* reliably in both directions (TASKS.md:204).  A transfer that the panel  *)
(* is told has succeeded has left the whole file, as it is at its source.  *)
(* The code does not keep this of a download, one of whose chunks could    *)
(* not be written: the others are written in its place.                    *)
(***************************************************************************)
TransfersReliably ==
  \A id \in Transfer \ cancelled : told[id] = "ok" =>
    IF IsUpload(id) THEN RemoteIntact /\ Len(remoteFile) >= Size
                    ELSE LocalIntact /\ Len(localFile) >= Size

(***************************************************************************)
(* An upload never has more than Window + 1 chunks before the host: the    *)
(* acknowledgements, late and early ones, never run ahead of what the host *)
(* has taken off the channel, so files do not crowd out the input.         *)
(***************************************************************************)
InFlightBounded ==
  \A id \in Transfer :
    Cardinality({i \in DOMAIN toHost : toHost[i].type = "chunk" /\ toHost[i].id = id})
      <= Window + 1

(***************************************************************************)
(* A transfer whose request reaches a session that lasts comes to an end:  *)
(* the sender never waits for an acknowledgement that nothing will cause.  *)
(* Exempt are the uploads that lost a chunk to a failed write, and those   *)
(* that were cancelled.                                                    *)
(***************************************************************************)
Requested(id) == \E i \in DOMAIN toHost : toHost[i].type \in {"upload", "download"}
                                          /\ toHost[i].id = id

Ended(id) == IF IsUpload(id) THEN thread[id].pc = "over" ELSE down[id] = Absent

TransferEnds ==
  \A id \in Transfer :
    Requested(id) ~> (Ended(id) \/ link # "live" \/ id \in skipped \cup cancelled)

Copy == INSTANCE FileCopy WITH
          asked <- 1 .. nextId, up <- {id \in Transfer : IsUpload(id)},
          local <- localFile, remote <- remoteFile

(***************************************************************************)
(* Whatever threads, tables and sessions do, transfers keep the promises   *)
(* of FileCopy: the files grow chunk after chunk, a download's only until  *)
(* it is cancelled, and the panel is told one end of each transfer, the    *)
(* success of a complete file alone.  Spoilt downloads are there as what   *)
(* they are: they alone write chunks where these do not belong.            *)
(***************************************************************************)
ImplementsCopy == Copy!KSpec
=============================================================================
