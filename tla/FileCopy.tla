------------------------------- MODULE FileCopy ------------------------------
(***************************************************************************)
(* What copying files promises, without messages, tables, windows or       *)
(* sessions.  There are two copies, which downloads and uploads make; a    *)
(* copy only ever grows by the next chunk of its source, for a transfer    *)
(* that is under way; a transfer ends at most once, and is said to have    *)
(* succeeded only when the copy it was making is complete.                 *)
(*                                                                         *)
(* A download may be spoilt while it is under way, or from the beginning   *)
(* if the copy is longer than the source.  From then on it writes any      *)
(* chunk anywhere in the copy or right behind it, and its success says     *)
(* nothing; the promise is that nothing else does.                         *)
(***************************************************************************)
EXTENDS Naturals, Sequences

CONSTANTS
  Transfer,
  Size         \* length of the sources, in chunks

VARIABLES
  asked,       \* the transfers asked for so far
  up,          \* those of them that are uploads
  cancelled,   \* those that were cancelled
  told,        \* "nothing" yet, or how a transfer ended: "ok", "failed"
  spoilt,      \* downloads that do not follow their source any more
  local,       \* the copy that downloads make
  remote       \* the copy that uploads make

kvars == <<asked, up, cancelled, told, spoilt, local, remote>>

KInit ==
  /\ asked = {} /\ up = {} /\ cancelled = {} /\ spoilt = {}
  /\ told = [id \in Transfer |-> "nothing"] /\ local = <<>> /\ remote = <<>>

UnderWay(id) == id \in asked /\ told[id] = "nothing"

Asks(id) ==
  /\ id \notin asked
  /\ asked' = asked \cup {id}
  /\ \/ up' \in {up, up \cup {id}} /\ UNCHANGED spoilt
     \/ Len(local) > Size /\ spoilt' = spoilt \cup {id} /\ UNCHANGED up
  /\ UNCHANGED <<cancelled, told, local, remote>>

Cancels(id) ==
  /\ id \in asked \ cancelled
  /\ cancelled' = cancelled \cup {id}
  /\ UNCHANGED <<asked, up, told, spoilt, local, remote>>

\* Nothing more of a download is written, or lost, once it is cancelled.
Downloading(id) == UnderWay(id) /\ id \notin up \cup cancelled

Spoils(id) ==
  /\ Downloading(id)
  /\ spoilt' = spoilt \cup {id}
  /\ UNCHANGED <<asked, up, cancelled, told, local, remote>>

\* One place of the copy, or the one behind its last, is written.
WrittenAt(at) ==
  /\ at <= Len(local) + 1
  /\ DOMAIN local' = 1 .. (IF at <= Len(local) THEN Len(local) ELSE at)
  /\ \A i \in DOMAIN local' \ {at} : local'[i] = local[i]

\* In a copy without a wrong chunk this adds the next one, unless the download is spoilt.
Gets(id) ==
  /\ Downloading(id)
  /\ \E at \in DOMAIN local' : WrittenAt(at) /\ (id \notin spoilt => local'[at] = at)
  /\ UNCHANGED <<asked, up, cancelled, told, spoilt, remote>>

Puts(id) ==
  /\ UnderWay(id) /\ id \in up /\ Len(remote) < Size
  /\ remote' = Append(remote, Len(remote) + 1)
  /\ UNCHANGED <<asked, up, cancelled, told, spoilt, local>>

\* The end of a cancelled download may have been on its way, with some of its chunks behind.
Tells(id, end) ==
  /\ UnderWay(id)
  /\ end = "ok" => IF id \in up THEN Len(remote) >= Size
                   ELSE id \in cancelled \cup spoilt \/ Len(local) >= Size
  /\ told' = [told EXCEPT ![id] = end]
  /\ UNCHANGED <<asked, up, cancelled, spoilt, local, remote>>

KNext ==
  \E id \in Transfer :
    \/ Asks(id) \/ Cancels(id) \/ Spoils(id) \/ Gets(id) \/ Puts(id)
    \/ \E end \in {"ok", "failed"} : Tells(id, end)

KSpec == KInit /\ [][KNext]_kvars
=============================================================================
