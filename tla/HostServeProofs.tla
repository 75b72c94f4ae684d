-------------------------- MODULE HostServeProofs ---------------------------
(***************************************************************************)
(* The safety properties of the serving thread (HostServe), for any set of *)
(* sessions.  HostInv is inductive: Phases says what each place in the     *)
(* code may rely on about the request in hand, the session being set up    *)
(* and the request kept for later; Dialog, that the dialog on the screen   *)
(* is the last one shown and is about the request in hand, and that the    *)
(* panel only delivers what the person said.  Below, one step per action   *)
(* for every part of it.  On top of it, the thread implements the host     *)
(* that its owner sees (SessionHost).                                      *)
(***************************************************************************)
EXTENDS HostServe, SequenceTheorems, TLAPS

USE DEF thread, world, ghosts, NextIs, Read, WsLost

-----------------------------------------------------------------------------
\* What the thread holds at each place.
Phases ==
  /\ pc = "idle" => job = NoJob
  /\ pc \in Waiting \cup {"handshaking"} \cup InSession => job.sid \in SessionId
  /\ pc \in {"establishing", "handshaking"} \cup InSession => est.sid \in SessionId
  /\ pending # {} => pc \in {"joinOk", "idle", "stopped"}

\* The dialog that is shown, and the answers on their way.
Dialog ==
  /\ pc = "deciding" => prompts # <<>> /\ prompts[Len(prompts)] = job.sid
  /\ \A i \in DOMAIN decisions : decisions[i] \in said

HostInv ==
  /\ TypeOK /\ Phases /\ OneCapture /\ NoRequestForgotten /\ CodeOnDisplay
  /\ Dialog /\ ConsentGiven

-----------------------------------------------------------------------------
(***************************************************************************)
(* The queues and the codes.                                               *)
(***************************************************************************)
\* A frame that is read is about a session, and what remains is frames.
LEMMA HeadOfInbox ==
  ASSUME TypeOK, inbox # <<>>
  PROVE  /\ Head(inbox).sid \in SessionId
         /\ Head(inbox).type \in {"incoming", "ready", "answer", "ice", "close"}
         /\ Tail(inbox) \in Seq(Frames)
  <1>1. inbox \in Seq(Frames)  BY DEF TypeOK, QueuesOK
  <1>2. Head(inbox) \in Frames /\ Tail(inbox) \in Seq(Frames)  BY <1>1, HeadTailProperties
  <1> QED  BY <1>2 DEF Frames

\* The number of the code on display never goes back.
LEMMA CodesGrow ==
  ASSUME TypeOK, Next
  PROVE  oneTime' \in Nat \ {0} /\ oneTime' >= oneTime
  <1> USE DEF TypeOK, ThreadOK
  <1>1. CASE Connects  BY <1>1 DEF Connects
  <1>2. CASE Stops  BY <1>2 DEF Stops
  <1>3. CASE LooksIdle  BY <1>3 DEF LooksIdle, NewCode
  <1>4. CASE \E s \in SessionId : Refuses(s)  BY <1>4 DEF Refuses, Takes, Rest, Rejected, Proceed
  <1>5. CASE \E s \in SessionId : AsksPerson(s)
    BY <1>5 DEF AsksPerson, Takes, Rest, JobOf, SecretFor
  <1>6. CASE \E s \in SessionId : AcceptsAtOnce(s)
    BY <1>6 DEF AcceptsAtOnce, Takes, Rest, JobOf, SecretFor, Accepted, Proceed
  <1>7. CASE Denies  BY <1>7 DEF Denies, Rejected, Proceed
  <1>8. CASE Allows  BY <1>8 DEF Allows, Accepted, Proceed
  <1>9. CASE LooksDeciding  BY <1>9 DEF LooksDeciding
  <1>10. CASE Looks  BY <1>10 DEF Looks
  <1>11. CASE GivesUp  BY <1>11 DEF GivesUp, Abandon
  <1>12. CASE ReadsReady  BY <1>12 DEF ReadsReady, Abandon, Proceed
  <1>13. CASE ReadsSignal  BY <1>13 DEF ReadsSignal, Abandon
  <1>14. CASE HandshakeFails  BY <1>14 DEF HandshakeFails, Abandon
  <1>15. CASE Established  BY <1>15 DEF Established
  <1>16. CASE LooksServing  BY <1>16 DEF LooksServing, Done
  <1>17. CASE ReadsTail  BY <1>17 DEF ReadsTail, Done
  <1>18. CASE Joins  BY <1>18 DEF Joins, JoinsMedia, NewCode
  <1>19. CASE RejectsBusy  BY <1>19 DEF RejectsBusy, Rejected, Proceed
  <1>20. CASE ReadsNothing  BY <1>20 DEF ReadsNothing, Ignored
  <1>21. CASE ReadFails  BY <1>21 DEF ReadFails
  <1>22. CASE SessionOver  BY <1>22 DEF SessionOver, MediaEnds
  <1>23. CASE CleanedUp  BY <1>23 DEF CleanedUp, MediaEnds
  <1>24. CASE \E s \in SessionId, kind \in PasswordKind, secret \in Secret : ControllerAsks(s, kind, secret)
    BY <1>24 DEF ControllerAsks, Sends, Moves
  <1>25. CASE \E s \in SessionId : ControllerAnswers(s)
    BY <1>25 DEF ControllerAnswers, Sends, Moves
  <1>26. CASE \E s \in SessionId : ControllerSendsIce(s)
    BY <1>26 DEF ControllerSendsIce, Sends, Moves
  <1>27. CASE \E s \in SessionId : ControllerLeaves(s)  BY <1>27 DEF ControllerLeaves, Sends, Moves
  <1>28. CASE WsBreaks  BY <1>28 DEF WsBreaks
  <1>29. CASE \E rid \in DOMAIN prompts, allow \in BOOLEAN : PersonSays(rid, allow)
    BY <1>29 DEF PersonSays
  <1>30. CASE PanelStops  BY <1>30 DEF PanelStops
  <1>31. CASE PanelRotates  BY <1>31 DEF PanelRotates
  <1>32. CASE PanelSwitches  BY <1>32 DEF PanelSwitches
<1> QED  BY <1>1, <1>2, <1>3, <1>4, <1>5, <1>6, <1>7, <1>8, <1>9, <1>10, <1>11, <1>12, <1>13,
           <1>14, <1>15, <1>16, <1>17, <1>18, <1>19, <1>20, <1>21, <1>22, <1>23, <1>24, <1>25,
           <1>26, <1>27, <1>28, <1>29, <1>30, <1>31, <1>32 DEF Next, HostStep, TimesOut, World,
           Requested

\* Every code, secret and job of before is still one.
LEMMA CodesKept ==
  ASSUME TypeOK, Next
  PROVE  Code \subseteq Code' /\ Secret \subseteq Secret' /\ Job \subseteq Job'
  <1>1. oneTime \in Nat \ {0}  BY DEF TypeOK, ThreadOK
  <1>2. oneTime' \in Nat \ {0} /\ oneTime' >= oneTime  BY CodesGrow
  <1>3. Code \subseteq Code'  BY <1>1, <1>2 DEF Code
  <1>4. Secret \subseteq Secret'  BY <1>3 DEF Secret
  <1>5. Job \subseteq Job'  BY <1>4 DEF Job
  <1> QED  BY <1>3, <1>4, <1>5

\* The same of the panel's answers.
LEMMA TailOfDecisions ==
  ASSUME TypeOK, decisions # <<>>
  PROVE  /\ Head(decisions) \in (Nat \ {0}) \X BOOLEAN
         /\ Tail(decisions) \in Seq((Nat \ {0}) \X BOOLEAN)
  <1>1. decisions \in Seq((Nat \ {0}) \X BOOLEAN)  BY DEF TypeOK, QueuesOK
  <1> QED  BY <1>1, HeadTailProperties

\* Reading an answer leaves answers that were given.
LEMMA TailWasSaid ==
  ASSUME TypeOK, Dialog, decisions # <<>>
  PROVE  \A i \in DOMAIN Tail(decisions) : Tail(decisions)[i] \in said
  <1>1. decisions \in Seq((Nat \ {0}) \X BOOLEAN)  BY DEF TypeOK, QueuesOK
  <1>2. \A i \in DOMAIN decisions : decisions[i] \in said  BY DEF Dialog
  <1>3. /\ Len(Tail(decisions)) = Len(decisions) - 1
        /\ \A i \in 1 .. Len(Tail(decisions)) : Tail(decisions)[i] = decisions[i + 1]
        /\ Tail(decisions) \in Seq((Nat \ {0}) \X BOOLEAN)
    BY <1>1
  <1> QED  BY <1>1, <1>2, <1>3

\* The yes that is heeded was said, and to the last dialog.
LEMMA YesWasSaid ==
  ASSUME TypeOK, Dialog, Allows
  PROVE  <<Len(prompts), TRUE>> \in said
  <1>1. Head(decisions) \in (Nat \ {0}) \X BOOLEAN  BY TailOfDecisions DEF Allows
  <1>2. PICK n \in Nat \ {0}, b \in BOOLEAN : Head(decisions) = <<n, b>>  BY <1>1
  <1>3. n = Len(prompts)  BY <1>2 DEF Allows, Answers
  <1>4. b = TRUE
    <2>1. Head(decisions)[2]  BY DEF Allows
    <2>2. Head(decisions)[2] = b  BY <1>2
    <2> QED  BY <2>1, <2>2, Zenon
  <1>5. decisions \in Seq((Nat \ {0}) \X BOOLEAN) /\ decisions # <<>>
    BY DEF Allows, TypeOK, QueuesOK
  <1>6. 1 \in DOMAIN decisions /\ Head(decisions) = decisions[1]  BY <1>5
  <1>7. decisions[1] \in said  BY <1>6 DEF Dialog
  <1> QED  BY <1>2, <1>3, <1>4, <1>6, <1>7

\* What a request leaves in the inbox.
LEMMA RestOK ==
  ASSUME TypeOK, NEW s \in SessionId, Takes(s)
  PROVE  Rest \in Seq(Frames)
  <1>1. CASE pending = {}
    <2>1. inbox # <<>>  BY <1>1 DEF Takes, NextIs
    <2> QED  BY <1>1, <2>1, HeadOfInbox DEF Rest
  <1>2. CASE pending # {}  BY <1>2 DEF Rest, TypeOK, QueuesOK
  <1> QED  BY <1>1, <1>2

\* The dialogs are numbered from 1.
LEMMA PromptsAreNumbered ==
  ASSUME TypeOK
  PROVE  Len(prompts) \in Nat /\ DOMAIN prompts = 1 .. Len(prompts)
  <1>1. prompts \in Seq(SessionId)  BY DEF TypeOK, QueuesOK
  <1> QED  BY <1>1, LenProperties

\* A request becomes a job with a secret that exists.
LEMMA JobOfIsJob ==
  ASSUME TypeOK, NEW s \in SessionId
  PROVE  JobOf(s) \in Job
  <1>1. request[s].kind \in PasswordKind  BY DEF TypeOK, WorldOK
  <1>2. oneTime \in Code /\ 0 \in Secret /\ Code \subseteq Secret
    BY DEF TypeOK, ThreadOK, Code, Secret
  <1> QED  BY <1>1, <1>2 DEF JobOf, SecretFor, Job

\* Phases is inductive: whoever goes on with a request has it, and a request is kept only past the end of a session.
LEMMA PhasesStep ==
  ASSUME TypeOK, Phases, Next
  PROVE  Phases'
  <1> USE DEF Phases, Waiting, InSession, NoJob, NoEst
  <1>1. CASE Connects  BY <1>1 DEF Connects
  <1>2. CASE Stops  BY <1>2 DEF Stops
  <1>3. CASE LooksIdle  BY <1>3 DEF LooksIdle, NewCode
  <1>4. CASE \E s \in SessionId : Refuses(s)  BY <1>4 DEF Refuses, Takes, Rest, Rejected, Proceed
  <1>5. CASE \E s \in SessionId : AsksPerson(s)
    BY <1>5 DEF AsksPerson, Takes, Rest, JobOf, SecretFor
  <1>6. CASE \E s \in SessionId : AcceptsAtOnce(s)
    BY <1>6 DEF AcceptsAtOnce, Takes, Rest, JobOf, SecretFor, Accepted, Proceed
  <1>7. CASE Denies  BY <1>7 DEF Denies, Rejected, Proceed
  <1>8. CASE Allows  BY <1>8 DEF Allows, Accepted, Proceed
  <1>9. CASE LooksDeciding  BY <1>9 DEF LooksDeciding
  <1>10. CASE Looks  BY <1>10 DEF Looks
  <1>11. CASE GivesUp  BY <1>11 DEF GivesUp, Abandon
  <1>12. CASE ReadsReady  BY <1>12, HeadOfInbox DEF ReadsReady, Abandon, Proceed
  <1>13. CASE ReadsSignal  BY <1>13 DEF ReadsSignal, Abandon, TypeOK, ThreadOK
  <1>14. CASE HandshakeFails  BY <1>14 DEF HandshakeFails, Abandon
  <1>15. CASE Established  BY <1>15 DEF Established
  <1>16. CASE LooksServing  BY <1>16 DEF LooksServing, Done
  <1>17. CASE ReadsTail  BY <1>17 DEF ReadsTail, Done
  <1>18. CASE Joins  BY <1>18 DEF Joins, JoinsMedia, NewCode
  <1>19. CASE RejectsBusy  BY <1>19 DEF RejectsBusy, Rejected, Proceed
  <1>20. CASE ReadsNothing  BY <1>20 DEF ReadsNothing, Ignored
  <1>21. CASE ReadFails  BY <1>21 DEF ReadFails, Loops
  <1>22. CASE SessionOver  BY <1>22 DEF SessionOver, MediaEnds
  <1>23. CASE CleanedUp  BY <1>23 DEF CleanedUp, MediaEnds
  <1>24. CASE \E s \in SessionId, kind \in PasswordKind, secret \in Secret : ControllerAsks(s, kind, secret)
    BY <1>24 DEF ControllerAsks, Sends, Moves
  <1>25. CASE \E s \in SessionId : ControllerAnswers(s)
    BY <1>25 DEF ControllerAnswers, Sends, Moves
  <1>26. CASE \E s \in SessionId : ControllerSendsIce(s)
    BY <1>26 DEF ControllerSendsIce, Sends, Moves
  <1>27. CASE \E s \in SessionId : ControllerLeaves(s)  BY <1>27 DEF ControllerLeaves, Sends, Moves
  <1>28. CASE WsBreaks  BY <1>28 DEF WsBreaks
  <1>29. CASE \E rid \in DOMAIN prompts, allow \in BOOLEAN : PersonSays(rid, allow)
    BY <1>29 DEF PersonSays
  <1>30. CASE PanelStops  BY <1>30 DEF PanelStops
  <1>31. CASE PanelRotates  BY <1>31 DEF PanelRotates
  <1>32. CASE PanelSwitches  BY <1>32 DEF PanelSwitches
<1> QED  BY <1>1, <1>2, <1>3, <1>4, <1>5, <1>6, <1>7, <1>8, <1>9, <1>10, <1>11, <1>12, <1>13,
           <1>14, <1>15, <1>16, <1>17, <1>18, <1>19, <1>20, <1>21, <1>22, <1>23, <1>24, <1>25,
           <1>26, <1>27, <1>28, <1>29, <1>30, <1>31, <1>32 DEF Next, HostStep, TimesOut, World,
           Requested

\* The types of the thread's own variables.
LEMMA ThreadOKStep ==
  ASSUME TypeOK, Phases, Next
  PROVE  ThreadOK'
  <1> USE DEF TypeOK, ThreadOK, Loops, Waiting, InSession, NoJob, NoEst
  <1>1. CASE Connects  BY <1>1, CodesGrow, CodesKept DEF Connects
  <1>2. CASE Stops  BY <1>2, CodesGrow, CodesKept DEF Stops
  <1>3. CASE LooksIdle  BY <1>3, CodesGrow, CodesKept DEF LooksIdle, NewCode
  <1>4. CASE \E s \in SessionId : Refuses(s)
    BY <1>4, CodesGrow, CodesKept DEF Refuses, Takes, Rest, Rejected, Proceed
  <1>5. CASE \E s \in SessionId : AsksPerson(s)
    BY <1>5, CodesGrow, CodesKept, JobOfIsJob DEF AsksPerson, Takes, Rest, JobOf, SecretFor
  <1>6. CASE \E s \in SessionId : AcceptsAtOnce(s)
BY <1>6, CodesGrow, CodesKept, JobOfIsJob DEF AcceptsAtOnce, Takes, Rest, JobOf, SecretFor,
       Accepted, Proceed
  <1>7. CASE Denies  BY <1>7, CodesGrow, CodesKept DEF Denies, Rejected, Proceed
  <1>8. CASE Allows  BY <1>8, CodesGrow, CodesKept DEF Allows, Accepted, Proceed
  <1>9. CASE LooksDeciding  BY <1>9, CodesGrow, CodesKept DEF LooksDeciding
  <1>10. CASE Looks  BY <1>10, CodesGrow, CodesKept DEF Looks
  <1>11. CASE GivesUp  BY <1>11, CodesGrow, CodesKept DEF GivesUp, Abandon
  <1>12. ASSUME ReadsReady  PROVE  ThreadOK'
    <2>1. Head(inbox).sid \in SessionId  BY <1>12, HeadOfInbox DEF ReadsReady, NextIs
    <2>2. est' \in {NoEst, [NoEst EXCEPT !.sid = Head(inbox).sid]}
      BY <1>12 DEF ReadsReady, Abandon
    <2>3. est' \in [sid : SessionId \cup {"none"}, got : SUBSET {"answer", "ice"},
                    answerOf : SessionId \cup {"none"}]
      BY <2>1, <2>2 DEF NoEst
    <2>4. job' \in {job, NoJob} /\ polling' = FALSE /\ media' = media /\ pending' = pending
      BY <1>12 DEF ReadsReady, Abandon
    <2>5. pc' \in {"idle", "establishing", "offline", "joinWs"}
      BY <1>12 DEF ReadsReady, Abandon, Proceed, WsLost
    <2> QED  BY <2>3, <2>4, <2>5, CodesGrow, CodesKept DEF TypeOK, ThreadOK, Loops, Waiting, InSession
  <1>13. ASSUME ReadsSignal  PROVE  ThreadOK'
    <2>1. inbox # <<>> /\ Head(inbox).type \in {"answer", "ice"}
      BY <1>13 DEF ReadsSignal, NextIs
    <2>2. Head(inbox).sid \in SessionId  BY <2>1, HeadOfInbox
    <2>3. est \in [sid : SessionId \cup {"none"}, got : SUBSET {"answer", "ice"},
                   answerOf : SessionId \cup {"none"}]
      BY DEF TypeOK, ThreadOK
    <2>4. est' \in [sid : SessionId \cup {"none"}, got : SUBSET {"answer", "ice"},
                    answerOf : SessionId \cup {"none"}]
      <3>1. CASE est' = NoEst  BY <3>1 DEF NoEst
      <3>2. CASE est' # NoEst
        <4>1. est' = [est EXCEPT !.got = est.got \cup {Head(inbox).type},
                                 !.answerOf = IF Head(inbox).type = "answer"
                                              THEN Head(inbox).sid ELSE est.answerOf]
          BY <1>13, <3>2 DEF ReadsSignal, Abandon
        <4>2. est.got \cup {Head(inbox).type} \subseteq {"answer", "ice"}  BY <2>1, <2>3
        <4>3. (IF Head(inbox).type = "answer" THEN Head(inbox).sid ELSE est.answerOf)
                \in SessionId \cup {"none"}
          BY <2>2, <2>3
        <4> QED  BY <2>3, <4>1, <4>2, <4>3
      <3> QED  BY <3>1, <3>2
    <2>5. job' \in {job, NoJob} /\ polling' = FALSE /\ media' = media /\ pending' = pending
      BY <1>13 DEF ReadsSignal, Abandon
    <2>6. pc' \in {"idle", "establishing", "handshaking"}
      BY <1>13 DEF ReadsSignal, Abandon
    <2> QED  BY <2>4, <2>5, <2>6, CodesGrow, CodesKept DEF TypeOK, ThreadOK, Loops, Waiting, InSession
  <1>14. CASE HandshakeFails  BY <1>14, CodesGrow, CodesKept DEF HandshakeFails, Abandon
  <1>15. CASE Established  BY <1>15, CodesGrow, CodesKept DEF Established
  <1>16. CASE LooksServing  BY <1>16, CodesGrow, CodesKept DEF LooksServing, Done
  <1>17. CASE ReadsTail  BY <1>17, CodesGrow, CodesKept, HeadOfInbox DEF ReadsTail, Done
  <1>18. CASE Joins  BY <1>18, CodesGrow, CodesKept DEF Joins, JoinsMedia, NewCode
  <1>19. CASE RejectsBusy  BY <1>19, CodesGrow, CodesKept DEF RejectsBusy, Rejected, Proceed
  <1>20. CASE ReadsNothing  BY <1>20, CodesGrow, CodesKept DEF ReadsNothing, Ignored
  <1>21. CASE ReadFails  BY <1>21, CodesGrow, CodesKept DEF ReadFails
  <1>22. CASE SessionOver  BY <1>22, CodesGrow, CodesKept DEF SessionOver, MediaEnds
  <1>23. CASE CleanedUp  BY <1>23, CodesGrow, CodesKept DEF CleanedUp, MediaEnds
  <1>24. CASE \E s \in SessionId, kind \in PasswordKind, secret \in Secret : ControllerAsks(s, kind, secret)
    BY <1>24, CodesGrow, CodesKept DEF ControllerAsks, Sends, Moves
  <1>25. CASE \E s \in SessionId : ControllerAnswers(s)
    BY <1>25, CodesGrow, CodesKept DEF ControllerAnswers, Sends, Moves
  <1>26. CASE \E s \in SessionId : ControllerSendsIce(s)
    BY <1>26, CodesGrow, CodesKept DEF ControllerSendsIce, Sends, Moves
  <1>27. CASE \E s \in SessionId : ControllerLeaves(s)
    BY <1>27, CodesGrow, CodesKept DEF ControllerLeaves, Sends, Moves
  <1>28. CASE WsBreaks  BY <1>28, CodesGrow, CodesKept DEF WsBreaks
  <1>29. CASE \E rid \in DOMAIN prompts, allow \in BOOLEAN : PersonSays(rid, allow)
    BY <1>29, CodesGrow, CodesKept DEF PersonSays
  <1>30. CASE PanelStops  BY <1>30, CodesGrow, CodesKept DEF PanelStops
  <1>31. CASE PanelRotates  BY <1>31, CodesGrow, CodesKept DEF PanelRotates
  <1>32. CASE PanelSwitches  BY <1>32, CodesGrow, CodesKept DEF PanelSwitches
<1> QED  BY <1>1, <1>2, <1>3, <1>4, <1>5, <1>6, <1>7, <1>8, <1>9, <1>10, <1>11, <1>12, <1>13,
           <1>14, <1>15, <1>16, <1>17, <1>18, <1>19, <1>20, <1>21, <1>22, <1>23, <1>24, <1>25,
           <1>26, <1>27, <1>28, <1>29, <1>30, <1>31, <1>32 DEF Next, HostStep, TimesOut, World,
           Requested

\* The types of the flags, of the stages and of the requests.
LEMMA WorldOKStep ==
  ASSUME TypeOK, Phases, Next
  PROVE  WorldOK'
  <1> USE DEF TypeOK, WorldOK, InProgress
  <1>1. CASE Connects  BY <1>1, CodesKept DEF Connects
  <1>2. CASE Stops  BY <1>2, CodesKept DEF Stops, Ended
  <1>3. CASE LooksIdle  BY <1>3, CodesKept DEF LooksIdle, NewCode
  <1>4. CASE \E s \in SessionId : Refuses(s)
    BY <1>4, CodesKept DEF Refuses, Takes, Rest, Rejected, Proceed
  <1>5. CASE \E s \in SessionId : AsksPerson(s)
    BY <1>5, CodesKept DEF AsksPerson, Takes, Rest, JobOf, SecretFor
  <1>6. CASE \E s \in SessionId : AcceptsAtOnce(s)
    BY <1>6, CodesKept DEF AcceptsAtOnce, Takes, Rest, JobOf, SecretFor, Accepted, Proceed
  <1>7. CASE Denies  BY <1>7, CodesKept DEF Denies, Rejected, Proceed
  <1>8. CASE Allows  BY <1>8, CodesKept DEF Allows, Accepted, Proceed
  <1>9. CASE LooksDeciding  BY <1>9, CodesKept DEF LooksDeciding
  <1>10. CASE Looks  BY <1>10, CodesKept DEF Looks
  <1>11. CASE GivesUp  BY <1>11, CodesKept DEF GivesUp, Abandon
  <1>12. CASE ReadsReady  BY <1>12, CodesKept, HeadOfInbox DEF ReadsReady, Abandon, Proceed
  <1>13. CASE ReadsSignal  BY <1>13, CodesKept, HeadOfInbox DEF ReadsSignal, Abandon
  <1>14. CASE HandshakeFails  BY <1>14, CodesKept DEF HandshakeFails, Abandon
  <1>15. CASE Established  BY <1>15, CodesKept DEF Established
  <1>16. CASE LooksServing  BY <1>16, CodesKept DEF LooksServing, Done
  <1>17. CASE ReadsTail  BY <1>17, CodesKept, HeadOfInbox DEF ReadsTail, Done
  <1>18. CASE Joins  BY <1>18, CodesKept DEF Joins, JoinsMedia, NewCode
  <1>19. CASE RejectsBusy  BY <1>19, CodesKept, HeadOfInbox DEF RejectsBusy, Rejected, Proceed
  <1>20. CASE ReadsNothing  BY <1>20, CodesKept DEF ReadsNothing, Ignored
  <1>21. CASE ReadFails  BY <1>21, CodesKept DEF ReadFails
  <1>22. CASE SessionOver  BY <1>22, CodesKept DEF SessionOver, MediaEnds
  <1>23. CASE CleanedUp  BY <1>23, CodesKept DEF CleanedUp, MediaEnds
  <1>24. CASE \E s \in SessionId, kind \in PasswordKind, secret \in Secret : ControllerAsks(s, kind, secret)
    BY <1>24, CodesKept DEF ControllerAsks, Sends, Moves
  <1>25. CASE \E s \in SessionId : ControllerAnswers(s)
    BY <1>25, CodesKept DEF ControllerAnswers, Sends, Moves
  <1>26. CASE \E s \in SessionId : ControllerSendsIce(s)
    BY <1>26, CodesKept DEF ControllerSendsIce, Sends, Moves
  <1>27. CASE \E s \in SessionId : ControllerLeaves(s)
    BY <1>27, CodesKept DEF ControllerLeaves, Sends, Moves
  <1>28. CASE WsBreaks  BY <1>28, CodesKept DEF WsBreaks, Ended
  <1>29. ASSUME NEW rid \in DOMAIN prompts, NEW allow \in BOOLEAN, PersonSays(rid, allow)  PROVE  WorldOK'
    <2>1. rid \in Nat \ {0}  BY PromptsAreNumbered
    <2>2. <<rid, allow>> \in (Nat \ {0}) \X BOOLEAN  BY <2>1
    <2> QED  BY <1>29, <2>2, CodesKept DEF PersonSays, thread, world, ghosts, TypeOK, WorldOK
  <1>30. CASE PanelStops  BY <1>30, CodesKept DEF PanelStops
  <1>31. CASE PanelRotates  BY <1>31, CodesKept DEF PanelRotates
  <1>32. CASE PanelSwitches  BY <1>32, CodesKept DEF PanelSwitches
<1> QED  BY <1>1, <1>2, <1>3, <1>4, <1>5, <1>6, <1>7, <1>8, <1>9, <1>10, <1>11, <1>12, <1>13,
           <1>14, <1>15, <1>16, <1>17, <1>18, <1>19, <1>20, <1>21, <1>22, <1>23, <1>24, <1>25,
           <1>26, <1>27, <1>28, <1>29, <1>30, <1>31, <1>32 DEF Next, HostStep, TimesOut, World,
           Requested

\* The types of the three queues.
LEMMA QueuesOKStep ==
  ASSUME TypeOK, Phases, Next
  PROVE  QueuesOK'
  <1> USE DEF TypeOK, QueuesOK, Frame, Frames
  <1>1. CASE Connects  BY <1>1, HeadOfInbox DEF Connects
  <1>2. CASE Stops  BY <1>2, HeadOfInbox DEF Stops
  <1>3. CASE LooksIdle  BY <1>3, HeadOfInbox DEF LooksIdle, NewCode
  <1>4. CASE \E s \in SessionId : Refuses(s)
    BY <1>4, HeadOfInbox DEF Refuses, Takes, Rest, Rejected, Proceed
  <1>5. ASSUME NEW s \in SessionId, AsksPerson(s)  PROVE  QueuesOK'
    <2>1. inbox' \in Seq(Frames)  BY <1>5, RestOK DEF AsksPerson
    <2>2. prompts' \in Seq(SessionId)
      BY <1>5 DEF AsksPerson, TypeOK, QueuesOK
    <2>3. decisions' = <<>>  BY <1>5 DEF AsksPerson
    <2> QED  BY <2>1, <2>2, <2>3 DEF QueuesOK
  <1>6. ASSUME NEW s \in SessionId, AcceptsAtOnce(s)  PROVE  QueuesOK'
    <2>1. Rest \in Seq(Frames)  BY <1>6, RestOK DEF AcceptsAtOnce
    <2>2. inbox' \in {Rest, Append(Rest, Frame("ready", s))}
      BY <1>6 DEF AcceptsAtOnce, Accepted
    <2>3. Frame("ready", s) \in Frames  BY DEF Frame, Frames
    <2>4. Append(Rest, Frame("ready", s)) \in Seq(Frames)  BY <2>1, <2>3, AppendProperties
    <2>5. inbox' \in Seq(Frames)  BY <2>1, <2>2, <2>4
    <2> QED  BY <1>6, <2>5 DEF AcceptsAtOnce, TypeOK, QueuesOK
  <1>7. ASSUME Denies  PROVE  QueuesOK'
    <2>1. decisions' = decisions \/ (decisions # <<>> /\ decisions' = Tail(decisions))
      BY <1>7 DEF Denies
    <2>2. decisions' \in Seq((Nat \ {0}) \X BOOLEAN)
      BY <2>1, TailOfDecisions DEF TypeOK, QueuesOK
    <2> QED  BY <1>7, <2>2 DEF Denies, TypeOK, QueuesOK
  <1>8. ASSUME Allows  PROVE  QueuesOK'
    <2>1. inbox' \in {inbox, Append(inbox, Frame("ready", job.sid))}
      BY <1>8 DEF Allows, Accepted
    <2>2. job.sid \in SessionId  BY <1>8 DEF Allows, Phases, Waiting
    <2>3. Frame("ready", job.sid) \in Frames  BY <2>2 DEF Frame, Frames
    <2>4. inbox \in Seq(Frames)  BY DEF TypeOK, QueuesOK
    <2>5. Append(inbox, Frame("ready", job.sid)) \in Seq(Frames)  BY <2>3, <2>4, AppendProperties
    <2>6. inbox' \in Seq(Frames)  BY <2>1, <2>4, <2>5
    <2>7. decisions' \in Seq((Nat \ {0}) \X BOOLEAN)  BY <1>8, TailOfDecisions DEF Allows
    <2> QED  BY <1>8, <2>6, <2>7 DEF Allows, TypeOK, QueuesOK
  <1>9. ASSUME LooksDeciding  PROVE  QueuesOK'
    <2>1. decisions' = decisions \/ (decisions # <<>> /\ decisions' = Tail(decisions))
      BY <1>9 DEF LooksDeciding
    <2>2. decisions' \in Seq((Nat \ {0}) \X BOOLEAN)
      BY <2>1, TailOfDecisions DEF TypeOK, QueuesOK
    <2> QED  BY <1>9, <2>2 DEF LooksDeciding, thread, world, ghosts, TypeOK, QueuesOK
  <1>10. CASE Looks  BY <1>10, HeadOfInbox DEF Looks
  <1>11. CASE GivesUp  BY <1>11, HeadOfInbox DEF GivesUp, Abandon
  <1>12. CASE ReadsReady  BY <1>12, HeadOfInbox DEF ReadsReady, Abandon, Proceed
  <1>13. CASE ReadsSignal  BY <1>13, HeadOfInbox DEF ReadsSignal, Abandon
  <1>14. CASE HandshakeFails  BY <1>14, HeadOfInbox DEF HandshakeFails, Abandon
  <1>15. CASE Established  BY <1>15, HeadOfInbox DEF Established
  <1>16. CASE LooksServing  BY <1>16, HeadOfInbox DEF LooksServing, Done
  <1>17. CASE ReadsTail  BY <1>17, HeadOfInbox DEF ReadsTail, Done
  <1>18. CASE Joins  BY <1>18, HeadOfInbox DEF Joins, JoinsMedia, NewCode
  <1>19. CASE RejectsBusy  BY <1>19, HeadOfInbox DEF RejectsBusy, Rejected, Proceed
  <1>20. CASE ReadsNothing  BY <1>20, HeadOfInbox DEF ReadsNothing, Ignored
  <1>21. CASE ReadFails  BY <1>21, HeadOfInbox DEF ReadFails
  <1>22. CASE SessionOver  BY <1>22, HeadOfInbox DEF SessionOver, MediaEnds
  <1>23. CASE CleanedUp  BY <1>23, HeadOfInbox DEF CleanedUp, MediaEnds
  <1>24. CASE \E s \in SessionId, kind \in PasswordKind, secret \in Secret : ControllerAsks(s, kind, secret)
    BY <1>24, HeadOfInbox DEF ControllerAsks, Sends, Moves
  <1>25. CASE \E s \in SessionId : ControllerAnswers(s)
    BY <1>25, HeadOfInbox DEF ControllerAnswers, Sends, Moves
  <1>26. CASE \E s \in SessionId : ControllerSendsIce(s)
    BY <1>26, HeadOfInbox DEF ControllerSendsIce, Sends, Moves
  <1>27. CASE \E s \in SessionId : ControllerLeaves(s)
    BY <1>27, HeadOfInbox DEF ControllerLeaves, Sends, Moves
  <1>28. ASSUME WsBreaks  PROVE  QueuesOK'
    <2>1. inbox' \in {inbox, <<>>}  BY <1>28 DEF WsBreaks
    <2>2. inbox \in Seq(Frames) /\ <<>> \in Seq(Frames)  BY DEF TypeOK, QueuesOK
    <2>3. inbox' \in Seq(Frames)  BY <2>1, <2>2
    <2> QED  BY <1>28, <2>3 DEF WsBreaks, TypeOK, QueuesOK
  <1>29. CASE \E rid \in DOMAIN prompts, allow \in BOOLEAN : PersonSays(rid, allow)
    BY <1>29, HeadOfInbox DEF PersonSays
  <1>30. CASE PanelStops  BY <1>30, HeadOfInbox DEF PanelStops
  <1>31. CASE PanelRotates  BY <1>31, HeadOfInbox DEF PanelRotates
  <1>32. CASE PanelSwitches  BY <1>32, HeadOfInbox DEF PanelSwitches
<1> QED  BY <1>1, <1>2, <1>3, <1>4, <1>5, <1>6, <1>7, <1>8, <1>9, <1>10, <1>11, <1>12, <1>13,
           <1>14, <1>15, <1>16, <1>17, <1>18, <1>19, <1>20, <1>21, <1>22, <1>23, <1>24, <1>25,
           <1>26, <1>27, <1>28, <1>29, <1>30, <1>31, <1>32 DEF Next, HostStep, TimesOut, World,
           Requested

\* The types of the three records of what happened; a used code was on display.
LEMMA GhostsOKStep ==
  ASSUME TypeOK, Phases, CodeOnDisplay, Next
  PROVE  GhostsOK'
  <1> USE DEF TypeOK, GhostsOK
  <1>1. CASE Connects  BY <1>1, CodesKept DEF Connects
  <1>2. CASE Stops  BY <1>2, CodesKept DEF Stops
  <1>3. CASE LooksIdle  BY <1>3, CodesKept DEF LooksIdle, NewCode
  <1>4. CASE \E s \in SessionId : Refuses(s)
    BY <1>4, CodesKept DEF Refuses, Takes, Rest, Rejected, Proceed
  <1>5. CASE \E s \in SessionId : AsksPerson(s)
    BY <1>5, CodesKept DEF AsksPerson, Takes, Rest, JobOf, SecretFor
  <1>6. CASE \E s \in SessionId : AcceptsAtOnce(s)
    BY <1>6, CodesKept DEF AcceptsAtOnce, Takes, Rest, JobOf, SecretFor, Accepted, Proceed
  <1>7. CASE Denies  BY <1>7, CodesKept DEF Denies, Rejected, Proceed
  <1>8. ASSUME Allows  PROVE  GhostsOK'
    <2>1. job.sid \in SessionId  BY <1>8 DEF Allows, Phases, Waiting
    <2>2. <<job.sid, Len(prompts)>> \in SessionId \X Nat  BY <2>1, PromptsAreNumbered
    <2> QED  BY <1>8, <2>2, CodesKept DEF Allows, Accepted, TypeOK, GhostsOK
  <1>9. CASE LooksDeciding  BY <1>9, CodesKept DEF LooksDeciding
  <1>10. CASE Looks  BY <1>10, CodesKept DEF Looks
  <1>11. CASE GivesUp  BY <1>11, CodesKept DEF GivesUp, Abandon
  <1>12. CASE ReadsReady  BY <1>12, CodesKept DEF ReadsReady, Abandon, Proceed
  <1>13. CASE ReadsSignal  BY <1>13, CodesKept DEF ReadsSignal, Abandon
  <1>14. CASE HandshakeFails  BY <1>14, CodesKept DEF HandshakeFails, Abandon
  <1>15. ASSUME Established  PROVE  GhostsOK'
    <2>1. est.sid \in SessionId  BY <1>15 DEF Established, Phases
    <2>2. job.kind = "one_time" => job.secret \in Code
      BY DEF CodeOnDisplay, Code, TypeOK, ThreadOK
    <2>3. used' \subseteq Code \X SessionId  BY <1>15, <2>1, <2>2 DEF Established, TypeOK, GhostsOK
    <2> QED  BY <1>15, <2>3, CodesKept DEF Established, TypeOK, GhostsOK
  <1>16. CASE LooksServing  BY <1>16, CodesKept DEF LooksServing, Done
  <1>17. CASE ReadsTail  BY <1>17, CodesKept, HeadOfInbox DEF ReadsTail, Done
  <1>18. CASE Joins  BY <1>18, CodesKept DEF Joins, JoinsMedia, NewCode
  <1>19. CASE RejectsBusy  BY <1>19, CodesKept, HeadOfInbox DEF RejectsBusy, Rejected, Proceed
  <1>20. CASE ReadsNothing  BY <1>20, CodesKept DEF ReadsNothing, Ignored
  <1>21. CASE ReadFails  BY <1>21, CodesKept DEF ReadFails
  <1>22. CASE SessionOver  BY <1>22, CodesKept DEF SessionOver, MediaEnds
  <1>23. CASE CleanedUp  BY <1>23, CodesKept DEF CleanedUp, MediaEnds
  <1>24. CASE \E s \in SessionId, kind \in PasswordKind, secret \in Secret : ControllerAsks(s, kind, secret)
    BY <1>24, CodesKept DEF ControllerAsks, Sends, Moves
  <1>25. CASE \E s \in SessionId : ControllerAnswers(s)
    BY <1>25, CodesKept DEF ControllerAnswers, Sends, Moves
  <1>26. CASE \E s \in SessionId : ControllerSendsIce(s)
    BY <1>26, CodesKept DEF ControllerSendsIce, Sends, Moves
  <1>27. CASE \E s \in SessionId : ControllerLeaves(s)
    BY <1>27, CodesKept DEF ControllerLeaves, Sends, Moves
  <1>28. CASE WsBreaks  BY <1>28, CodesKept DEF WsBreaks
  <1>29. CASE \E rid \in DOMAIN prompts, allow \in BOOLEAN : PersonSays(rid, allow)
    BY <1>29, CodesKept DEF PersonSays
  <1>30. CASE PanelStops  BY <1>30, CodesKept DEF PanelStops
  <1>31. CASE PanelRotates  BY <1>31, CodesKept DEF PanelRotates
  <1>32. CASE PanelSwitches  BY <1>32, CodesKept DEF PanelSwitches
<1> QED  BY <1>1, <1>2, <1>3, <1>4, <1>5, <1>6, <1>7, <1>8, <1>9, <1>10, <1>11, <1>12, <1>13,
           <1>14, <1>15, <1>16, <1>17, <1>18, <1>19, <1>20, <1>21, <1>22, <1>23, <1>24, <1>25,
           <1>26, <1>27, <1>28, <1>29, <1>30, <1>31, <1>32 DEF Next, HostStep, TimesOut, World,
           Requested

\* A media thread starts in a session and the thread leaves a session by joining it.
LEMMA OneCaptureStep ==
  ASSUME OneCapture, Next
  PROVE  OneCapture'
  <1> USE DEF OneCapture, Waiting, InSession, Loops
  <1>1. CASE Connects  BY <1>1 DEF Connects
  <1>2. CASE Stops  BY <1>2 DEF Stops
  <1>3. CASE LooksIdle  BY <1>3 DEF LooksIdle, NewCode
  <1>4. CASE \E s \in SessionId : Refuses(s)  BY <1>4 DEF Refuses, Takes, Rest, Rejected, Proceed
  <1>5. CASE \E s \in SessionId : AsksPerson(s)
    BY <1>5 DEF AsksPerson, Takes, Rest, JobOf, SecretFor
  <1>6. CASE \E s \in SessionId : AcceptsAtOnce(s)
    BY <1>6 DEF AcceptsAtOnce, Takes, Rest, JobOf, SecretFor, Accepted, Proceed
  <1>7. CASE Denies  BY <1>7 DEF Denies, Rejected, Proceed
  <1>8. CASE Allows  BY <1>8 DEF Allows, Accepted, Proceed
  <1>9. CASE LooksDeciding  BY <1>9 DEF LooksDeciding
  <1>10. CASE Looks  BY <1>10 DEF Looks
  <1>11. CASE GivesUp  BY <1>11 DEF GivesUp, Abandon
  <1>12. CASE ReadsReady  BY <1>12 DEF ReadsReady, Abandon, Proceed
  <1>13. CASE ReadsSignal  BY <1>13 DEF ReadsSignal, Abandon
  <1>14. CASE HandshakeFails  BY <1>14 DEF HandshakeFails, Abandon
  <1>15. CASE Established  BY <1>15 DEF Established
  <1>16. CASE LooksServing  BY <1>16 DEF LooksServing, Done
  <1>17. CASE ReadsTail  BY <1>17 DEF ReadsTail, Done
  <1>18. CASE Joins  BY <1>18 DEF Joins, JoinsMedia, NewCode
  <1>19. CASE RejectsBusy  BY <1>19 DEF RejectsBusy, Rejected, Proceed
  <1>20. CASE ReadsNothing  BY <1>20 DEF ReadsNothing, Ignored
  <1>21. CASE ReadFails  BY <1>21 DEF ReadFails
  <1>22. CASE SessionOver  BY <1>22 DEF SessionOver, MediaEnds
  <1>23. CASE CleanedUp  BY <1>23 DEF CleanedUp, MediaEnds
  <1>24. CASE \E s \in SessionId, kind \in PasswordKind, secret \in Secret : ControllerAsks(s, kind, secret)
    BY <1>24 DEF ControllerAsks, Sends, Moves
  <1>25. CASE \E s \in SessionId : ControllerAnswers(s)
    BY <1>25 DEF ControllerAnswers, Sends, Moves
  <1>26. CASE \E s \in SessionId : ControllerSendsIce(s)
    BY <1>26 DEF ControllerSendsIce, Sends, Moves
  <1>27. CASE \E s \in SessionId : ControllerLeaves(s)  BY <1>27 DEF ControllerLeaves, Sends, Moves
  <1>28. CASE WsBreaks  BY <1>28 DEF WsBreaks
  <1>29. CASE \E rid \in DOMAIN prompts, allow \in BOOLEAN : PersonSays(rid, allow)
    BY <1>29 DEF PersonSays
  <1>30. CASE PanelStops  BY <1>30 DEF PanelStops
  <1>31. CASE PanelRotates  BY <1>31 DEF PanelRotates
  <1>32. CASE PanelSwitches  BY <1>32 DEF PanelSwitches
<1> QED  BY <1>1, <1>2, <1>3, <1>4, <1>5, <1>6, <1>7, <1>8, <1>9, <1>10, <1>11, <1>12, <1>13,
           <1>14, <1>15, <1>16, <1>17, <1>18, <1>19, <1>20, <1>21, <1>22, <1>23, <1>24, <1>25,
           <1>26, <1>27, <1>28, <1>29, <1>30, <1>31, <1>32 DEF Next, HostStep, TimesOut, World,
           Requested

\* A request that was read is answered or kept.
LEMMA NoRequestForgottenStep ==
  ASSUME TypeOK, Phases, NoRequestForgotten, Next
  PROVE  NoRequestForgotten'
  <1> USE DEF NoRequestForgotten
  <1>1. CASE Connects  BY <1>1 DEF Connects
  <1>2. CASE Stops  BY <1>2 DEF Stops
  <1>3. CASE LooksIdle  BY <1>3 DEF LooksIdle, NewCode
  <1>4. CASE \E s \in SessionId : Refuses(s)
    BY <1>4 DEF Refuses, Takes, Rest, Rejected, Proceed, Phases
  <1>5. CASE \E s \in SessionId : AsksPerson(s)
    BY <1>5 DEF AsksPerson, Takes, Rest, JobOf, SecretFor, Phases
  <1>6. CASE \E s \in SessionId : AcceptsAtOnce(s)
    BY <1>6 DEF AcceptsAtOnce, Takes, Rest, JobOf, SecretFor, Accepted, Proceed, Phases
  <1>7. CASE Denies  BY <1>7 DEF Denies, Rejected, Proceed
  <1>8. CASE Allows  BY <1>8 DEF Allows, Accepted, Proceed
  <1>9. CASE LooksDeciding  BY <1>9 DEF LooksDeciding
  <1>10. CASE Looks  BY <1>10 DEF Looks
  <1>11. CASE GivesUp  BY <1>11 DEF GivesUp, Abandon, Phases
  <1>12. CASE ReadsReady  BY <1>12 DEF ReadsReady, Abandon, Proceed, Phases
  <1>13. CASE ReadsSignal  BY <1>13 DEF ReadsSignal, Abandon, Phases
  <1>14. CASE HandshakeFails  BY <1>14 DEF HandshakeFails, Abandon, Phases
  <1>15. CASE Established  BY <1>15 DEF Established, Phases
  <1>16. CASE LooksServing  BY <1>16 DEF LooksServing, Done, Phases
  <1>17. CASE ReadsTail  BY <1>17 DEF ReadsTail, Done, Phases
  <1>18. CASE Joins  BY <1>18 DEF Joins, JoinsMedia, NewCode, Phases
  <1>19. CASE RejectsBusy  BY <1>19 DEF RejectsBusy, Rejected, Proceed, Phases, Waiting, InSession
  <1>20. CASE ReadsNothing  BY <1>20 DEF ReadsNothing, Ignored
  <1>21. CASE ReadFails  BY <1>21 DEF ReadFails, Phases, Loops, Waiting
  <1>22. CASE SessionOver  BY <1>22 DEF SessionOver, MediaEnds
  <1>23. CASE CleanedUp  BY <1>23 DEF CleanedUp, MediaEnds
  <1>24. CASE \E s \in SessionId, kind \in PasswordKind, secret \in Secret : ControllerAsks(s, kind, secret)
    BY <1>24 DEF ControllerAsks, Sends, Moves
  <1>25. CASE \E s \in SessionId : ControllerAnswers(s)
    BY <1>25 DEF ControllerAnswers, Sends, Moves
  <1>26. CASE \E s \in SessionId : ControllerSendsIce(s)
    BY <1>26 DEF ControllerSendsIce, Sends, Moves
  <1>27. CASE \E s \in SessionId : ControllerLeaves(s)  BY <1>27 DEF ControllerLeaves, Sends, Moves
  <1>28. CASE WsBreaks  BY <1>28 DEF WsBreaks
  <1>29. CASE \E rid \in DOMAIN prompts, allow \in BOOLEAN : PersonSays(rid, allow)
    BY <1>29 DEF PersonSays
  <1>30. CASE PanelStops  BY <1>30 DEF PanelStops
  <1>31. CASE PanelRotates  BY <1>31 DEF PanelRotates
  <1>32. CASE PanelSwitches  BY <1>32 DEF PanelSwitches
<1> QED  BY <1>1, <1>2, <1>3, <1>4, <1>5, <1>6, <1>7, <1>8, <1>9, <1>10, <1>11, <1>12, <1>13,
           <1>14, <1>15, <1>16, <1>17, <1>18, <1>19, <1>20, <1>21, <1>22, <1>23, <1>24, <1>25,
           <1>26, <1>27, <1>28, <1>29, <1>30, <1>31, <1>32 DEF Next, HostStep, TimesOut, World,
           Requested

\* Codes change only when no request is in hand.
LEMMA CodeOnDisplayStep ==
  ASSUME TypeOK, Phases, CodeOnDisplay, Next
  PROVE  CodeOnDisplay'
  <1> USE DEF CodeOnDisplay, NoJob
  <1>1. CASE Connects  BY <1>1 DEF Connects
  <1>2. CASE Stops  BY <1>2 DEF Stops
  <1>3. CASE LooksIdle  BY <1>3 DEF LooksIdle, NewCode, Phases
  <1>4. CASE \E s \in SessionId : Refuses(s)  BY <1>4 DEF Refuses, Takes, Rest, Rejected, Proceed
  <1>5. CASE \E s \in SessionId : AsksPerson(s)
    BY <1>5 DEF AsksPerson, Takes, Rest, JobOf, SecretFor
  <1>6. CASE \E s \in SessionId : AcceptsAtOnce(s)
    BY <1>6 DEF AcceptsAtOnce, Takes, Rest, JobOf, SecretFor, Accepted, Proceed
  <1>7. CASE Denies  BY <1>7 DEF Denies, Rejected, Proceed
  <1>8. CASE Allows  BY <1>8 DEF Allows, Accepted, Proceed
  <1>9. CASE LooksDeciding  BY <1>9 DEF LooksDeciding
  <1>10. CASE Looks  BY <1>10 DEF Looks
  <1>11. CASE GivesUp  BY <1>11 DEF GivesUp, Abandon
  <1>12. CASE ReadsReady  BY <1>12 DEF ReadsReady, Abandon, Proceed
  <1>13. CASE ReadsSignal  BY <1>13 DEF ReadsSignal, Abandon
  <1>14. CASE HandshakeFails  BY <1>14 DEF HandshakeFails, Abandon
  <1>15. CASE Established  BY <1>15 DEF Established
  <1>16. CASE LooksServing  BY <1>16 DEF LooksServing, Done
  <1>17. CASE ReadsTail  BY <1>17 DEF ReadsTail, Done
  <1>18. CASE Joins  BY <1>18 DEF Joins, JoinsMedia, NewCode
  <1>19. CASE RejectsBusy  BY <1>19 DEF RejectsBusy, Rejected, Proceed
  <1>20. CASE ReadsNothing  BY <1>20 DEF ReadsNothing, Ignored
  <1>21. CASE ReadFails  BY <1>21 DEF ReadFails
  <1>22. CASE SessionOver  BY <1>22 DEF SessionOver, MediaEnds
  <1>23. CASE CleanedUp  BY <1>23 DEF CleanedUp, MediaEnds
  <1>24. CASE \E s \in SessionId, kind \in PasswordKind, secret \in Secret : ControllerAsks(s, kind, secret)
    BY <1>24 DEF ControllerAsks, Sends, Moves
  <1>25. CASE \E s \in SessionId : ControllerAnswers(s)
    BY <1>25 DEF ControllerAnswers, Sends, Moves
  <1>26. CASE \E s \in SessionId : ControllerSendsIce(s)
    BY <1>26 DEF ControllerSendsIce, Sends, Moves
  <1>27. CASE \E s \in SessionId : ControllerLeaves(s)  BY <1>27 DEF ControllerLeaves, Sends, Moves
  <1>28. CASE WsBreaks  BY <1>28 DEF WsBreaks
  <1>29. CASE \E rid \in DOMAIN prompts, allow \in BOOLEAN : PersonSays(rid, allow)
    BY <1>29 DEF PersonSays
  <1>30. CASE PanelStops  BY <1>30 DEF PanelStops
  <1>31. CASE PanelRotates  BY <1>31 DEF PanelRotates
  <1>32. CASE PanelSwitches  BY <1>32 DEF PanelSwitches
<1> QED  BY <1>1, <1>2, <1>3, <1>4, <1>5, <1>6, <1>7, <1>8, <1>9, <1>10, <1>11, <1>12, <1>13,
           <1>14, <1>15, <1>16, <1>17, <1>18, <1>19, <1>20, <1>21, <1>22, <1>23, <1>24, <1>25,
           <1>26, <1>27, <1>28, <1>29, <1>30, <1>31, <1>32 DEF Next, HostStep, TimesOut, World,
           Requested

\* The dialog shown is the last, and answers come from the person.
LEMMA DialogStep ==
  ASSUME TypeOK, Dialog, Next
  PROVE  Dialog'
  <1> USE DEF Dialog
  <1>1. CASE Connects  BY <1>1 DEF Connects
  <1>2. CASE Stops  BY <1>2 DEF Stops
  <1>3. CASE LooksIdle  BY <1>3 DEF LooksIdle, NewCode
  <1>4. CASE \E s \in SessionId : Refuses(s)  BY <1>4 DEF Refuses, Takes, Rest, Rejected, Proceed
  <1>5. CASE \E s \in SessionId : AsksPerson(s)
    BY <1>5 DEF AsksPerson, Takes, Rest, JobOf, SecretFor
  <1>6. CASE \E s \in SessionId : AcceptsAtOnce(s)
    BY <1>6 DEF AcceptsAtOnce, Takes, Rest, JobOf, SecretFor, Accepted, Proceed
  <1>7. ASSUME Denies  PROVE  Dialog'
    <2>1. decisions' = decisions \/ (decisions # <<>> /\ decisions' = Tail(decisions))
      BY <1>7 DEF Denies
    <2>2. \A i \in DOMAIN decisions' : decisions'[i] \in said
      BY <2>1, TailWasSaid DEF Dialog
    <2> QED  BY <1>7, <2>2 DEF Denies, Rejected, Proceed, WsLost, Dialog
  <1>8. ASSUME Allows  PROVE  Dialog'
    <2>1. \A i \in DOMAIN decisions' : decisions'[i] \in said
      BY <1>8, TailWasSaid DEF Allows
    <2>2. pc' # "deciding"  BY <1>8 DEF Allows, Accepted, Proceed, WsLost
    <2> QED  BY <1>8, <2>1, <2>2 DEF Allows, Dialog
  <1>9. CASE LooksDeciding  BY <1>9 DEF LooksDeciding
  <1>10. CASE Looks  BY <1>10 DEF Looks
  <1>11. CASE GivesUp  BY <1>11 DEF GivesUp, Abandon
  <1>12. CASE ReadsReady  BY <1>12 DEF ReadsReady, Abandon, Proceed
  <1>13. CASE ReadsSignal  BY <1>13 DEF ReadsSignal, Abandon
  <1>14. CASE HandshakeFails  BY <1>14 DEF HandshakeFails, Abandon
  <1>15. CASE Established  BY <1>15 DEF Established
  <1>16. CASE LooksServing  BY <1>16 DEF LooksServing, Done
  <1>17. CASE ReadsTail  BY <1>17 DEF ReadsTail, Done
  <1>18. CASE Joins  BY <1>18 DEF Joins, JoinsMedia, NewCode
  <1>19. CASE RejectsBusy  BY <1>19 DEF RejectsBusy, Rejected, Proceed
  <1>20. CASE ReadsNothing  BY <1>20 DEF ReadsNothing, Ignored
  <1>21. CASE ReadFails  BY <1>21 DEF ReadFails
  <1>22. CASE SessionOver  BY <1>22 DEF SessionOver, MediaEnds
  <1>23. CASE CleanedUp  BY <1>23 DEF CleanedUp, MediaEnds
  <1>24. CASE \E s \in SessionId, kind \in PasswordKind, secret \in Secret : ControllerAsks(s, kind, secret)
    BY <1>24 DEF ControllerAsks, Sends, Moves
  <1>25. CASE \E s \in SessionId : ControllerAnswers(s)
    BY <1>25 DEF ControllerAnswers, Sends, Moves
  <1>26. CASE \E s \in SessionId : ControllerSendsIce(s)
    BY <1>26 DEF ControllerSendsIce, Sends, Moves
  <1>27. CASE \E s \in SessionId : ControllerLeaves(s)  BY <1>27 DEF ControllerLeaves, Sends, Moves
  <1>28. CASE WsBreaks  BY <1>28 DEF WsBreaks
  <1>29. CASE \E rid \in DOMAIN prompts, allow \in BOOLEAN : PersonSays(rid, allow)
    BY <1>29 DEF PersonSays
  <1>30. CASE PanelStops  BY <1>30 DEF PanelStops
  <1>31. CASE PanelRotates  BY <1>31 DEF PanelRotates
  <1>32. CASE PanelSwitches  BY <1>32 DEF PanelSwitches
<1> QED  BY <1>1, <1>2, <1>3, <1>4, <1>5, <1>6, <1>7, <1>8, <1>9, <1>10, <1>11, <1>12, <1>13,
           <1>14, <1>15, <1>16, <1>17, <1>18, <1>19, <1>20, <1>21, <1>22, <1>23, <1>24, <1>25,
           <1>26, <1>27, <1>28, <1>29, <1>30, <1>31, <1>32 DEF Next, HostStep, TimesOut, World,
           Requested

\* A request is accepted without a dialog, or on a yes to its own.
LEMMA ConsentGivenStep ==
  ASSUME TypeOK, Dialog, ConsentGiven, Next
  PROVE  ConsentGiven'
  <1> USE DEF ConsentGiven
  <1>1. CASE Connects  BY <1>1 DEF Connects
  <1>2. CASE Stops  BY <1>2 DEF Stops
  <1>3. CASE LooksIdle  BY <1>3 DEF LooksIdle, NewCode
  <1>4. CASE \E s \in SessionId : Refuses(s)  BY <1>4 DEF Refuses, Takes, Rest, Rejected, Proceed
  <1>5. ASSUME NEW s \in SessionId, AsksPerson(s)  PROVE  ConsentGiven'
    <2>1. admitted' = admitted /\ said' = said /\ prompts' = Append(prompts, s)
      BY <1>5 DEF AsksPerson, world
    <2>2. prompts \in Seq(SessionId)  BY DEF TypeOK, QueuesOK
    <2>3. \A i \in DOMAIN prompts : i \in DOMAIN prompts' /\ prompts'[i] = prompts[i]
      BY <2>1, <2>2
    <2> QED  BY <2>1, <2>3 DEF ConsentGiven
  <1>6. ASSUME NEW s \in SessionId, AcceptsAtOnce(s)  PROVE  ConsentGiven'
    <2>1. admitted' = admitted \cup {<<s, 0>>} /\ said' = said /\ prompts' = prompts
      BY <1>6 DEF AcceptsAtOnce, Accepted
    <2>2. ASSUME NEW a \in admitted', a[2] # 0  PROVE  a \in admitted
      BY <2>1, <2>2
    <2> QED  BY <2>1, <2>2 DEF ConsentGiven
  <1>7. CASE Denies  BY <1>7 DEF Denies, Rejected, Proceed
  <1>8. ASSUME Allows  PROVE  ConsentGiven'
    <2>1. /\ admitted' = admitted \cup {<<job.sid, Len(prompts)>>}
          /\ said' = said /\ prompts' = prompts
      BY <1>8 DEF Allows, Accepted
    <2>2. prompts # <<>> /\ prompts[Len(prompts)] = job.sid  BY <1>8 DEF Allows, Dialog
    <2>3. Len(prompts) \in DOMAIN prompts
      BY <2>2, PromptsAreNumbered, EmptySeq DEF TypeOK, QueuesOK
    <2>4. <<Len(prompts), TRUE>> \in said  BY <1>8, YesWasSaid
    <2>6. ASSUME NEW a \in admitted', a[2] # 0
          PROVE  a[2] \in DOMAIN prompts /\ prompts[a[2]] = a[1] /\ <<a[2], TRUE>> \in said
      <3>1. CASE a \in admitted  BY <2>6, <3>1 DEF ConsentGiven
      <3>2. CASE a = <<job.sid, Len(prompts)>>  BY <3>2, <2>2, <2>3, <2>4
      <3> QED  BY <2>1, <2>6, <3>1, <3>2
    <2> QED  BY <2>1, <2>6 DEF ConsentGiven
  <1>9. CASE LooksDeciding  BY <1>9 DEF LooksDeciding
  <1>10. CASE Looks  BY <1>10 DEF Looks
  <1>11. CASE GivesUp  BY <1>11 DEF GivesUp, Abandon
  <1>12. CASE ReadsReady  BY <1>12 DEF ReadsReady, Abandon, Proceed
  <1>13. CASE ReadsSignal  BY <1>13 DEF ReadsSignal, Abandon
  <1>14. CASE HandshakeFails  BY <1>14 DEF HandshakeFails, Abandon
  <1>15. CASE Established  BY <1>15 DEF Established
  <1>16. CASE LooksServing  BY <1>16 DEF LooksServing, Done
  <1>17. CASE ReadsTail  BY <1>17 DEF ReadsTail, Done
  <1>18. CASE Joins  BY <1>18 DEF Joins, JoinsMedia, NewCode
  <1>19. CASE RejectsBusy  BY <1>19 DEF RejectsBusy, Rejected, Proceed
  <1>20. CASE ReadsNothing  BY <1>20 DEF ReadsNothing, Ignored
  <1>21. CASE ReadFails  BY <1>21 DEF ReadFails
  <1>22. CASE SessionOver  BY <1>22 DEF SessionOver, MediaEnds
  <1>23. CASE CleanedUp  BY <1>23 DEF CleanedUp, MediaEnds
  <1>24. CASE \E s \in SessionId, kind \in PasswordKind, secret \in Secret : ControllerAsks(s, kind, secret)
    BY <1>24 DEF ControllerAsks, Sends, Moves
  <1>25. CASE \E s \in SessionId : ControllerAnswers(s)
    BY <1>25 DEF ControllerAnswers, Sends, Moves
  <1>26. CASE \E s \in SessionId : ControllerSendsIce(s)
    BY <1>26 DEF ControllerSendsIce, Sends, Moves
  <1>27. CASE \E s \in SessionId : ControllerLeaves(s)  BY <1>27 DEF ControllerLeaves, Sends, Moves
  <1>28. CASE WsBreaks  BY <1>28 DEF WsBreaks
  <1>29. CASE \E rid \in DOMAIN prompts, allow \in BOOLEAN : PersonSays(rid, allow)
    BY <1>29 DEF PersonSays
  <1>30. CASE PanelStops  BY <1>30 DEF PanelStops
  <1>31. CASE PanelRotates  BY <1>31 DEF PanelRotates
  <1>32. CASE PanelSwitches  BY <1>32 DEF PanelSwitches
<1> QED  BY <1>1, <1>2, <1>3, <1>4, <1>5, <1>6, <1>7, <1>8, <1>9, <1>10, <1>11, <1>12, <1>13,
           <1>14, <1>15, <1>16, <1>17, <1>18, <1>19, <1>20, <1>21, <1>22, <1>23, <1>24, <1>25,
           <1>26, <1>27, <1>28, <1>29, <1>30, <1>31, <1>32 DEF Next, HostStep, TimesOut, World,
           Requested

-----------------------------------------------------------------------------
LEMMA HostInit == Init => HostInv
  <1> SUFFICES ASSUME Init  PROVE HostInv  OBVIOUS
  <1> USE DEF Init
  <1>1. ThreadOK
    <2>1. job \in Job \cup {NoJob}  OBVIOUS
    <2>2. est \in [sid : SessionId \cup {"none"}, got : SUBSET {"answer", "ice"},
                  answerOf : SessionId \cup {"none"}]
      BY DEF NoEst
    <2>3. /\ pc = "offline" /\ polling = FALSE /\ pending = {}
          /\ oneTime \in Nat \ {0} /\ media = "none"
      OBVIOUS
    <2> QED  BY ONLY <2>1, <2>2, <2>3 DEF ThreadOK
  <1>2. WorldOK
    <2>1. [kind |-> "permanent", secret |-> 0] \in [kind : PasswordKind, secret : Secret]
      BY DEF PasswordKind, Secret
    <2> QED  BY <2>1 DEF WorldOK, InProgress
  <1>3. QueuesOK /\ GhostsOK  BY DEF QueuesOK, GhostsOK
  <1>4. Phases  BY DEF Phases, Waiting, InSession
  <1>5. OneCapture /\ NoRequestForgotten /\ CodeOnDisplay
    BY DEF OneCapture, NoRequestForgotten, CodeOnDisplay, NoJob
  <1>6. Dialog /\ ConsentGiven  BY DEF Dialog, ConsentGiven
  <1> QED  BY <1>1, <1>2, <1>3, <1>4, <1>5, <1>6 DEF HostInv, TypeOK

LEMMA HostStepKeeps == HostInv /\ [Next]_vars => HostInv'
  <1> SUFFICES ASSUME HostInv, [Next]_vars  PROVE HostInv'  OBVIOUS
  <1>1. CASE Next
    <2> USE <1>1 DEF HostInv
    <2>1. TypeOK'
      <3>1. ThreadOK'  BY ThreadOKStep
      <3>2. WorldOK'  BY WorldOKStep
      <3>3. QueuesOK'  BY QueuesOKStep
      <3>4. GhostsOK'  BY GhostsOKStep
      <3> QED  BY <3>1, <3>2, <3>3, <3>4 DEF TypeOK
    <2>2. Phases'  BY PhasesStep
    <2>3. OneCapture'  BY OneCaptureStep
    <2>4. NoRequestForgotten'  BY NoRequestForgottenStep
    <2>5. CodeOnDisplay'  BY CodeOnDisplayStep
    <2>6. Dialog'  BY DialogStep
    <2>7. ConsentGiven'  BY ConsentGivenStep
    <2> QED  BY <2>1, <2>2, <2>3, <2>4, <2>5, <2>6, <2>7
  <1>2. CASE UNCHANGED vars
    <2> USE <1>2 DEF HostInv, vars
    <2>1. Code' = Code /\ Secret' = Secret /\ Job' = Job  BY DEF Code, Secret, Job
    <2>2. TypeOK'  BY <2>1 DEF TypeOK, ThreadOK, WorldOK, QueuesOK, GhostsOK
    <2>3. Phases' /\ OneCapture'  BY DEF Phases, OneCapture
    <2>4. NoRequestForgotten' /\ CodeOnDisplay'  BY DEF NoRequestForgotten, CodeOnDisplay
    <2>5. Dialog' /\ ConsentGiven'  BY DEF Dialog, ConsentGiven
    <2> QED  BY <2>2, <2>3, <2>4, <2>5
  <1> QED  BY <1>1, <1>2

LEMMA HostInvHolds == Spec => []HostInv
  <1> QED  BY HostInit, HostStepKeeps, PTL DEF Spec

-----------------------------------------------------------------------------
\* The variables keep their types; no request, job or used code names a code from the future.
THEOREM HostTypeCorrect == Spec => []TypeOK
  <1>1. HostInv => TypeOK  BY DEF HostInv
  <1> QED  BY <1>1, HostInvHolds, PTL

\* Whoever was let in with consent was let in by the yes to the dialog about them.
THEOREM NobodyEntersUnasked == Spec => []ConsentGiven
  <1>1. HostInv => ConsentGiven  BY DEF HostInv
  <1> QED  BY <1>1, HostInvHolds, PTL

\* The host holds at most the one capture of the session it is with.
THEOREM CaptureIsExclusive == Spec => []OneCapture
  <1>1. HostInv => OneCapture  BY DEF HostInv
  <1> QED  BY <1>1, HostInvHolds, PTL

\* No request that was read over a living WebSocket is dropped.
THEOREM RequestsAreKept == Spec => []NoRequestForgotten
  <1>1. HostInv => NoRequestForgotten  BY DEF HostInv
  <1> QED  BY <1>1, HostInvHolds, PTL

\* While a one-time request is handled the display shows the code it is checked against.
THEOREM DisplayIsCurrent == Spec => []CodeOnDisplay
  <1>1. HostInv => CodeOnDisplay  BY DEF HostInv
  <1> QED  BY <1>1, HostInvHolds, PTL
-----------------------------------------------------------------------------
(***************************************************************************)
(* The host as its owner sees it (SessionHost).  The refinement needs one  *)
(* more invariant, Introduced: whatever the host works on is about a       *)
(* session that a controller asked for, and the request in hand is for the *)
(* password of that session's controller.                                  *)
(***************************************************************************)
FramesKnown == \A i \in DOMAIN inbox : inbox[i].sid \in Asked

JobFits ==
  pc \in Waiting \cup {"handshaking"} \cup InSession =>
    /\ job.sid \in Asked
    /\ job.kind = request[job.sid].kind
    /\ job.secret = SecretFor(job.kind)

SetUpKnown == pc \in {"establishing", "handshaking"} => est.sid \in Asked

Introduced == FramesKnown /\ pending \subseteq Asked /\ JobFits /\ SetUpKnown

\* A frame that is read is about a session that was asked for, and so are those that remain.
LEMMA HeadIsKnown ==
  ASSUME TypeOK, FramesKnown, inbox # <<>>
  PROVE  /\ Head(inbox).sid \in Asked
         /\ \A i \in DOMAIN Tail(inbox) : Tail(inbox)[i].sid \in Asked
  <1>1. inbox \in Seq(Frames)  BY DEF TypeOK, QueuesOK
  <1>2. 1 \in DOMAIN inbox /\ Head(inbox) = inbox[1]  BY <1>1
  <1>3. Head(inbox).sid \in Asked  BY <1>2 DEF FramesKnown
  <1>4. ASSUME NEW i \in DOMAIN Tail(inbox)  PROVE Tail(inbox)[i].sid \in Asked
    <2>1. i + 1 \in DOMAIN inbox /\ Tail(inbox)[i] = inbox[i + 1]  BY <1>1
    <2> QED  BY <2>1 DEF FramesKnown
  <1> QED  BY <1>3, <1>4

\* The same of a request that is taken up, and of the inbox after it.
LEMMA TakenIsKnown ==
  ASSUME TypeOK, Introduced, NEW s \in SessionId, Takes(s)
  PROVE  /\ s \in Asked
         /\ \A i \in DOMAIN Rest : Rest[i].sid \in Asked
  <1>1. CASE pending = {}
    <2>1. inbox # <<>> /\ Head(inbox).sid = s  BY <1>1 DEF Takes
    <2>2. Head(inbox).sid \in Asked /\ \A i \in DOMAIN Tail(inbox) : Tail(inbox)[i].sid \in Asked
      BY <2>1, HeadIsKnown DEF Introduced
    <2> QED  BY <1>1, <2>1, <2>2 DEF Rest
  <1>2. CASE pending # {}
    <2>1. s \in pending  BY <1>2 DEF Takes
    <2> QED  BY <1>2, <2>1 DEF Rest, Introduced, FramesKnown
  <1> QED  BY <1>1, <1>2

\* A frame about a known session leaves all frames about known ones.
LEMMA OneMoreKnown ==
  ASSUME NEW q \in Seq(Frames), NEW A, \A i \in DOMAIN q : q[i].sid \in A,
         NEW type \in {"incoming", "ready", "answer", "ice", "close"},
         NEW s \in SessionId, s \in A
  PROVE  \A i \in DOMAIN Append(q, Frame(type, s)) : Append(q, Frame(type, s))[i].sid \in A
  <1> DEFINE f == Frame(type, s)
  <1>1. f \in Frames /\ f.sid = s  BY DEF Frame, Frames
  <1> HIDE DEF f
  <1>2. \A i \in DOMAIN Append(q, f) : Append(q, f)[i] = f \/ (i \in DOMAIN q /\ Append(q, f)[i] = q[i])
    BY <1>1
  <1> QED  BY <1>1, <1>2 DEF f

\* Who asked, and with what.
SameRequests ==
  /\ request' = request
  /\ \A s \in SessionId : stage'[s] = "unborn" <=> stage[s] = "unborn"

\* Only a controller's request adds to what was asked for.
LEMMA RequestsStay ==
  ASSUME TypeOK, Introduced, Next
  PROVE  \/ SameRequests
         \/ \E s \in SessionId, kind \in PasswordKind, secret \in Secret : ControllerAsks(s, kind, secret)
  <1> USE DEF TypeOK, WorldOK, SameRequests, InProgress, Asked
  <1>1. CASE Connects  BY <1>1 DEF Connects
  <1>2. CASE Stops  BY <1>2 DEF Stops, Ended
  <1>3. CASE LooksIdle  BY <1>3 DEF LooksIdle, NewCode
  <1>4. ASSUME NEW s \in SessionId, Refuses(s)  PROVE SameRequests
    <2>1. s \in Asked  BY <1>4, TakenIsKnown DEF Refuses
    <2> QED  BY <1>4, <2>1 DEF Refuses, Rejected
  <1>5. CASE \E s \in SessionId : AsksPerson(s)
    BY <1>5 DEF AsksPerson, Takes, Rest, JobOf, SecretFor
  <1>6. ASSUME NEW s \in SessionId, AcceptsAtOnce(s)  PROVE SameRequests
    <2> QED  BY <1>6 DEF AcceptsAtOnce, Accepted
  <1>7. ASSUME Denies  PROVE SameRequests
    <2>1. job.sid \in Asked  BY <1>7 DEF Denies, Introduced, JobFits, Waiting
    <2> QED  BY <1>7, <2>1 DEF Denies, Rejected
  <1>8. CASE Allows  BY <1>8 DEF Allows, Accepted, Proceed
  <1>9. CASE LooksDeciding  BY <1>9 DEF LooksDeciding
  <1>10. CASE Looks  BY <1>10 DEF Looks
  <1>11. CASE GivesUp  BY <1>11 DEF GivesUp, Abandon
  <1>12. CASE ReadsReady  BY <1>12 DEF ReadsReady, Abandon, Proceed
  <1>13. CASE ReadsSignal  BY <1>13 DEF ReadsSignal, Abandon
  <1>14. CASE HandshakeFails  BY <1>14 DEF HandshakeFails, Abandon
  <1>15. CASE Established  BY <1>15 DEF Established
  <1>16. CASE LooksServing  BY <1>16 DEF LooksServing, Done
  <1>17. CASE ReadsTail  BY <1>17 DEF ReadsTail, Done
  <1>18. CASE Joins  BY <1>18 DEF Joins, JoinsMedia, NewCode
  <1>19. ASSUME RejectsBusy  PROVE SameRequests
    <2>1. Head(inbox).sid \in Asked  BY <1>19, HeadIsKnown DEF RejectsBusy, Introduced
    <2> QED  BY <1>19, <2>1 DEF RejectsBusy, Rejected
  <1>20. CASE ReadsNothing  BY <1>20 DEF ReadsNothing, Ignored
  <1>21. CASE ReadFails  BY <1>21 DEF ReadFails
  <1>22. CASE SessionOver  BY <1>22 DEF SessionOver, MediaEnds
  <1>23. CASE CleanedUp  BY <1>23 DEF CleanedUp, MediaEnds
  <1>24. CASE \E s \in SessionId, kind \in PasswordKind, secret \in Secret : ControllerAsks(s, kind, secret)
    BY <1>24
      DEF ControllerAsks, Sends, Moves
  <1>25. CASE \E s \in SessionId : ControllerAnswers(s)
    BY <1>25 DEF ControllerAnswers, Sends, Moves
  <1>26. CASE \E s \in SessionId : ControllerSendsIce(s)
    BY <1>26 DEF ControllerSendsIce, Sends, Moves
  <1>27. CASE \E s \in SessionId : ControllerLeaves(s)  BY <1>27 DEF ControllerLeaves, Sends, Moves
  <1>28. CASE WsBreaks  BY <1>28 DEF WsBreaks, Ended
  <1>29. CASE \E rid \in DOMAIN prompts, allow \in BOOLEAN : PersonSays(rid, allow)
    BY <1>29 DEF PersonSays
  <1>30. CASE PanelStops  BY <1>30 DEF PanelStops
  <1>31. CASE PanelRotates  BY <1>31 DEF PanelRotates
  <1>32. CASE PanelSwitches  BY <1>32 DEF PanelSwitches
  <1> QED  BY <1>1, <1>2, <1>3, <1>4, <1>5, <1>6, <1>7, <1>8, <1>9, <1>10, <1>11, <1>12,
           <1>13, <1>14, <1>15, <1>16, <1>17, <1>18, <1>19, <1>20, <1>21, <1>22, <1>23,
           <1>24, <1>25, <1>26, <1>27, <1>28, <1>29, <1>30, <1>31, <1>32
       DEF Next, HostStep, TimesOut, World, Requested

\* A session that was asked for stays so, with the same password.
LEMMA AskedGrows ==
  ASSUME TypeOK, Introduced, Next
  PROVE  Asked \subseteq Asked' /\ \A s \in Asked : request'[s] = request[s]
  <1>1. CASE SameRequests  BY <1>1 DEF SameRequests, Asked
  <1>2. CASE \E s \in SessionId, kind \in PasswordKind, secret \in Secret :
               ControllerAsks(s, kind, secret)
    BY <1>2 DEF ControllerAsks, Sends, Moves, Asked, TypeOK, WorldOK
  <1> QED  BY <1>1, <1>2, RequestsStay

\* Frames are about sessions that were asked for: the host's own, or a controller's.
LEMMA FramesKnownStep ==
  ASSUME TypeOK, Introduced, Next
  PROVE  FramesKnown'
  <1> USE DEF Introduced, FramesKnown
  <1>0. Asked \subseteq Asked'  BY AskedGrows
  <1>00. inbox \in Seq(Frames)  BY DEF TypeOK, QueuesOK
  <1>1. CASE Connects  BY <1>1, <1>0 DEF Connects
  <1>2. CASE Stops  BY <1>2, <1>0 DEF Stops
  <1>3. CASE LooksIdle  BY <1>3, <1>0 DEF LooksIdle, NewCode
  <1>4. ASSUME NEW s \in SessionId, Refuses(s)  PROVE FramesKnown'
    <2>1. inbox' = Rest  BY <1>4 DEF Refuses
    <2>2. \A i \in DOMAIN Rest : Rest[i].sid \in Asked  BY <1>4, TakenIsKnown DEF Refuses
    <2> QED  BY <1>0, <2>1, <2>2
  <1>5. ASSUME NEW s \in SessionId, AsksPerson(s)  PROVE FramesKnown'
    <2>1. inbox' = Rest  BY <1>5 DEF AsksPerson
    <2>2. \A i \in DOMAIN Rest : Rest[i].sid \in Asked  BY <1>5, TakenIsKnown DEF AsksPerson
    <2> QED  BY <1>0, <2>1, <2>2
  <1>6. ASSUME NEW s \in SessionId, AcceptsAtOnce(s)  PROVE FramesKnown'
    <2>1. inbox' \in {Rest, Append(Rest, Frame("ready", s))}
      BY <1>6 DEF AcceptsAtOnce, Accepted
    <2>2. s \in Asked /\ \A i \in DOMAIN Rest : Rest[i].sid \in Asked
      BY <1>6, TakenIsKnown DEF AcceptsAtOnce
    <2>3. Rest \in Seq(Frames)  BY <1>6, RestOK DEF AcceptsAtOnce
    <2>4. \A i \in DOMAIN Append(Rest, Frame("ready", s)) : Append(Rest, Frame("ready", s))[i].sid \in Asked
      BY <2>2, <2>3, OneMoreKnown
    <2> QED  BY <1>0, <2>1, <2>2, <2>4
  <1>7. CASE Denies  BY <1>7, <1>0 DEF Denies, Rejected, Proceed
  <1>8. ASSUME Allows  PROVE FramesKnown'
    <2>1. inbox' \in {inbox, Append(inbox, Frame("ready", job.sid))}  BY <1>8 DEF Allows, Accepted
    <2>2. job.sid \in Asked /\ job.sid \in SessionId
      BY <1>8 DEF Allows, JobFits, Waiting, Asked
    <2>3. \A i \in DOMAIN Append(inbox, Frame("ready", job.sid)) :
            Append(inbox, Frame("ready", job.sid))[i].sid \in Asked
      BY <1>00, <2>2, OneMoreKnown
    <2> QED  BY <1>0, <2>1, <2>3
  <1>9. CASE LooksDeciding  BY <1>9, <1>0 DEF LooksDeciding
  <1>10. CASE Looks  BY <1>10, <1>0 DEF Looks
  <1>11. CASE GivesUp  BY <1>11, <1>0 DEF GivesUp, Abandon
  <1>12. ASSUME ReadsReady  PROVE FramesKnown'
    <2>1. inbox # <<>> /\ inbox' = Tail(inbox)  BY <1>12 DEF ReadsReady
    <2>2. \A i \in DOMAIN Tail(inbox) : Tail(inbox)[i].sid \in Asked  BY <2>1, HeadIsKnown
    <2> QED  BY <1>0, <2>1, <2>2
  <1>13. ASSUME ReadsSignal  PROVE FramesKnown'
    <2>1. inbox # <<>> /\ inbox' = Tail(inbox)  BY <1>13 DEF ReadsSignal
    <2>2. \A i \in DOMAIN Tail(inbox) : Tail(inbox)[i].sid \in Asked  BY <2>1, HeadIsKnown
    <2> QED  BY <1>0, <2>1, <2>2
  <1>14. CASE HandshakeFails  BY <1>14, <1>0 DEF HandshakeFails, Abandon
  <1>15. CASE Established  BY <1>15, <1>0 DEF Established
  <1>16. CASE LooksServing  BY <1>16, <1>0 DEF LooksServing, Done
  <1>17. ASSUME ReadsTail  PROVE FramesKnown'
    <2>1. inbox # <<>> /\ inbox' = Tail(inbox)  BY <1>17 DEF ReadsTail
    <2>2. \A i \in DOMAIN Tail(inbox) : Tail(inbox)[i].sid \in Asked  BY <2>1, HeadIsKnown
    <2> QED  BY <1>0, <2>1, <2>2
  <1>18. CASE Joins  BY <1>18, <1>0 DEF Joins, JoinsMedia, NewCode
  <1>19. ASSUME RejectsBusy  PROVE FramesKnown'
    <2>1. inbox # <<>> /\ inbox' = Tail(inbox)  BY <1>19 DEF RejectsBusy
    <2>2. \A i \in DOMAIN Tail(inbox) : Tail(inbox)[i].sid \in Asked  BY <2>1, HeadIsKnown
    <2> QED  BY <1>0, <2>1, <2>2
  <1>20. ASSUME ReadsNothing  PROVE FramesKnown'
    <2>1. inbox' = inbox \/ (inbox # <<>> /\ inbox' = Tail(inbox))
      BY <1>20 DEF ReadsNothing, Ignored
    <2>2. inbox # <<>> => \A i \in DOMAIN Tail(inbox) : Tail(inbox)[i].sid \in Asked
      BY HeadIsKnown
    <2> QED  BY <1>0, <2>1, <2>2
  <1>21. CASE ReadFails  BY <1>21, <1>0 DEF ReadFails
  <1>22. CASE SessionOver  BY <1>22, <1>0 DEF SessionOver, MediaEnds
  <1>23. CASE CleanedUp  BY <1>23, <1>0 DEF CleanedUp, MediaEnds
  <1>24. ASSUME NEW s \in SessionId, NEW kind \in PasswordKind, NEW secret \in Secret,
                ControllerAsks(s, kind, secret)
         PROVE  FramesKnown'
    <2>1. inbox' = Append(inbox, Frame("incoming", s))  BY <1>24 DEF ControllerAsks, Sends
    <2>2. s \in Asked'  BY <1>24 DEF ControllerAsks, Sends, Moves, Asked, TypeOK, WorldOK
    <2>3. \A i \in DOMAIN inbox : inbox[i].sid \in Asked'  BY <1>0
    <2> DEFINE A == Asked'
    <2> HIDE DEF A
    <2>4. \A i \in DOMAIN Append(inbox, Frame("incoming", s)) :
            Append(inbox, Frame("incoming", s))[i].sid \in A
      <3>1. s \in A /\ \A i \in DOMAIN inbox : inbox[i].sid \in A  BY <2>2, <2>3 DEF A
      <3> QED  BY <1>00, <3>1, OneMoreKnown
    <2> QED  BY <2>1, <2>4 DEF A
  <1>25. ASSUME NEW s \in SessionId, ControllerAnswers(s)  PROVE FramesKnown'
    <2>1. inbox' = Append(inbox, Frame("answer", s))  BY <1>25 DEF ControllerAnswers, Sends
    <2>2. s \in Asked  BY <1>25 DEF ControllerAnswers, Sends, Moves, Asked, InProgress
    <2>3. \A i \in DOMAIN Append(inbox, Frame("answer", s)) :
            Append(inbox, Frame("answer", s))[i].sid \in Asked
      BY <1>00, <2>2, OneMoreKnown
    <2> QED  BY <1>0, <2>1, <2>3
  <1>26. ASSUME NEW s \in SessionId, ControllerSendsIce(s)  PROVE FramesKnown'
    <2>1. inbox' = Append(inbox, Frame("ice", s))  BY <1>26 DEF ControllerSendsIce, Sends
    <2>2. s \in Asked  BY <1>26 DEF ControllerSendsIce, Sends, Moves, Asked, InProgress
    <2>3. \A i \in DOMAIN Append(inbox, Frame("ice", s)) :
            Append(inbox, Frame("ice", s))[i].sid \in Asked
      BY <1>00, <2>2, OneMoreKnown
    <2> QED  BY <1>0, <2>1, <2>3
  <1>27. ASSUME NEW s \in SessionId, ControllerLeaves(s)  PROVE FramesKnown'
    <2>1. inbox' = Append(inbox, Frame("close", s))  BY <1>27 DEF ControllerLeaves, Sends
    <2>2. s \in Asked  BY <1>27 DEF ControllerLeaves, Sends, Moves, Asked, InProgress
    <2>3. \A i \in DOMAIN Append(inbox, Frame("close", s)) :
            Append(inbox, Frame("close", s))[i].sid \in Asked
      BY <1>00, <2>2, OneMoreKnown
    <2> QED  BY <1>0, <2>1, <2>3
  <1>28. CASE WsBreaks  BY <1>0, <1>28 DEF WsBreaks
  <1>29. CASE \E rid \in DOMAIN prompts, allow \in BOOLEAN : PersonSays(rid, allow)
    BY <1>29, <1>0 DEF PersonSays
  <1>30. CASE PanelStops  BY <1>30, <1>0 DEF PanelStops
  <1>31. CASE PanelRotates  BY <1>31, <1>0 DEF PanelRotates
  <1>32. CASE PanelSwitches  BY <1>32, <1>0 DEF PanelSwitches
  <1> QED  BY <1>1, <1>2, <1>3, <1>4, <1>5, <1>6, <1>7, <1>8, <1>9, <1>10, <1>11, <1>12,
           <1>13, <1>14, <1>15, <1>16, <1>17, <1>18, <1>19, <1>20, <1>21, <1>22, <1>23,
           <1>24, <1>25, <1>26, <1>27, <1>28, <1>29, <1>30, <1>31, <1>32
       DEF Next, HostStep, TimesOut, World, Requested

\* The request kept for the next turn was a frame.
LEMMA PendingKnownStep ==
  ASSUME TypeOK, Introduced, Next
  PROVE  pending' \subseteq Asked'
  <1> USE DEF Introduced
  <1>0. Asked \subseteq Asked'  BY AskedGrows
  <1>1. CASE Connects  BY <1>1, <1>0 DEF Connects
  <1>2. CASE Stops  BY <1>2, <1>0 DEF Stops
  <1>3. CASE LooksIdle  BY <1>3, <1>0 DEF LooksIdle, NewCode
  <1>4. CASE \E s \in SessionId : Refuses(s)
    BY <1>4, <1>0 DEF Refuses, Takes, Rest, Rejected, Proceed
  <1>5. CASE \E s \in SessionId : AsksPerson(s)
    BY <1>5, <1>0 DEF AsksPerson, Takes, Rest, JobOf, SecretFor
  <1>6. CASE \E s \in SessionId : AcceptsAtOnce(s)
    BY <1>6, <1>0 DEF AcceptsAtOnce, Takes, Rest, JobOf, SecretFor, Accepted, Proceed
  <1>7. CASE Denies  BY <1>7, <1>0 DEF Denies, Rejected, Proceed
  <1>8. CASE Allows  BY <1>8, <1>0 DEF Allows, Accepted, Proceed
  <1>9. CASE LooksDeciding  BY <1>9, <1>0 DEF LooksDeciding
  <1>10. CASE Looks  BY <1>10, <1>0 DEF Looks
  <1>11. CASE GivesUp  BY <1>11, <1>0 DEF GivesUp, Abandon
  <1>12. CASE ReadsReady  BY <1>12, <1>0 DEF ReadsReady, Abandon, Proceed
  <1>13. CASE ReadsSignal  BY <1>13, <1>0 DEF ReadsSignal, Abandon
  <1>14. CASE HandshakeFails  BY <1>14, <1>0 DEF HandshakeFails, Abandon
  <1>15. CASE Established  BY <1>15, <1>0 DEF Established
  <1>16. CASE LooksServing  BY <1>16, <1>0 DEF LooksServing, Done
  <1>17. ASSUME ReadsTail  PROVE pending' \subseteq Asked'
    <2>1. pending' = {Head(inbox).sid} /\ inbox # <<>>  BY <1>17 DEF ReadsTail
    <2>2. Head(inbox).sid \in Asked  BY <2>1, HeadIsKnown
    <2> QED  BY <1>0, <2>1, <2>2
  <1>18. CASE Joins  BY <1>18, <1>0 DEF Joins, JoinsMedia, NewCode
  <1>19. CASE RejectsBusy  BY <1>19, <1>0 DEF RejectsBusy, Rejected, Proceed
  <1>20. CASE ReadsNothing  BY <1>20, <1>0 DEF ReadsNothing, Ignored
  <1>21. CASE ReadFails  BY <1>21, <1>0 DEF ReadFails
  <1>22. CASE SessionOver  BY <1>22, <1>0 DEF SessionOver, MediaEnds
  <1>23. CASE CleanedUp  BY <1>23, <1>0 DEF CleanedUp, MediaEnds
  <1>24. CASE \E s \in SessionId, kind \in PasswordKind, secret \in Secret : ControllerAsks(s, kind, secret)
    BY <1>24, <1>0
      DEF ControllerAsks, Sends, Moves
  <1>25. CASE \E s \in SessionId : ControllerAnswers(s)
    BY <1>25, <1>0 DEF ControllerAnswers, Sends, Moves
  <1>26. CASE \E s \in SessionId : ControllerSendsIce(s)
    BY <1>26, <1>0 DEF ControllerSendsIce, Sends, Moves
  <1>27. CASE \E s \in SessionId : ControllerLeaves(s)
    BY <1>27, <1>0 DEF ControllerLeaves, Sends, Moves
  <1>28. CASE WsBreaks  BY <1>28, <1>0 DEF WsBreaks
  <1>29. CASE \E rid \in DOMAIN prompts, allow \in BOOLEAN : PersonSays(rid, allow)
    BY <1>29, <1>0 DEF PersonSays
  <1>30. CASE PanelStops  BY <1>30, <1>0 DEF PanelStops
  <1>31. CASE PanelRotates  BY <1>31, <1>0 DEF PanelRotates
  <1>32. CASE PanelSwitches  BY <1>32, <1>0 DEF PanelSwitches
  <1> QED  BY <1>1, <1>2, <1>3, <1>4, <1>5, <1>6, <1>7, <1>8, <1>9, <1>10, <1>11, <1>12,
           <1>13, <1>14, <1>15, <1>16, <1>17, <1>18, <1>19, <1>20, <1>21, <1>22, <1>23,
           <1>24, <1>25, <1>26, <1>27, <1>28, <1>29, <1>30, <1>31, <1>32
       DEF Next, HostStep, TimesOut, World, Requested

\* The request in hand was taken up from a session that asked; the code waits for it.
LEMMA JobFitsStep ==
  ASSUME TypeOK, Phases, Introduced, Next
  PROVE  JobFits'
  <1> USE DEF Introduced, JobFits, Waiting, InSession, Loops
  <1>0. Asked \subseteq Asked' /\ \A s \in Asked : request'[s] = request[s]  BY AskedGrows
  <1>1. CASE Connects  BY <1>1, <1>0 DEF Connects, SecretFor
  <1>2. CASE Stops  BY <1>2, <1>0 DEF Stops, SecretFor
  <1>3. CASE LooksIdle  BY <1>3 DEF LooksIdle
  <1>4. CASE \E s \in SessionId : Refuses(s)
    BY <1>4, <1>0 DEF Refuses, Takes, Rest, Rejected, Proceed, SecretFor
  <1>5. ASSUME NEW s \in SessionId, AsksPerson(s)  PROVE JobFits'
    <2>1. s \in Asked  BY <1>5, TakenIsKnown DEF AsksPerson
    <2>2. job' = JobOf(s) /\ oneTime' = oneTime  BY <1>5 DEF AsksPerson
    <2>3. /\ job'.sid = s /\ job'.kind = request[s].kind
          /\ job'.secret = SecretFor(request[s].kind)
      BY <2>2 DEF JobOf
    <2>4. s \in Asked' /\ request'[s] = request[s]  BY <1>0, <2>1
    <2>5. SecretFor(job.kind)' = SecretFor(request[s].kind)  BY <2>2, <2>3 DEF SecretFor
    <2> QED  BY <2>3, <2>4, <2>5
  <1>6. ASSUME NEW s \in SessionId, AcceptsAtOnce(s)  PROVE JobFits'
    <2>1. s \in Asked  BY <1>6, TakenIsKnown DEF AcceptsAtOnce
    <2>2. job' = JobOf(s) /\ oneTime' = oneTime  BY <1>6 DEF AcceptsAtOnce
    <2>3. /\ job'.sid = s /\ job'.kind = request[s].kind
          /\ job'.secret = SecretFor(request[s].kind)
      BY <2>2 DEF JobOf
    <2>4. s \in Asked' /\ request'[s] = request[s]  BY <1>0, <2>1
    <2>5. SecretFor(job.kind)' = SecretFor(request[s].kind)  BY <2>2, <2>3 DEF SecretFor
    <2> QED  BY <2>3, <2>4, <2>5
  <1>7. CASE Denies  BY <1>7, <1>0 DEF Denies, Rejected, Proceed, SecretFor
  <1>8. CASE Allows  BY <1>8, <1>0 DEF Allows, Accepted, Proceed, SecretFor
  <1>9. CASE LooksDeciding  BY <1>9, <1>0 DEF LooksDeciding, SecretFor
  <1>10. CASE Looks  BY <1>10, <1>0 DEF Looks, SecretFor
  <1>11. CASE GivesUp  BY <1>11, <1>0 DEF GivesUp, Abandon, SecretFor
  <1>12. CASE ReadsReady  BY <1>12, <1>0 DEF ReadsReady, Abandon, Proceed, SecretFor
  <1>13. CASE ReadsSignal  BY <1>13, <1>0 DEF ReadsSignal, Abandon, SecretFor
  <1>14. CASE HandshakeFails  BY <1>14, <1>0 DEF HandshakeFails, Abandon, SecretFor
  <1>15. CASE Established  BY <1>15, <1>0 DEF Established, SecretFor
  <1>16. CASE LooksServing  BY <1>16, <1>0 DEF LooksServing, Done, SecretFor
  <1>17. CASE ReadsTail  BY <1>17, <1>0 DEF ReadsTail, Done, SecretFor
  <1>18. CASE Joins  BY <1>18 DEF Joins, JoinsMedia
  <1>19. CASE RejectsBusy  BY <1>19, <1>0 DEF RejectsBusy, Rejected, Proceed, SecretFor
  <1>20. CASE ReadsNothing  BY <1>20, <1>0 DEF ReadsNothing, Ignored, SecretFor
  <1>21. CASE ReadFails  BY <1>21, <1>0 DEF ReadFails, SecretFor
  <1>22. CASE SessionOver  BY <1>22, <1>0 DEF SessionOver, MediaEnds, SecretFor
  <1>23. CASE CleanedUp  BY <1>23, <1>0 DEF CleanedUp, MediaEnds, SecretFor
  <1>24. CASE \E s \in SessionId, kind \in PasswordKind, secret \in Secret : ControllerAsks(s, kind, secret)
    BY <1>24, <1>0
      DEF ControllerAsks, Sends, Moves, SecretFor
  <1>25. CASE \E s \in SessionId : ControllerAnswers(s)
    BY <1>25, <1>0 DEF ControllerAnswers, Sends, Moves, SecretFor
  <1>26. CASE \E s \in SessionId : ControllerSendsIce(s)
    BY <1>26, <1>0 DEF ControllerSendsIce, Sends, Moves, SecretFor
  <1>27. CASE \E s \in SessionId : ControllerLeaves(s)
    BY <1>27, <1>0 DEF ControllerLeaves, Sends, Moves, SecretFor
  <1>28. CASE WsBreaks  BY <1>28, <1>0 DEF WsBreaks, SecretFor
  <1>29. CASE \E rid \in DOMAIN prompts, allow \in BOOLEAN : PersonSays(rid, allow)
    BY <1>29, <1>0 DEF PersonSays, SecretFor
  <1>30. CASE PanelStops  BY <1>30, <1>0 DEF PanelStops, SecretFor
  <1>31. CASE PanelRotates  BY <1>31, <1>0 DEF PanelRotates, SecretFor
  <1>32. CASE PanelSwitches  BY <1>32, <1>0 DEF PanelSwitches, SecretFor
  <1> QED  BY <1>1, <1>2, <1>3, <1>4, <1>5, <1>6, <1>7, <1>8, <1>9, <1>10, <1>11, <1>12,
           <1>13, <1>14, <1>15, <1>16, <1>17, <1>18, <1>19, <1>20, <1>21, <1>22, <1>23,
           <1>24, <1>25, <1>26, <1>27, <1>28, <1>29, <1>30, <1>31, <1>32
       DEF Next, HostStep, TimesOut, World, Requested

\* The session that is set up is the one of a connect_ready.
LEMMA SetUpKnownStep ==
  ASSUME TypeOK, Phases, Introduced, Next
  PROVE  SetUpKnown'
  <1> USE DEF Introduced, SetUpKnown, Waiting, Loops
  <1>0. Asked \subseteq Asked'  BY AskedGrows
  <1>1. CASE Connects  BY <1>1, <1>0 DEF Connects
  <1>2. CASE Stops  BY <1>2, <1>0 DEF Stops
  <1>3. CASE LooksIdle  BY <1>3, <1>0 DEF LooksIdle, NewCode
  <1>4. CASE \E s \in SessionId : Refuses(s)
    BY <1>4, <1>0 DEF Refuses, Takes, Rest, Rejected, Proceed
  <1>5. CASE \E s \in SessionId : AsksPerson(s)
    BY <1>5, <1>0 DEF AsksPerson, Takes, Rest, JobOf, SecretFor
  <1>6. CASE \E s \in SessionId : AcceptsAtOnce(s)
    BY <1>6, <1>0 DEF AcceptsAtOnce, Takes, Rest, JobOf, SecretFor, Accepted, Proceed
  <1>7. CASE Denies  BY <1>7, <1>0 DEF Denies, Rejected, Proceed
  <1>8. CASE Allows  BY <1>8, <1>0 DEF Allows, Accepted, Proceed
  <1>9. CASE LooksDeciding  BY <1>9, <1>0 DEF LooksDeciding
  <1>10. CASE Looks  BY <1>10, <1>0 DEF Looks
  <1>11. CASE GivesUp  BY <1>11, <1>0 DEF GivesUp, Abandon
  <1>12. ASSUME ReadsReady  PROVE SetUpKnown'
    <2>1. inbox # <<>>  BY <1>12 DEF ReadsReady
    <2>2. Head(inbox).sid \in Asked  BY <2>1, HeadIsKnown
    <2>3. pc' \in {"idle", "offline"} \/ est'.sid = Head(inbox).sid
      BY <1>12 DEF ReadsReady, Abandon, Proceed, NoEst
    <2> QED  BY <1>0, <2>2, <2>3
  <1>13. ASSUME ReadsSignal  PROVE SetUpKnown'
    <2>1. est \in [sid : SessionId \cup {"none"}, got : SUBSET {"answer", "ice"},
                   answerOf : SessionId \cup {"none"}]
      BY DEF TypeOK, ThreadOK
    <2>2. pc = "establishing" /\ (pc' = "idle" \/ est'.sid = est.sid)
      BY <1>13, <2>1 DEF ReadsSignal, Abandon
    <2> QED  BY <1>0, <2>2
  <1>14. CASE HandshakeFails  BY <1>14, <1>0 DEF HandshakeFails, Abandon
  <1>15. CASE Established  BY <1>15, <1>0 DEF Established
  <1>16. CASE LooksServing  BY <1>16, <1>0 DEF LooksServing, Done
  <1>17. CASE ReadsTail  BY <1>17, <1>0 DEF ReadsTail, Done
  <1>18. CASE Joins  BY <1>18, <1>0 DEF Joins, JoinsMedia, NewCode
  <1>19. CASE RejectsBusy  BY <1>19, <1>0 DEF RejectsBusy, Rejected, Proceed
  <1>20. CASE ReadsNothing  BY <1>20, <1>0 DEF ReadsNothing, Ignored
  <1>21. CASE ReadFails  BY <1>21, <1>0 DEF ReadFails
  <1>22. CASE SessionOver  BY <1>22, <1>0 DEF SessionOver, MediaEnds
  <1>23. CASE CleanedUp  BY <1>23, <1>0 DEF CleanedUp, MediaEnds
  <1>24. CASE \E s \in SessionId, kind \in PasswordKind, secret \in Secret : ControllerAsks(s, kind, secret)
    BY <1>24, <1>0
      DEF ControllerAsks, Sends, Moves
  <1>25. CASE \E s \in SessionId : ControllerAnswers(s)
    BY <1>25, <1>0 DEF ControllerAnswers, Sends, Moves
  <1>26. CASE \E s \in SessionId : ControllerSendsIce(s)
    BY <1>26, <1>0 DEF ControllerSendsIce, Sends, Moves
  <1>27. CASE \E s \in SessionId : ControllerLeaves(s)
    BY <1>27, <1>0 DEF ControllerLeaves, Sends, Moves
  <1>28. CASE WsBreaks  BY <1>28, <1>0 DEF WsBreaks
  <1>29. CASE \E rid \in DOMAIN prompts, allow \in BOOLEAN : PersonSays(rid, allow)
    BY <1>29, <1>0 DEF PersonSays
  <1>30. CASE PanelStops  BY <1>30, <1>0 DEF PanelStops
  <1>31. CASE PanelRotates  BY <1>31, <1>0 DEF PanelRotates
  <1>32. CASE PanelSwitches  BY <1>32, <1>0 DEF PanelSwitches
  <1> QED  BY <1>1, <1>2, <1>3, <1>4, <1>5, <1>6, <1>7, <1>8, <1>9, <1>10, <1>11, <1>12,
           <1>13, <1>14, <1>15, <1>16, <1>17, <1>18, <1>19, <1>20, <1>21, <1>22, <1>23,
           <1>24, <1>25, <1>26, <1>27, <1>28, <1>29, <1>30, <1>31, <1>32
       DEF Next, HostStep, TimesOut, World, Requested

LEMMA IntroducedInit == Init => Introduced
  <1> QED  BY DEF Init, Introduced, FramesKnown, JobFits, SetUpKnown, Waiting, InSession

LEMMA IntroducedStep == HostInv /\ Introduced /\ [Next]_vars => Introduced'
  <1> SUFFICES ASSUME HostInv, Introduced, [Next]_vars  PROVE Introduced'  OBVIOUS
  <1>1. CASE Next
    <2>1. TypeOK /\ Phases  BY DEF HostInv
    <2> QED  BY <1>1, <2>1, FramesKnownStep, PendingKnownStep, JobFitsStep, SetUpKnownStep
             DEF Introduced
  <1>2. CASE UNCHANGED vars
    BY <1>2 DEF vars, Introduced, FramesKnown, JobFits, SetUpKnown, Asked, SecretFor
  <1> QED  BY <1>1, <1>2

-----------------------------------------------------------------------------
\* What the owner sees of each place in the code, before and after a step.
LEMMA PhaseMeans ==
  /\ pc \in {"offline", "idle"} => Phase = "free" /\ InHand = "none"
  /\ pc = "deciding" => Phase = "asking" /\ InHand = job.sid
  /\ pc \in {"accepting", "establishing", "handshaking"} => Phase = "settingUp" /\ InHand = job.sid
  /\ pc \in InSession => Phase = "hosting" /\ InHand = job.sid
  /\ pc = "stopped" => Phase = "stopped" /\ InHand = "none"
  <1> QED  BY DEF Phase, InHand, InSession

LEMMA PhaseMeansNext ==
  /\ pc' \in {"offline", "idle"} => Phase' = "free" /\ InHand' = "none"
  /\ pc' = "deciding" => Phase' = "asking" /\ InHand' = job'.sid
  /\ pc' \in {"accepting", "establishing", "handshaking"} =>
       Phase' = "settingUp" /\ InHand' = job'.sid
  /\ pc' \in InSession => Phase' = "hosting" /\ InHand' = job'.sid
  /\ pc' = "stopped" => Phase' = "stopped" /\ InHand' = "none"
  <1> QED  BY DEF Phase, InHand, InSession

\* A step that the owner does not notice, whatever the thread does meanwhile ...
Outside == UNCHANGED <<confirm, said>> /\ SameRequests
Quiet == Outside /\ UNCHANGED <<oneTime, prompts, used>> /\ (media' # "none" <=> media # "none")

\* ... because it goes on with the same request,
GoesOn ==
  \/ pc' = pc
  \/ {pc, pc'} \subseteq {"accepting", "establishing", "handshaking"}
  \/ {pc, pc'} \subseteq InSession
Stays == {pc, pc'} \subseteq {"offline", "idle"} \/ (GoesOn /\ job' = job)

\* or, if the owner does notice, because it gives the request up.
Quits == pc \in Waiting \cup {"handshaking"} /\ pc' \in {"idle", "offline"}

LEMMA SameView ==
  ASSUME SameRequests
  PROVE  [s \in Asked |-> request[s]]' = [s \in Asked |-> request[s]]
  <1>1. Asked' = Asked  BY DEF SameRequests, Asked
  <1> QED  BY <1>1 DEF SameRequests

LEMMA QuietSteps ==
  ASSUME Quiet, Stays \/ Quits
  PROVE  Host!HNext \/ UNCHANGED Host!hvars
  <1>1. [s \in Asked |-> request[s]]' = [s \in Asked |-> request[s]]
    BY SameView DEF Quiet, Outside
  <1>2. (media # "none")' = (media # "none")  BY DEF Quiet
  <1>3. CASE Stays
    <2>1. Phase' = Phase /\ InHand' = InHand
      <3>1. CASE pc' = pc /\ job' = job  BY <3>1 DEF Phase, InHand
      <3>2. CASE ~(pc' = pc /\ job' = job)
        BY <1>3, <3>2, PhaseMeans, PhaseMeansNext DEF Stays, GoesOn
      <3> QED  BY <3>1, <3>2
    <2>2. UNCHANGED Host!hvars  BY <1>1, <1>2, <2>1 DEF Host!hvars, Quiet, Outside
    <2> QED  BY <2>2
  <1>4. CASE Quits
    <2>1. Phase \in {"asking", "settingUp"} /\ Phase' = "free" /\ InHand' = "none"
      BY <1>4, PhaseMeans, PhaseMeansNext DEF Quits, Waiting
    <2>2. Host!GivesUp  BY <1>1, <1>2, <2>1 DEF Host!GivesUp, Host!outside, Quiet, Outside
    <2> QED  BY <2>2 DEF Host!HNext
  <1> QED  BY <1>3, <1>4

\* The steps that let somebody get ahead.
LEMMA DialogIsAsked ==
  ASSUME TypeOK, Introduced, SameRequests, NEW s \in SessionId, AsksPerson(s)
  PROVE  Host!Asks(s)
  <1>1. [t \in Asked |-> request[t]]' = [t \in Asked |-> request[t]]  BY SameView
  <1>2. s \in Asked  BY TakenIsKnown DEF AsksPerson
  <1>3. Host!Acceptable(s)  BY <1>2 DEF AsksPerson, Usable, Host!Acceptable
  <1>4. Phase = "free" /\ Phase' = "asking" /\ InHand' = s
    BY PhaseMeans, PhaseMeansNext DEF AsksPerson, Takes, JobOf
  <1> QED  BY <1>1, <1>3, <1>4 DEF Host!Asks, Host!TakesUp, Host!outside, AsksPerson

LEMMA UnattendedIsTaken ==
  ASSUME TypeOK, Introduced, SameRequests, NEW s \in SessionId, AcceptsAtOnce(s),
         pc' = "accepting"
  PROVE  Host!Takes(s)
  <1>1. [t \in Asked |-> request[t]]' = [t \in Asked |-> request[t]]  BY SameView
  <1>2. s \in Asked  BY TakenIsKnown DEF AcceptsAtOnce
  <1>3. Host!Acceptable(s)  BY <1>2 DEF AcceptsAtOnce, Usable, Host!Acceptable
  <1>4. Phase = "free" /\ Phase' = "settingUp" /\ InHand' = s
    BY PhaseMeans, PhaseMeansNext DEF AcceptsAtOnce, Takes, JobOf
  <1> QED  BY <1>1, <1>3, <1>4 DEF Host!Takes, Host!TakesUp, Host!outside, AcceptsAtOnce

\* The yes to the last dialog leads on.
LEMMA YesAgrees ==
  ASSUME TypeOK, Dialog, SameRequests, Allows, pc' = "accepting"
  PROVE  Host!Agrees
  <1>1. [t \in Asked |-> request[t]]' = [t \in Asked |-> request[t]]  BY SameView
  <1>2. /\ Phase = "asking" /\ Phase' = "settingUp"
        /\ InHand = job.sid /\ InHand' = job'.sid
    BY PhaseMeans, PhaseMeansNext DEF Allows
  <1> QED  BY <1>1, <1>2, YesWasSaid DEF Host!Agrees, Host!outside, Allows, Accepted

\* Whoever completes the handshake has the secret of the request in hand.
LEMMA GuestKnowsSecret ==
  ASSUME HostInv, Introduced, SameRequests, Established
  PROVE  Host!LetsIn(est.sid)
  <1> DEFINE r == [t \in Asked |-> request[t]]
  <1>1. r' = r  BY SameView
  <1>2. est.sid \in Asked /\ job.sid \in Asked
    BY DEF Established, Introduced, SetUpKnown, JobFits
  <1>3. job.kind = request[job.sid].kind /\ job.secret = SecretFor(job.kind)
    BY DEF Established, Introduced, JobFits
  <1>4. media = "none" /\ media' = "running"
    BY DEF Established, HostInv, OneCapture, InSession
  <1>5. Phase = "settingUp" /\ InHand = job.sid /\ Phase' = "hosting" /\ InHand' = job.sid
    BY PhaseMeans, PhaseMeansNext DEF Established, InSession
  <1>6. DOMAIN r = Asked /\ r[est.sid] = request[est.sid] /\ r[InHand] = request[job.sid]
    BY <1>2, <1>5
  <1> HIDE DEF r
  <1>7. Host!ByCode <=> job.kind = "one_time"  BY <1>3, <1>6 DEF Host!ByCode, r
  <1>8. job.secret = IF Host!ByCode THEN oneTime ELSE 0  BY <1>3, <1>7 DEF SecretFor
  <1>9. est.sid \in DOMAIN r /\ r[est.sid].secret = IF Host!ByCode THEN oneTime ELSE 0
    BY <1>2, <1>6, <1>8 DEF Established
  <1>10. used' = IF Host!ByCode THEN used \cup {<<oneTime, est.sid>>} ELSE used
    BY <1>7, <1>8 DEF Established
  <1> QED  BY <1>1, <1>4, <1>5, <1>9, <1>10 DEF Host!LetsIn, Host!outside, Established, r

\* The session is over when its media thread is joined.
LEMMA JoinEnds ==
  ASSUME SameRequests, Joins
  PROVE  Host!Ends
  <1>1. [t \in Asked |-> request[t]]' = [t \in Asked |-> request[t]]  BY SameView
  <1>2. Phase = "hosting" /\ Phase' = "free" /\ InHand' = "none"
    BY PhaseMeans, PhaseMeansNext DEF Joins, InSession
  <1>3. oneTime' \in {oneTime, oneTime + 1} /\ media' = "none"
    BY DEF Joins, JoinsMedia, NewCode
  <1> QED  BY <1>1, <1>2, <1>3 DEF Host!Ends, Host!outside, Joins

LEMMA CodeIsReplaced ==
  ASSUME SameRequests, LooksIdle, rotate
  PROVE  Host!NewCode
  <1>1. [t \in Asked |-> request[t]]' = [t \in Asked |-> request[t]]  BY SameView
  <1>2. Phase = "free" /\ Phase' = "free" /\ InHand = "none" /\ InHand' = "none"
    BY PhaseMeans, PhaseMeansNext DEF LooksIdle
  <1> QED  BY <1>1, <1>2 DEF Host!NewCode, Host!outside, LooksIdle, NewCode

LEMMA HostStops ==
  ASSUME SameRequests, Stops
  PROVE  Host!Stops
  <1>1. [t \in Asked |-> request[t]]' = [t \in Asked |-> request[t]]  BY SameView
  <1>2. /\ Phase = "free" /\ Phase' = "stopped" /\ InHand = "none" /\ InHand' = "none"
    BY PhaseMeans, PhaseMeansNext DEF Stops
  <1> QED  BY <1>1, <1>2 DEF Host!Stops, Host!outside, Stops

\* What controllers, the person and the panel do.
LEMMA ControllerRequests ==
  ASSUME TypeOK, NEW s \in SessionId, NEW kind \in PasswordKind, NEW secret \in Secret,
         ControllerAsks(s, kind, secret)
  PROVE  Host!Requests(s)
  <1> DEFINE r == [t \in Asked |-> request[t]]
             new == [kind |-> kind, secret |-> secret]
  <1>1. DOMAIN r = Asked /\ s \notin Asked /\ Asked' = Asked \cup {s}
    BY DEF ControllerAsks, Sends, Moves, Asked, TypeOK, WorldOK
  <1>2. request' = [request EXCEPT ![s] = new] /\ DOMAIN request = SessionId
    BY DEF ControllerAsks, TypeOK, WorldOK
  <1>3. new \in {[kind |-> "permanent", secret |-> 0]}
                \cup {[kind |-> "one_time", secret |-> c] : c \in 1 .. oneTime}
    BY DEF ControllerAsks, PasswordKind, Code
  <1>4. r' = [t \in DOMAIN r \cup {s} |-> IF t = s THEN new ELSE r[t]]
    <2>1. r' = [t \in Asked' |-> request'[t]]  OBVIOUS
    <2>2. \A t \in Asked' : request'[t] = IF t = s THEN new ELSE r[t]
      BY <1>1, <1>2 DEF Asked
    <2> QED  BY <1>1, <2>1, <2>2
  <1>5. Phase' = Phase /\ InHand' = InHand
    BY DEF ControllerAsks, Sends, Phase, InHand
  <1>6. UNCHANGED <<oneTime, confirm, prompts, said, media, used>>
    BY DEF ControllerAsks, Sends
  <1>7. s \notin DOMAIN r  BY <1>1
  <1> HIDE DEF r, new
  <1> QED  BY <1>3, <1>4, <1>5, <1>6, <1>7 DEF Host!Requests, r

LEMMA PersonIsHeard ==
  ASSUME SameRequests, NEW rid \in DOMAIN prompts, NEW allow \in BOOLEAN, PersonSays(rid, allow)
  PROVE  Host!Says(rid, allow)
  <1>1. [t \in Asked |-> request[t]]' = [t \in Asked |-> request[t]]  BY SameView
  <1>2. Phase' = Phase /\ InHand' = InHand  BY DEF PersonSays, Phase, InHand
  <1> QED  BY <1>1, <1>2 DEF Host!Says, PersonSays

LEMMA PanelIsHeeded ==
  ASSUME SameRequests, PanelSwitches
  PROVE  Host!Switches
  <1>1. [t \in Asked |-> request[t]]' = [t \in Asked |-> request[t]]  BY SameView
  <1>2. Phase' = Phase /\ InHand' = InHand  BY DEF PanelSwitches, Phase, InHand
  <1> QED  BY <1>1, <1>2 DEF Host!Switches, PanelSwitches

\* Each step of the thread, its media thread and the world is one of the abstract host, or is
\* not seen.
LEMMA ThreadImplements ==
  ASSUME HostInv, Introduced, SameRequests, Next
  PROVE  Host!HNext \/ UNCHANGED Host!hvars
  <1> USE DEF Quiet, Outside, Stays, GoesOn, Quits, Waiting, InSession, Loops
  <1>0. TypeOK /\ Phases /\ Dialog  BY DEF HostInv
  <1>1. CASE Connects
    <2>1. Quiet /\ (Stays \/ Quits)  BY <1>1, <1>0 DEF Connects
    <2> QED  BY <2>1, QuietSteps
  <1>2. CASE Stops  BY <1>2, HostStops DEF Host!HNext
  <1>3. CASE LooksIdle
    <2>1. CASE rotate  BY <1>3, <2>1, CodeIsReplaced DEF Host!HNext
    <2>2. CASE ~rotate
      <3>1. Quiet /\ Stays  BY <1>3, <2>2 DEF LooksIdle
      <3> QED  BY <3>1, QuietSteps
    <2> QED  BY <2>1, <2>2
  <1>4. CASE \E s \in SessionId : Refuses(s)
    <2>1. Quiet /\ (Stays \/ Quits)  BY <1>4, <1>0 DEF Refuses, Takes, Rest, Rejected, Proceed
    <2> QED  BY <2>1, QuietSteps
  <1>5. CASE \E s \in SessionId : AsksPerson(s)  BY <1>5, <1>0, DialogIsAsked DEF Host!HNext
  <1>6. ASSUME NEW s \in SessionId, AcceptsAtOnce(s)
         PROVE  Host!HNext \/ UNCHANGED Host!hvars
    <2>1. CASE pc' = "accepting"  BY <1>6, <1>0, <2>1, UnattendedIsTaken DEF Host!HNext
    <2>2. CASE pc' # "accepting"
      <3>1. Quiet /\ Stays  BY <1>6, <2>2 DEF AcceptsAtOnce, Takes, Accepted, Proceed
      <3> QED  BY <3>1, QuietSteps
    <2> QED  BY <2>1, <2>2
  <1>7. CASE Denies
    <2>1. Quiet /\ (Stays \/ Quits)  BY <1>7, <1>0 DEF Denies, Rejected, Proceed
    <2> QED  BY <2>1, QuietSteps
  <1>8. CASE Allows
    <2>1. CASE pc' = "accepting"  BY <1>8, <1>0, <2>1, YesAgrees DEF Host!HNext
    <2>2. CASE pc' # "accepting"
      <3>1. Quiet /\ Quits  BY <1>8, <2>2 DEF Allows, Accepted, Proceed
      <3> QED  BY <3>1, QuietSteps
    <2> QED  BY <2>1, <2>2
  <1>9. CASE LooksDeciding
    <2>1. Quiet /\ (Stays \/ Quits)  BY <1>9, <1>0 DEF LooksDeciding
    <2> QED  BY <2>1, QuietSteps
  <1>10. CASE Looks
    <2>1. Quiet /\ (Stays \/ Quits)  BY <1>10, <1>0 DEF Looks
    <2> QED  BY <2>1, QuietSteps
  <1>11. CASE GivesUp
    <2>1. Quiet /\ (Stays \/ Quits)  BY <1>11, <1>0 DEF GivesUp, Abandon
    <2> QED  BY <2>1, QuietSteps
  <1>12. CASE ReadsReady
    <2>1. Quiet /\ (Stays \/ Quits)  BY <1>12, <1>0 DEF ReadsReady, Abandon, Proceed
    <2> QED  BY <2>1, QuietSteps
  <1>13. CASE ReadsSignal
    <2>1. Quiet /\ (Stays \/ Quits)  BY <1>13, <1>0 DEF ReadsSignal, Abandon
    <2> QED  BY <2>1, QuietSteps
  <1>14. CASE HandshakeFails
    <2>1. Quiet /\ (Stays \/ Quits)  BY <1>14, <1>0 DEF HandshakeFails, Abandon
    <2> QED  BY <2>1, QuietSteps
  <1>15. CASE Established
    <2>1. est.sid \in SessionId  BY <1>15, <1>0 DEF Established, Phases
    <2> QED  BY <1>15, <2>1, GuestKnowsSecret DEF Host!HNext
  <1>16. CASE LooksServing
    <2>1. Quiet /\ (Stays \/ Quits)  BY <1>16, <1>0 DEF LooksServing, Done
    <2> QED  BY <2>1, QuietSteps
  <1>17. CASE ReadsTail
    <2>1. Quiet /\ (Stays \/ Quits)  BY <1>17, <1>0 DEF ReadsTail, Done
    <2> QED  BY <2>1, QuietSteps
  <1>18. CASE Joins  BY <1>18, JoinEnds DEF Host!HNext
  <1>19. CASE RejectsBusy
    <2>1. Quiet /\ (Stays \/ Quits)  BY <1>19, <1>0 DEF RejectsBusy, Rejected, Proceed
    <2> QED  BY <2>1, QuietSteps
  <1>20. CASE ReadsNothing
    <2>1. Quiet /\ (Stays \/ Quits)  BY <1>20, <1>0 DEF ReadsNothing, Ignored
    <2> QED  BY <2>1, QuietSteps
  <1>21. CASE ReadFails
    <2>1. Quiet /\ (Stays \/ Quits)  BY <1>21, <1>0 DEF ReadFails
    <2> QED  BY <2>1, QuietSteps
  <1>22. CASE SessionOver
    <2>1. Quiet /\ (Stays \/ Quits)  BY <1>22, <1>0 DEF SessionOver, MediaEnds
    <2> QED  BY <2>1, QuietSteps
  <1>23. CASE CleanedUp
    <2>1. Quiet /\ (Stays \/ Quits)  BY <1>23, <1>0 DEF CleanedUp, MediaEnds
    <2> QED  BY <2>1, QuietSteps
  <1>24. CASE \E s \in SessionId, kind \in PasswordKind, secret \in Secret : ControllerAsks(s, kind, secret)
    BY <1>24, <1>0 DEF ControllerAsks, Sends, Moves, SameRequests, TypeOK, WorldOK
  <1>25. CASE \E s \in SessionId : ControllerAnswers(s)
    <2>1. Quiet /\ (Stays \/ Quits)  BY <1>25, <1>0 DEF ControllerAnswers, Sends, Moves
    <2> QED  BY <2>1, QuietSteps
  <1>26. CASE \E s \in SessionId : ControllerSendsIce(s)
    <2>1. Quiet /\ (Stays \/ Quits)  BY <1>26, <1>0 DEF ControllerSendsIce, Sends, Moves
    <2> QED  BY <2>1, QuietSteps
  <1>27. CASE \E s \in SessionId : ControllerLeaves(s)
    <2>1. Quiet /\ (Stays \/ Quits)  BY <1>27, <1>0 DEF ControllerLeaves, Sends, Moves
    <2> QED  BY <2>1, QuietSteps
  <1>28. CASE WsBreaks
    <2>1. Quiet /\ (Stays \/ Quits)  BY <1>28, <1>0 DEF WsBreaks
    <2> QED  BY <2>1, QuietSteps
  <1>29. CASE \E rid \in DOMAIN prompts, allow \in BOOLEAN : PersonSays(rid, allow)
    BY <1>29, PersonIsHeard DEF Host!HNext
  <1>30. CASE PanelStops
    <2>1. Quiet /\ (Stays \/ Quits)  BY <1>30, <1>0 DEF PanelStops
    <2> QED  BY <2>1, QuietSteps
  <1>31. CASE PanelRotates
    <2>1. Quiet /\ (Stays \/ Quits)  BY <1>31, <1>0 DEF PanelRotates
    <2> QED  BY <2>1, QuietSteps
  <1>32. CASE PanelSwitches  BY <1>32, PanelIsHeeded DEF Host!HNext
  <1> QED  BY <1>1, <1>2, <1>3, <1>4, <1>5, <1>6, <1>7, <1>8, <1>9, <1>10, <1>11, <1>12,
           <1>13, <1>14, <1>15, <1>16, <1>17, <1>18, <1>19, <1>20, <1>21, <1>22, <1>23,
           <1>24, <1>25, <1>26, <1>27, <1>28, <1>29, <1>30, <1>31, <1>32
       DEF Next, HostStep, TimesOut, World, Requested

LEMMA HostImplementsInit == Init => Host!HInit
  <1> SUFFICES ASSUME Init  PROVE Host!HInit  OBVIOUS
  <1>1. Asked = {}  BY DEF Init, Asked
  <1>2. Phase = "free" /\ InHand = "none"  BY PhaseMeans DEF Init
  <1>3. [s \in Asked |-> request[s]] = [s \in {} |-> {}]  BY <1>1
  <1> QED  BY <1>2, <1>3 DEF Host!HInit, Init

LEMMA HostImplementsStep == HostInv /\ Introduced /\ [Next]_vars => [Host!HNext]_(Host!hvars)
  <1> SUFFICES ASSUME HostInv, Introduced, [Next]_vars
               PROVE  Host!HNext \/ UNCHANGED Host!hvars
    OBVIOUS
  <1>1. CASE Next
    <2>1. TypeOK  BY DEF HostInv
    <2>2. CASE SameRequests  BY <1>1, <2>2, ThreadImplements
    <2>3. CASE \E s \in SessionId, kind \in PasswordKind, secret \in Secret :
                 ControllerAsks(s, kind, secret)
      BY <2>1, <2>3, ControllerRequests DEF Host!HNext
    <2> QED  BY <1>1, <2>1, <2>2, <2>3, RequestsStay
  <1>2. CASE UNCHANGED vars
    <2>1. Quiet /\ Stays
      BY <1>2 DEF vars, Quiet, Outside, SameRequests, Stays, GoesOn
    <2> QED  BY <2>1, QuietSteps
  <1> QED  BY <1>1, <1>2

\* The serving thread, in a world of controllers that come and go, WebSockets that break and a
\* person who answers late, hosts one session after another as SessionHost says.
THEOREM HostServesOneByOne == Spec => ImplementsHost
  <1>1. Init /\ [][Next]_vars => []Introduced
    BY HostInit, HostStepKeeps, IntroducedInit, IntroducedStep, PTL
  <1>2. Init /\ [][Next]_vars => []HostInv  BY HostInit, HostStepKeeps, PTL
  <1> QED  BY <1>1, <1>2, HostImplementsInit, HostImplementsStep, PTL
           DEF Spec, ImplementsHost, Host!HSpec
=============================================================================
