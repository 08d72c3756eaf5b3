------------------------- MODULE PacketStreamProofs -------------------------
(***************************************************************************)
(* PacketStream, for any timeouts, any window and any number of packets    *)
(* and connections.  The watchdogs: a stalled stream ends in time, and no  *)
(* stream is ended for what was not missing.  The packets: none is lost,   *)
(* doubled or put out of order by being deferred, and every time request   *)
(* read is answered.  The window of the camera: with every packet handled  *)
(* before the next wait, a heartbeat opens it in time.                     *)
(***************************************************************************)
EXTENDS PacketStream, SelectionProofs

\* The timeouts are positive, and the heartbeat is the shorter one.
LEMMA Times ==
  /\ FrameTimeout \in Nat /\ FrameTimeout > 0
  /\ HeartbeatInterval \in Nat /\ HeartbeatInterval > 0
  /\ HeartbeatInterval < FrameTimeout
<1>1. FrameTimeout \in Nat \ {0} /\ HeartbeatInterval \in Nat \ {0}
  BY TimesAssumption
<1> QED
  BY <1>1, TimesAssumption

Handshaking == stage \in Commands \union {"times"}

\* The history counts what the deadlines leave.  The frame deadline may pass while
\* the reader receives, for as long as the next heartbeat is away.
Counted ==
  /\ Handshaking => quiet = 0 /\ frozen = 0
  /\ Streaming => quiet + activityLeft = FrameTimeout
  /\ Streaming /\ frameLeft > 0 => frozen + frameLeft = FrameTimeout
  /\ Streaming /\ frameLeft = 0 => frozen >= FrameTimeout
  /\ stage = "stream" => frameLeft > 0
  /\ stage = "receive" => frozen + heartbeatLeft < FrameTimeout + HeartbeatInterval

IInv == TimersOK /\ Counted /\ NoFalseAlarm

\* The first connection begins with nothing counted.
LEMMA InitHolds == Init => IInv
BY Times
   DEF Init, IInv, TimersOK, Counted, NoFalseAlarm, Handshaking, Streaming, Commands

-----------------------------------------------------------------------------
(* The ways to leave a stage.                                              *)

\* Staying changes nothing of it.
LEMMA StayKeepsIt == IInv /\ Stay => IInv'
BY DEF Stay, IInv, TimersOK, Counted, NoFalseAlarm, Handshaking, Streaming, timerVars, pastVars

\* What the handshake or the connection raises is no alarm of a watchdog.
LEMMA RaiseKeepsIt ==
  ASSUME IInv, NEW why \in {"timeout", "refused", "lost"}, Raise(why)
  PROVE  IInv'
BY DEF Raise, IInv, TimersOK, Counted, NoFalseAlarm, Handshaking, Streaming, timerVars,
       pastVars, Commands

\* A step of the handshake sets the deadlines of frames() before the stream begins.
LEMMA ProceedKeepsIt ==
  ASSUME IInv, Handshaking, Proceed
  PROVE  IInv'
<1>1. /\ stage' \in Commands \union {"times", "stream"}
      /\ stage' = "stream" \/ stage' \in Commands \union {"times"}
  BY DEF Proceed, After, Handshaking, Commands
<1>2. cause' = "none" /\ quiet' = 0 /\ frozen' = 0
  BY DEF Proceed, pastVars, IInv, TimersOK, Counted, Handshaking, Commands
<1>3. CASE stage' = "stream"
  <2>1. /\ heartbeatLeft' = HeartbeatInterval
        /\ activityLeft' = FrameTimeout /\ frameLeft' = FrameTimeout
    BY <1>3 DEF Proceed
  <2> QED
    BY <1>2, <1>3, <2>1, Times
       DEF IInv, TimersOK, Counted, NoFalseAlarm, Handshaking, Streaming, Commands
<1>4. CASE stage' \in Commands \union {"times"}
  <2>1. heartbeatLeft' = 0 /\ activityLeft' = 0 /\ frameLeft' = 0
    BY <1>4 DEF Proceed, Commands
  <2> QED
    BY <1>2, <1>4, <2>1, Times
       DEF IInv, TimersOK, Counted, NoFalseAlarm, Handshaking, Streaming, Commands
<1> QED
  BY <1>1, <1>3, <1>4

\* The checks at the end of the loop leave the stream only to a watchdog whose time
\* is up.
LEMMA CheckKeepsIt ==
  ASSUME TimersOK, Streaming,
         NEW activity \in 0..FrameTimeout, NEW frame \in 0..FrameTimeout,
         Check(activity, frame),
         heartbeatLeft' = heartbeatLeft,
         quiet' \in Nat, frozen' \in Nat,
         quiet' + activity = FrameTimeout,
         frame > 0 => frozen' + frame = FrameTimeout,
         frame = 0 => frozen' >= FrameTimeout
  PROVE  IInv'
<1>1. activityLeft' = activity /\ frameLeft' = frame
  BY DEF Check
<1>2. CASE activity = 0
  <2>1. stage' = "raised" /\ cause' = "noActivity"
    BY <1>2, Times DEF Check
  <2>2. quiet' >= FrameTimeout
    <3>1. quiet' + 0 = FrameTimeout
      BY <1>2
    <3>2. quiet' = FrameTimeout
      BY <3>1
    <3> QED
      BY <3>2, Times
  <2>3. TimersOK'
    BY <1>1, <2>1, Times DEF TimersOK
  <2>4. Counted'
    BY <2>1 DEF Counted, Handshaking, Streaming, Commands
  <2>5. NoFalseAlarm'
    BY <2>1, <2>2 DEF NoFalseAlarm
  <2> QED
    BY <2>3, <2>4, <2>5 DEF IInv
<1>3. CASE activity > 0 /\ frame = 0
  <2>1. stage' = "raised" /\ cause' = "noFrame"
    BY <1>3, Times DEF Check
  <2> QED
    BY <1>1, <1>3, <2>1, Times
       DEF IInv, TimersOK, Counted, NoFalseAlarm, Handshaking, Streaming, Commands
<1>4. CASE activity > 0 /\ frame > 0
  <2>1. stage' = "stream" /\ cause' = "none"
    BY <1>4, Times DEF Check
  <2> QED
    BY <1>1, <1>4, <2>1, Times
       DEF IInv, TimersOK, Counted, NoFalseAlarm, Handshaking, Streaming, Commands
<1> QED
  BY <1>2, <1>3, <1>4

-----------------------------------------------------------------------------
(* The steps.                                                              *)

\* _wait_response goes on, or its answer has come.
LEMMA WaitingKeepsIt == IInv /\ WaitResponse => IInv'
<1> SUFFICES ASSUME IInv, WaitResponse PROVE IInv'
  OBVIOUS
<1>1. PICK k \in 1..Len(wire) : WaitHandles(SubSeq(wire, 1, k))
  BY DEF WaitResponse
<1>2. Handshaking
  BY DEF WaitResponse, Handshaking
<1>3. Proceed \/ Raise("refused") \/ Stay
  BY <1>1 DEF WaitHandles, EndWait
<1> QED
  BY <1>2, <1>3, ProceedKeepsIt, RaiseKeepsIt, StayKeepsIt

\* _answer_initial_time_syncs goes on, or has answered twice.
LEMMA AnsweringKeepsIt == IInv /\ AnswerTimeSyncs => IInv'
<1> SUFFICES ASSUME IInv, AnswerTimeSyncs PROVE IInv'
  OBVIOUS
<1>1. PICK k \in 1..Len(wire) : SyncHandles(SubSeq(wire, 1, k))
  BY DEF AnswerTimeSyncs
<1>2. UNCHANGED <<cause, heartbeatLeft, activityLeft, frameLeft, quiet, frozen>>
  BY <1>1 DEF SyncHandles, pastVars
<1>3. stage = "times" /\ stage' \in {"times", "video"}
  BY <1>1 DEF AnswerTimeSyncs, SyncHandles
<1> QED
  BY <1>2, <1>3 DEF IInv, TimersOK, Counted, NoFalseAlarm, Handshaking, Streaming, Commands

\* Packets restart the first watchdog, complete frames both.
LEMMA HandlingKeepsIt ==
  ASSUME IInv, Streaming, NEW packets, StreamHandles(packets),
         heartbeatLeft' = heartbeatLeft
  PROVE  IInv'
<1> DEFINE whole == \E n \in 1..MaxMedia : Holds(packets, Media(n, TRUE))
           frame == IF whole THEN FrameTimeout ELSE frameLeft
<1>1. /\ quiet' = 0 /\ frozen' = IF whole THEN 0 ELSE frozen
      /\ Check(FrameTimeout, frame)
  BY DEF StreamHandles
<1> HIDE DEF whole
<1>2. FrameTimeout \in Nat \ {0}
  BY Times
<1>3. TimersOK /\ frame \in 0..FrameTimeout /\ quiet' \in Nat /\ frozen' \in Nat
  BY <1>1, <1>2 DEF IInv, TimersOK
<1>4. /\ frame > 0 => frozen' + frame = FrameTimeout
      /\ frame = 0 => frozen' >= FrameTimeout
  BY <1>1, <1>2, <1>3 DEF IInv, TimersOK, Counted
<1>5. FrameTimeout \in 0..FrameTimeout /\ quiet' + FrameTimeout = FrameTimeout
  BY <1>1, <1>2
<1> HIDE DEF frame
<1> QED
  BY <1>1, <1>3, <1>4, <1>5, CheckKeepsIt

\* Without packets the watchdogs are looked at as they are.
LEMMA NothingKeepsIt == IInv /\ NothingReceived => IInv'
<1> SUFFICES ASSUME IInv, NothingReceived PROVE IInv'
  OBVIOUS
<1>1. /\ Check(activityLeft, frameLeft) /\ Streaming
      /\ heartbeatLeft' = heartbeatLeft /\ quiet' = quiet /\ frozen' = frozen
  BY DEF NothingReceived, pastVars, Streaming
<1>2. /\ activityLeft \in 0..FrameTimeout /\ frameLeft \in 0..FrameTimeout
      /\ quiet \in Nat /\ frozen \in Nat /\ quiet + activityLeft = FrameTimeout
      /\ frameLeft > 0 => frozen + frameLeft = FrameTimeout
      /\ frameLeft = 0 => frozen >= FrameTimeout
  BY <1>1 DEF IInv, TimersOK, Counted
<1> QED
  BY <1>1, <1>2, CheckKeepsIt DEF IInv

\* A tick counts once for the history and once for each deadline.
LEMMA TickKeepsIt == IInv /\ Tick => IInv'
<1> SUFFICES ASSUME IInv, Tick PROVE IInv'
  OBVIOUS
<1>1. /\ heartbeatLeft' = Less(heartbeatLeft) /\ activityLeft' = Less(activityLeft)
      /\ frameLeft' = Less(frameLeft) /\ stage' = stage /\ cause' = cause
  BY DEF Tick
<1>2. CASE stage = "receive"
  <2>1. quiet' = quiet + 1 /\ frozen' = frozen + 1 /\ activityLeft > 0 /\ heartbeatLeft > 0
    BY <1>2 DEF Tick, Commands
  <2>2. activityLeft' = activityLeft - 1 /\ heartbeatLeft' = heartbeatLeft - 1
    BY <1>1, <2>1 DEF Less, IInv, TimersOK
  <2>3. /\ frameLeft > 0 => frameLeft' = frameLeft - 1
        /\ frameLeft = 0 => frameLeft' = 0
    BY <1>1 DEF Less, IInv, TimersOK
  <2>4. TimersOK'
    BY <1>1, <1>2, <2>1, <2>2, <2>3, Times DEF IInv, TimersOK
  <2>5. Counted'
    BY <1>1, <1>2, <2>1, <2>2, <2>3, Times
       DEF IInv, TimersOK, Counted, Handshaking, Streaming, Commands
  <2>6. NoFalseAlarm'
    BY <1>1, <1>2 DEF IInv, TimersOK, NoFalseAlarm
  <2> QED
    BY <2>4, <2>5, <2>6 DEF IInv
<1>3. CASE stage # "receive"
  <2>1. Handshaking /\ quiet' = quiet /\ frozen' = frozen
    BY <1>3 DEF Tick, Handshaking, pastVars
  <2>2. /\ heartbeatLeft' \in 0..HeartbeatInterval
        /\ activityLeft' \in 0..FrameTimeout /\ frameLeft' \in 0..FrameTimeout
    BY <1>1, Times DEF Less, IInv, TimersOK
  <2> QED
    BY <1>1, <2>1, <2>2
       DEF IInv, TimersOK, Counted, NoFalseAlarm, Handshaking, Streaming, Commands
<1> QED
  BY <1>2, <1>3

\* What the camera does touches neither the deadlines nor the history of the reader.
LEMMA CameraKeepsIt == IInv /\ Camera => IInv'
<1> SUFFICES ASSUME IInv, Camera PROVE IInv'
  OBVIOUS
<1>1. UNCHANGED <<stage, cause, heartbeatLeft, activityLeft, frameLeft, quiet, frozen>>
  BY DEF Camera, CameraAnswers, CameraAnswersHeartbeat, CameraAsksTime, CameraSendsMedia,
         CameraCloses, CameraSends, timerVars, pastVars
<1> QED
  BY <1>1 DEF IInv, TimersOK, Counted, NoFalseAlarm, Handshaking, Streaming

\* The steps of the reader.
LEMMA ReaderKeepsIt == IInv /\ Reader => IInv'
<1> SUFFICES ASSUME IInv, Reader PROVE IInv'
  OBVIOUS
<1>1. CASE Connect
  BY <1>1, Times
     DEF Connect, IInv, TimersOK, Counted, NoFalseAlarm, Handshaking, Streaming, Commands
<1>2. CASE WaitResponse
  BY <1>2, WaitingKeepsIt
<1>3. CASE WaitTimesOut
  BY <1>3, RaiseKeepsIt DEF WaitTimesOut
<1>4. CASE AnswerTimeSyncs
  BY <1>4, AnsweringKeepsIt
<1>5. CASE TimeSyncsMissing
  BY <1>5, ProceedKeepsIt DEF TimeSyncsMissing, Handshaking
<1>6. CASE Heartbeat
  BY <1>6, Times
     DEF Heartbeat, IInv, TimersOK, Counted, NoFalseAlarm, Handshaking, Streaming, Commands
<1>7. CASE BeginReceive
  <2>1. /\ stage = "stream" /\ stage' = "receive"
        /\ UNCHANGED <<cause, heartbeatLeft, activityLeft, frameLeft, quiet, frozen>>
    BY <1>7 DEF BeginReceive, timerVars, pastVars
  <2>2. frozen + heartbeatLeft < FrameTimeout + HeartbeatInterval
    BY <2>1, Times DEF IInv, TimersOK, Counted, Streaming
  <2> QED
    BY <2>1, <2>2
       DEF IInv, TimersOK, Counted, NoFalseAlarm, Handshaking, Streaming, Commands
<1>8. CASE HandleDeferred
  BY <1>8, HandlingKeepsIt DEF HandleDeferred, Streaming
<1>9. CASE HandleReceived
  BY <1>9, HandlingKeepsIt DEF HandleReceived, Streaming
<1>10. CASE NothingReceived
  BY <1>10, NothingKeepsIt
<1>11. CASE ConnectionLost
  BY <1>11, RaiseKeepsIt DEF ConnectionLost
<1> QED
  BY <1>1, <1>2, <1>3, <1>4, <1>5, <1>6, <1>7, <1>8, <1>9, <1>10, <1>11 DEF Reader

\* Every step keeps the invariant.
LEMMA StepHolds == IInv /\ [Next]_vars => IInv'
<1>1. IInv /\ UNCHANGED vars => IInv'
  BY DEF vars, timerVars, pastVars, IInv, TimersOK, Counted, NoFalseAlarm, Handshaking,
         Streaming
<1> QED
  BY <1>1, ReaderKeepsIt, CameraKeepsIt, TickKeepsIt DEF Next

\* The invariant is one of the system.
LEMMA AlwaysHolds == Spec => []IInv
BY InitHolds, StepHolds, PTL DEF Spec

-----------------------------------------------------------------------------
(* The type invariant.                                                     *)

\* The camera counts what it sends up to the bounds; a connection begins anew.
LEMMA TypesKept == IInv /\ TypeOK /\ [Next]_vars => TypeOK'
<1> DEFINE Rest ==
      /\ timeLeft \in Nat /\ shut \in Nat
      /\ conn \in 1..MaxConnections /\ closed \in BOOLEAN
      /\ asked \in Commands \union {"none"} /\ owed \in Nat
      /\ sent \in 0..MaxMedia /\ syncsSent \in 0..MaxSyncs
<1>0. /\ TypeOK <=> TimersOK /\ Rest
      /\ TypeOK' <=> TimersOK' /\ Rest'
  BY DEF TypeOK
<1> SUFFICES ASSUME IInv, TypeOK, [Next]_vars PROVE Rest'
  BY <1>0, StepHolds DEF IInv
<1>l. /\ ConnectTimeout \in Nat /\ SyncWait \in Nat
      /\ MaxMedia \in Nat /\ MaxSyncs \in Nat /\ MaxConnections \in Nat
  <2>1. /\ ConnectTimeout \in Nat \ {0} /\ SyncWait \in Nat \ {0}
    BY TimesAssumption
  <2>2. /\ MaxMedia \in Nat \ {0} /\ MaxSyncs \in Nat \ {0} /\ MaxConnections \in Nat \ {0}
    BY LimitsAssumption
  <2> QED
    BY <2>1, <2>2
<1>r. Rest
  BY <1>0
<1>p. ASSUME Proceed \/ Stay \/ \E why : Raise(why)
      PROVE  timeLeft' \in Nat /\ shut' = shut /\ asked' \in Commands \union {"none"}
  <2>1. CASE Proceed
    BY <1>l, <1>r, <2>1 DEF Proceed, pastVars
  <2>2. CASE Stay \/ \E why : Raise(why)
    BY <1>r, <2>2 DEF Stay, Raise, timerVars, pastVars
  <2> QED
    BY <1>p, <2>1, <2>2
<1>1. CASE Connect
  <2>1. conn' \in 1..MaxConnections
    BY <1>1, <1>l, <1>r DEF Connect
  <2>2. 0 \in Nat /\ 0 \in 0..MaxMedia /\ 0 \in 0..MaxSyncs
    BY <1>l
  <2>3. /\ timeLeft' = ConnectTimeout /\ shut' = 0 /\ closed' = FALSE /\ asked' = "auth"
        /\ owed' = 0 /\ sent' = 0 /\ syncsSent' = 0
    BY <1>1 DEF Connect
  <2> QED
    BY <1>l, <2>1, <2>2, <2>3 DEF Commands
<1>2. CASE WaitResponse
  <2>1. Proceed \/ Stay \/ \E why : Raise(why)
    BY <1>2 DEF WaitResponse, WaitHandles, EndWait
  <2> QED
    BY <1>2, <1>p, <1>r, <2>1 DEF WaitResponse, linkVars
<1>3. CASE WaitTimesOut \/ TimeSyncsMissing \/ ConnectionLost
  <2>1. Proceed \/ Stay \/ \E why : Raise(why)
    BY <1>3 DEF WaitTimesOut, TimeSyncsMissing, ConnectionLost
  <2> QED
    BY <1>3, <1>p, <1>r, <2>1 DEF WaitTimesOut, TimeSyncsMissing, ConnectionLost, linkVars
<1>4. CASE AnswerTimeSyncs
  BY <1>4, <1>l, <1>r DEF AnswerTimeSyncs, SyncHandles, linkVars, pastVars, Commands
<1>5. CASE Heartbeat \/ BeginReceive
  BY <1>5, <1>r DEF Heartbeat, BeginReceive, linkVars, cameraVars, timerVars, pastVars
<1>6. CASE HandleDeferred \/ HandleReceived \/ NothingReceived
  BY <1>6, <1>r
     DEF HandleDeferred, HandleReceived, NothingReceived, linkVars, cameraVars, pastVars
<1>7. CASE CameraAnswers
  BY <1>7, <1>r DEF CameraAnswers, CameraSends, linkVars, timerVars, pastVars
<1>8. CASE CameraAnswersHeartbeat \/ CameraAsksTime
  BY <1>8, <1>l, <1>r
     DEF CameraAnswersHeartbeat, CameraAsksTime, CameraSends, linkVars, timerVars, pastVars
<1>9. CASE CameraSendsMedia
  BY <1>9, <1>l, <1>r DEF CameraSendsMedia, CameraSends, linkVars, timerVars, pastVars
<1>10. CASE CameraCloses
  BY <1>10, <1>r DEF CameraCloses, cameraVars, timerVars, pastVars
<1>11. CASE Tick
  BY <1>11, <1>r DEF Tick, Less, linkVars, cameraVars, pastVars
<1>12. CASE UNCHANGED vars
  BY <1>12, <1>r DEF vars, linkVars, cameraVars, timerVars, pastVars
<1> QED
  BY <1>1, <1>2, <1>3, <1>4, <1>5, <1>6, <1>7, <1>8, <1>9, <1>10, <1>11, <1>12
     DEF Next, Reader, Camera

\* The places of the reader, its deadlines and the counters are of their types.
THEOREM TypeCorrect == Spec => []TypeOK
<1>1. ASSUME Init PROVE TypeOK
  <2>1. TimersOK
    BY <1>1, InitHolds DEF IInv
  <2>2. /\ timeLeft = ConnectTimeout /\ shut = 0 /\ conn = 1 /\ closed = FALSE
        /\ asked = "auth" /\ owed = 0 /\ sent = 0 /\ syncsSent = 0
    BY <1>1 DEF Init
  <2>3. ConnectTimeout \in Nat \ {0}
    BY TimesAssumption
  <2>4. /\ MaxConnections \in Nat \ {0} /\ MaxMedia \in Nat \ {0}
        /\ MaxSyncs \in Nat \ {0}
    BY LimitsAssumption
  <2>5. 1 \in 1..MaxConnections /\ 0 \in 0..MaxMedia /\ 0 \in 0..MaxSyncs
    BY <2>4
  <2> QED
    BY <2>1, <2>2, <2>3, <2>5 DEF TypeOK, Commands
<1> QED
  BY <1>1, TypesKept, AlwaysHolds, PTL DEF Spec

-----------------------------------------------------------------------------
(* The watchdogs.                                                          *)

\* Without a complete frame the stream ends within the frame timeout and one
\* heartbeat, whatever keeps the connection busy.
THEOREM StallIsBounded == Spec => []StalledStreamEnds
<1>1. IInv => StalledStreamEnds
  <2> SUFFICES ASSUME IInv, Streaming PROVE frozen < FrameTimeout + HeartbeatInterval
    BY DEF StalledStreamEnds
  <2>1. CASE stage = "stream"
    BY <2>1, Times DEF IInv, TimersOK, Counted, Streaming
  <2>2. CASE stage = "receive"
    BY <2>2, Times DEF IInv, TimersOK, Counted
  <2> QED
    BY <2>1, <2>2 DEF Streaming
<1> QED
  BY <1>1, AlwaysHolds, PTL

\* A watchdog ends a stream only after what it watches for was missing that long.
THEOREM AlarmsAreTrue == Spec => []NoFalseAlarm
<1>1. IInv => NoFalseAlarm
  BY DEF IInv
<1> QED
  BY <1>1, AlwaysHolds, PTL

-----------------------------------------------------------------------------
(* Numbers and SyncsIn, for every sequence of packets.                     *)

\* The media packets are the packets that have a number; no other kind is one.
LEMMA Kinds ==
  /\ MediaPackets \subseteq Packets /\ TimeRequest \in Packets \ MediaPackets
  /\ HeartbeatAnswer \in Packets \ (MediaPackets \union {TimeRequest})
  /\ \A p \in MediaPackets : p.n \in Nat /\ p \notin Own /\ p # TimeRequest
  /\ \A of \in Commands, ok \in BOOLEAN :
       Answer(of, ok) \in Packets \ (MediaPackets \union {TimeRequest})
  /\ \A n \in 1..MaxMedia, whole \in BOOLEAN :
       Media(n, whole) \in MediaPackets /\ Media(n, whole).n = n
<1>1. \A n, whole : Media(n, whole).kind = "media" /\ Media(n, whole).n = n
  BY DEF Media
<1>2. \A of, ok : Answer(of, ok).kind = "answer"
  BY DEF Answer
<1>3. TimeRequest.kind = "sync" /\ HeartbeatAnswer.kind = "beat"
  BY DEF TimeRequest, HeartbeatAnswer
<1>4. \A p \in MediaPackets : p.kind = "media" /\ p.n \in Nat
  <2>1. MaxMedia \in Nat
    BY LimitsAssumption
  <2> QED
    BY <1>1, <2>1 DEF MediaPackets
<1>5. \A p \in Own : p.kind = "answer"
  BY <1>2 DEF Own
<1>6. MediaPackets \subseteq Packets /\ TimeRequest \in Packets /\ HeartbeatAnswer \in Packets
  BY DEF Packets
<1>7. \A of \in Commands, ok \in BOOLEAN : Answer(of, ok) \in Packets
  BY DEF Packets
<1>8. \A n \in 1..MaxMedia, whole \in BOOLEAN : Media(n, whole) \in MediaPackets
  BY DEF MediaPackets
<1> QED
  BY <1>1, <1>2, <1>3, <1>4, <1>5, <1>6, <1>7, <1>8

\* Numbers goes through the media packets one by one.
LEMMA NumbersAre ==
  ASSUME NEW s \in Seq(Packets)
  PROVE  /\ Only(s, MediaPackets) \in Seq(MediaPackets)
         /\ Numbers(s) \in Seq(Nat)
         /\ Len(Numbers(s)) = Len(Only(s, MediaPackets))
         /\ \A j \in 1..Len(Numbers(s)) : Numbers(s)[j] = Only(s, MediaPackets)[j].n
<1> DEFINE media == Only(s, MediaPackets)
<1>1. media \in Seq(MediaPackets)
  <2>1. Packets \intersect MediaPackets = MediaPackets
    BY Kinds
  <2> QED
    BY <2>1, OnlyType
<1>2. Numbers(s) = [j \in 1..Len(media) |-> media[j].n]
  BY DEF Numbers
<1> HIDE DEF media
<1>3. Len(media) \in Nat /\ \A j \in 1..Len(media) : media[j] \in MediaPackets
  BY <1>1, LenProperties, ElementOfSeq
<1>4. \A j \in 1..Len(media) : media[j].n \in Nat
  BY <1>3, Kinds
<1>5. Numbers(s) \in Seq(Nat) /\ Len(Numbers(s)) = Len(media)
  BY <1>2, <1>3, <1>4
<1> QED
  BY <1>1, <1>2, <1>5 DEF media

\* Two rows of packets one after the other.
LEMMA NumbersOfTwo ==
  ASSUME NEW s \in Seq(Packets), NEW t \in Seq(Packets)
  PROVE  Numbers(s \o t) = Numbers(s) \o Numbers(t)
<1> DEFINE a == Only(s, MediaPackets)
           b == Only(t, MediaPackets)
           c == Only(s \o t, MediaPackets)
<1>1. c = a \o b /\ s \o t \in Seq(Packets)
  BY OnlyConcat, ConcatProperties
<1>2. /\ a \in Seq(MediaPackets) /\ b \in Seq(MediaPackets)
      /\ Numbers(s) \in Seq(Nat) /\ Len(Numbers(s)) = Len(a)
      /\ \A j \in 1..Len(Numbers(s)) : Numbers(s)[j] = a[j].n
      /\ Numbers(t) \in Seq(Nat) /\ Len(Numbers(t)) = Len(b)
      /\ \A j \in 1..Len(Numbers(t)) : Numbers(t)[j] = b[j].n
      /\ Numbers(s \o t) \in Seq(Nat) /\ Len(Numbers(s \o t)) = Len(c)
      /\ \A j \in 1..Len(Numbers(s \o t)) : Numbers(s \o t)[j] = c[j].n
  BY <1>1, NumbersAre
<1> HIDE DEF a, b, c
<1>3. /\ Len(a) \in Nat /\ Len(b) \in Nat /\ Len(c) = Len(a) + Len(b)
      /\ \A j \in 1..Len(a) + Len(b) : c[j] = IF j <= Len(a) THEN a[j] ELSE b[j - Len(a)]
  BY <1>1, <1>2, ConcatProperties, LenProperties
<1> DEFINE u == Numbers(s)
           v == Numbers(t)
           w == Numbers(s \o t)
           x == u \o v
<1>4. /\ x \in Seq(Nat) /\ Len(x) = Len(a) + Len(b)
      /\ \A j \in 1..Len(a) + Len(b) : x[j] = IF j <= Len(a) THEN u[j] ELSE v[j - Len(a)]
  <2>1. u \in Seq(Nat) /\ v \in Seq(Nat) /\ Len(u) = Len(a) /\ Len(v) = Len(b)
    BY <1>2
  <2> HIDE DEF u, v
  <2>2. /\ x \in Seq(Nat) /\ Len(x) = Len(u) + Len(v)
        /\ \A j \in 1..Len(u) + Len(v) : x[j] = IF j <= Len(u) THEN u[j] ELSE v[j - Len(u)]
    BY <2>1, ConcatProperties
  <2> HIDE DEF x
  <2> QED
    BY <2>1, <2>2
<1> HIDE DEF u, v, w, x
<1>5. ASSUME NEW j \in 1..Len(w) PROVE w[j] = x[j]
  <2>0. j \in 1..Len(a) + Len(b) /\ w[j] = c[j].n
    BY <1>2, <1>3 DEF w
  <2>1. CASE j <= Len(a)
    <3>1. j \in 1..Len(a) /\ u[j] = a[j].n
      BY <1>2, <1>3, <2>0, <2>1 DEF u
    <3> QED
      BY <1>3, <1>4, <2>0, <2>1, <3>1
  <2>2. CASE ~(j <= Len(a))
    <3>0. j - Len(a) \in 1..Len(b)
      BY <1>3, <2>0, <2>2
    <3>1. v[j - Len(a)] = b[j - Len(a)].n
      BY <1>2, <3>0 DEF v
    <3>2. c[j] = b[j - Len(a)]
      BY <1>3, <2>0, <2>2
    <3>3. x[j] = v[j - Len(a)]
      BY <1>4, <2>0, <2>2
    <3> QED
      BY <2>0, <3>1, <3>2, <3>3
  <2> QED
    BY <2>1, <2>2
<1>6. w \in Seq(Nat) /\ Len(w) = Len(x)
  BY <1>2, <1>3, <1>4 DEF w
<1>7. w = x
  BY <1>4, <1>5, <1>6, SeqEqual
<1> QED
  BY <1>7 DEF u, v, w, x

\* A single packet.
LEMMA NumbersOfOne ==
  ASSUME NEW p \in Packets
  PROVE  /\ p \in MediaPackets => Numbers(<<p>>) = <<p.n>>
         /\ p \notin MediaPackets => Numbers(<<p>>) = <<>>
         /\ SyncsIn(<<p>>) = IF p = TimeRequest THEN 1 ELSE 0
<1>1. Only(<<p>>, MediaPackets) = IF p \in MediaPackets THEN <<p>> ELSE <<>>
  BY OnlyOne
<1>2. Only(<<p>>, {TimeRequest}) = IF p \in {TimeRequest} THEN <<p>> ELSE <<>>
  BY OnlyOne
<1>3. ASSUME p \in MediaPackets PROVE Numbers(<<p>>) = <<p.n>>
  <2>1. Numbers(<<p>>) = [j \in 1..1 |-> <<p>>[j].n]
    BY <1>1, <1>3 DEF Numbers
  <2>2. [j \in 1..1 |-> <<p>>[j].n] = <<p.n>>
    OBVIOUS
  <2> QED
    BY <2>1, <2>2
<1>4. ASSUME p \notin MediaPackets PROVE Numbers(<<p>>) = <<>>
  <2>1. Numbers(<<p>>) = [j \in 1..0 |-> <<>>[j].n]
    BY <1>1, <1>4 DEF Numbers
  <2> QED
    BY <2>1
<1>5. SyncsIn(<<p>>) = IF p = TimeRequest THEN 1 ELSE 0
  <2>1. Len(<<p>>) = 1 /\ Len(<<>>) = 0
    OBVIOUS
  <2> QED
    BY <1>2, <2>1 DEF SyncsIn
<1> QED
  BY <1>3, <1>4, <1>5

\* The time requests of two rows add up.
LEMMA SyncsOfTwo ==
  ASSUME NEW s \in Seq(Packets), NEW t \in Seq(Packets)
  PROVE  /\ SyncsIn(s) \in Nat /\ SyncsIn(t) \in Nat
         /\ SyncsIn(s \o t) = SyncsIn(s) + SyncsIn(t)
<1>1. Only(s, {TimeRequest}) \in Seq(Packets) /\ Only(t, {TimeRequest}) \in Seq(Packets)
  BY OnlyType
<1>2. Only(s \o t, {TimeRequest}) = Only(s, {TimeRequest}) \o Only(t, {TimeRequest})
  BY OnlyConcat
<1> QED
  BY <1>1, <1>2, ConcatProperties, LenProperties DEF SyncsIn

\* Nothing has no number and no time request.
LEMMA NumbersOfNone == Numbers(<<>>) = <<>> /\ SyncsIn(<<>>) = 0
<1>1. Only(<<>>, MediaPackets) = <<>> /\ Only(<<>>, {TimeRequest}) = <<>>
  BY OnlyEmpty
<1>2. Len(<<>>) = 0
  OBVIOUS
<1>3. Numbers(<<>>) = [j \in 1..0 |-> <<>>[j].n]
  BY <1>1, <1>2 DEF Numbers
<1> QED
  BY <1>1, <1>2, <1>3 DEF SyncsIn

\* A row read in two parts.
LEMMA NumbersOfParts ==
  ASSUME NEW s \in Seq(Packets), NEW k \in 1..Len(s)
  PROVE  /\ SubSeq(s, 1, k) \in Seq(Packets) /\ SubSeq(s, k + 1, Len(s)) \in Seq(Packets)
         /\ Numbers(s) = Numbers(SubSeq(s, 1, k)) \o Numbers(SubSeq(s, k + 1, Len(s)))
         /\ SyncsIn(s) = SyncsIn(SubSeq(s, 1, k)) + SyncsIn(SubSeq(s, k + 1, Len(s)))
<1>0. k \in 0..Len(s) /\ Len(s) \in Nat
  BY LenProperties
<1>1. SubSeq(s, 1, k) \in Seq(Packets) /\ SubSeq(s, k + 1, Len(s)) \in Seq(Packets)
  BY <1>0, OnlySplit
<1>2. s = SubSeq(s, 1, k) \o SubSeq(s, k + 1, Len(s))
  BY <1>0, ConcatAdjacentSubSeq, SubSeqFull
<1> QED
  BY <1>1, <1>2, NumbersOfTwo, SyncsOfTwo

\* What is deferred has the media packets of what was read and no time request.
LEMMA NumbersOfDeferred ==
  ASSUME NEW s \in Seq(Packets), NEW K, K \intersect MediaPackets = {}
  PROVE  /\ Only(s, Packets \ (K \union {TimeRequest})) \in Seq(Packets \ {TimeRequest})
         /\ Numbers(Only(s, Packets \ (K \union {TimeRequest}))) = Numbers(s)
<1> DEFINE A == Packets \ (K \union {TimeRequest})
<1>1. Packets \intersect A \subseteq Packets \ {TimeRequest}
  OBVIOUS
<1>2. Only(s, A) \in Seq(Packets \intersect A)
  BY OnlyType
<1>3. Only(s, A) \in Seq(Packets \ {TimeRequest})
  BY <1>1, <1>2, SeqMonotonic
<1>4. A \intersect MediaPackets = MediaPackets
  BY Kinds
<1> HIDE DEF A
<1>5. Only(Only(s, A), MediaPackets) = Only(s, MediaPackets)
  BY <1>4, OnlyTwice
<1> QED
  BY <1>3, <1>5 DEF A, Numbers
-----------------------------------------------------------------------------
(* The packets.                                                            *)

\* What is where.  No time request is deferred, and nothing is while the reader
\* receives; the latest number is that of the last media packet handled.
Packed ==
  /\ wire \in Seq(Packets) /\ deferred \in Seq(Packets \ {TimeRequest})
  /\ handled \in Seq(Nat) /\ syncsAnswered \in Nat
  /\ stage = "receive" => deferred = <<>>
  /\ stage # "raised" => latest = Len(handled)

\* While the window stays closed the reader has handled every media packet, so that
\* the next heartbeat, not further away than an interval, opens it.
Waiting ==
  /\ shut \in Nat /\ acked \in Nat
  /\ Handshaking => shut = 0
  /\ Streaming /\ shut > 0 =>
       /\ latest = sent /\ sent - acked = Window
       /\ shut + heartbeatLeft <= HeartbeatInterval

\* Rows of numbers may be grouped otherwise.
LEMMA Regroup ==
  /\ \A a, b \in Seq(Nat) : a \o b \in Seq(Nat)
  /\ \A a, b, c \in Seq(Nat) : (a \o b) \o c = a \o (b \o c)
<1>1. \A a, b \in Seq(Nat) : a \o b \in Seq(Nat)
  BY ConcatProperties
<1>2. \A a, b, c \in Seq(Nat) : (a \o b) \o c = a \o (b \o c)
  BY ConcatAssociative
<1> QED
  BY <1>1, <1>2

\* The last of the numbers handled, if they are 1, 2, ..., is how many they are.
LEMMA LastNumber ==
  ASSUME NEW h \in Seq(Nat), NEW m \in Seq(Nat), NEW r \in Seq(Nat), NEW n \in Nat,
         (h \o m) \o r = [i \in 1..n |-> i]
  PROVE  /\ Len(h \o m) = Len(h) + Len(m) /\ Len(h \o m) + Len(r) = n
         /\ m # <<>> => m[Len(m)] = Len(h \o m)
<1> DEFINE g == h \o m
           a == g \o r
<1>0. Len(h) \in Nat /\ Len(m) \in Nat /\ Len(r) \in Nat
  BY LenProperties
<1>1. /\ g \in Seq(Nat) /\ Len(g) = Len(h) + Len(m)
      /\ \A i \in 1..Len(h) + Len(m) : g[i] = IF i <= Len(h) THEN h[i] ELSE m[i - Len(h)]
  BY ConcatProperties
<1>2. /\ a \in Seq(Nat) /\ Len(a) = Len(g) + Len(r)
      /\ \A i \in 1..Len(g) + Len(r) : a[i] = IF i <= Len(g) THEN g[i] ELSE r[i - Len(g)]
  <2> HIDE DEF g
  <2> QED
    BY <1>1, ConcatProperties
<1>3. a = [i \in 1..n |-> i]
  OBVIOUS
<1> HIDE DEF g, a
<1>4. Len(a) = n
  BY <1>3
<1>5. ASSUME m # <<>> PROVE m[Len(m)] = Len(g)
  <2>1. Len(m) > 0
    BY <1>5, EmptySeq
  <2>2. Len(g) \in 1..n /\ ~(Len(g) <= Len(h)) /\ Len(g) - Len(h) = Len(m) /\ Len(g) <= Len(g)
    BY <1>0, <1>1, <1>2, <1>4, <2>1
  <2>3. a[Len(g)] = Len(g)
    BY <1>3, <2>2
  <2>4. a[Len(g)] = g[Len(g)]
    <3>1. Len(g) \in 1..Len(g) + Len(r)
      BY <1>0, <2>2
    <3> QED
      BY <1>2, <2>2, <3>1
  <2>5. g[Len(g)] = m[Len(m)]
    <3>1. Len(g) \in 1..Len(h) + Len(m)
      BY <1>1, <2>2
    <3> QED
      BY <1>1, <2>2, <3>1
  <2> QED
    BY <2>3, <2>4, <2>5
<1> QED
  BY <1>0, <1>1, <1>2, <1>4, <1>5 DEF g

\* The packets of the parts as the invariant names them.
Ordered == handled \o Numbers(deferred) \o Numbers(wire) = [n \in 1..sent |-> n]
Answered == syncsAnswered + SyncsIn(wire) = syncsSent

\* The handshake reads the first k packets: their media packets are deferred, after
\* those deferred before, and their time requests answered.
LEMMA DeferringKeepsOrder ==
  ASSUME Packed, Ordered, Answered, NEW K, K \intersect MediaPackets = {},
         NEW k \in 1..Len(wire), Take(k),
         deferred' = deferred \o Only(SubSeq(wire, 1, k), Packets \ (K \union {TimeRequest})),
         syncsAnswered' = syncsAnswered + SyncsIn(SubSeq(wire, 1, k)),
         UNCHANGED <<handled, sent, syncsSent>>
  PROVE  /\ wire' \in Seq(Packets) /\ deferred' \in Seq(Packets \ {TimeRequest})
         /\ syncsAnswered' \in Nat
         /\ Ordered' /\ Answered'
<1> DEFINE read == SubSeq(wire, 1, k)
           rest == SubSeq(wire, k + 1, Len(wire))
           put  == Only(read, Packets \ (K \union {TimeRequest}))
<1>0. wire \in Seq(Packets) /\ deferred \in Seq(Packets \ {TimeRequest}) /\ syncsAnswered \in Nat
      /\ handled \in Seq(Nat)
  BY DEF Packed
<1>1. /\ read \in Seq(Packets) /\ rest \in Seq(Packets)
      /\ Numbers(wire) = Numbers(read) \o Numbers(rest)
      /\ SyncsIn(wire) = SyncsIn(read) + SyncsIn(rest)
  BY <1>0, NumbersOfParts
<1>2. wire' = rest
  BY DEF Take
<1> HIDE DEF read, rest
<1>3. put \in Seq(Packets \ {TimeRequest}) /\ Numbers(put) = Numbers(read)
  BY <1>1, NumbersOfDeferred
<1> HIDE DEF put
<1>4. deferred' = deferred \o put
  BY DEF put, read
<1>5. deferred' \in Seq(Packets \ {TimeRequest})
  BY <1>0, <1>3, <1>4, ConcatProperties
<1>6. deferred \in Seq(Packets) /\ put \in Seq(Packets)
  <2>1. Packets \ {TimeRequest} \subseteq Packets
    OBVIOUS
  <2> QED
    BY <1>0, <1>3, <2>1, SeqMonotonic
<1>7. Numbers(deferred') = Numbers(deferred) \o Numbers(read)
  BY <1>3, <1>4, <1>6, NumbersOfTwo
<1>8. Numbers(deferred) \in Seq(Nat) /\ Numbers(read) \in Seq(Nat) /\ Numbers(rest) \in Seq(Nat)
  BY <1>1, <1>6, NumbersAre
<1>9. Ordered'
  <2> DEFINE h == handled
             d == Numbers(deferred)
             x == Numbers(read)
             y == Numbers(rest)
  <2>1. h \in Seq(Nat) /\ d \in Seq(Nat) /\ x \in Seq(Nat) /\ y \in Seq(Nat)
    BY <1>0, <1>8
  <2>2. /\ Ordered <=> (h \o d) \o (x \o y) = [n \in 1..sent |-> n]
        /\ Ordered' <=> (h \o (d \o x)) \o y = [n \in 1..sent |-> n]
    BY <1>1, <1>2, <1>7 DEF Ordered
  <2> HIDE DEF h, d, x, y
  <2>3. (h \o d) \o (x \o y) = (h \o (d \o x)) \o y
    <3>1. d \o x \in Seq(Nat) /\ x \o y \in Seq(Nat)
      BY <2>1, Regroup
    <3>2. (h \o d) \o (x \o y) = h \o (d \o (x \o y))
      BY <2>1, <3>1, Regroup, ZenonT(60)
    <3>3. (h \o (d \o x)) \o y = h \o ((d \o x) \o y)
      BY <2>1, <3>1, Regroup, ZenonT(60)
    <3>4. (d \o x) \o y = d \o (x \o y)
      BY <2>1, Regroup
    <3> QED
      BY <3>2, <3>3, <3>4
  <2> QED
    BY <2>2, <2>3
<1>10. SyncsIn(read) \in Nat /\ SyncsIn(rest) \in Nat
  BY <1>1, SyncsOfTwo
<1>11. syncsAnswered' \in Nat /\ Answered'
  <2>1. syncsAnswered' = syncsAnswered + SyncsIn(read)
    BY DEF read
  <2> QED
    BY <1>0, <1>1, <1>2, <1>10, <2>1 DEF Answered
<1> QED
  BY <1>1, <1>2, <1>5, <1>9, <1>11

\* frames() handles packets that come next, with nothing deferred before them.
LEMMA HandlingKeepsOrder ==
  ASSUME Packed, Ordered, Answered, sent \in Nat, latest = Len(handled),
         NEW packets \in Seq(Packets), NEW behind \in Seq(Packets), NEW left \in Seq(Packets),
         StreamHandles(packets), wire' = left,
         deferred' \in Seq(Packets \ {TimeRequest}),
         Numbers(deferred) \o Numbers(wire)
           = Numbers(packets) \o (Numbers(behind) \o Numbers(left)),
         Numbers(deferred') = Numbers(behind),
         SyncsIn(wire) = SyncsIn(packets) + SyncsIn(left),
         UNCHANGED <<sent, syncsSent>>
  PROVE  /\ handled' \in Seq(Nat) /\ syncsAnswered' \in Nat
         /\ Ordered' /\ Answered'
         /\ latest' = Len(handled')
         /\ latest = sent => latest' = sent
<1> DEFINE n == Numbers(packets)
           b == Numbers(behind)
           l == Numbers(left)
<1>1. /\ n \in Seq(Nat) /\ b \in Seq(Nat) /\ l \in Seq(Nat)
      /\ SyncsIn(packets) \in Nat /\ SyncsIn(left) \in Nat
  BY NumbersAre, SyncsOfTwo
<1>2. /\ handled' = handled \o n /\ latest' = (IF n = <<>> THEN latest ELSE n[Len(n)])
      /\ syncsAnswered' = syncsAnswered + SyncsIn(packets)
  BY DEF StreamHandles
<1>0. handled \in Seq(Nat) /\ syncsAnswered \in Nat
      /\ Numbers(deferred) \in Seq(Nat) /\ Numbers(wire) \in Seq(Nat)
  <2>1. Packets \ {TimeRequest} \subseteq Packets
    OBVIOUS
  <2>2. wire \in Seq(Packets) /\ deferred \in Seq(Packets)
    BY <2>1, SeqMonotonic DEF Packed
  <2> QED
    BY <2>2, NumbersAre DEF Packed
<1>3. handled \o Numbers(deferred) \o Numbers(wire) = handled \o (n \o (b \o l))
  <2>1. handled \o Numbers(deferred) \o Numbers(wire) = handled \o (Numbers(deferred) \o Numbers(wire))
    BY <1>0, Regroup
  <2> QED
    BY <2>1
<1>r. Numbers(deferred') = b /\ Numbers(wire') = l
  OBVIOUS
<1> HIDE DEF n, b, l
<1>4. (handled \o n) \o (b \o l) = [i \in 1..sent |-> i]
  <2>1. b \o l \in Seq(Nat)
    BY <1>1, Regroup
  <2>2. (handled \o n) \o (b \o l) = handled \o (n \o (b \o l))
    BY <1>0, <1>1, <2>1, Regroup, ZenonT(60)
  <2> QED
    BY <1>3, <2>2 DEF Ordered
<1>5. handled' \in Seq(Nat) /\ syncsAnswered' \in Nat
  <2>1. handled \o n \in Seq(Nat)
    BY <1>0, <1>1, Regroup
  <2>2. syncsAnswered' \in Nat
    BY <1>0, <1>1, <1>2, SMTT(60)
  <2> QED
    BY <1>2, <2>1, <2>2
<1>6. Ordered'
  <2>1. handled' \o b \o l = (handled \o n) \o (b \o l)
    BY <1>1, <1>2, <1>5, Regroup
  <2> QED
    BY <1>4, <1>r, <2>1 DEF Ordered
<1>7. Answered'
  BY <1>0, <1>1, <1>2 DEF Answered
<1>8. /\ Len(handled') = Len(handled) + Len(n)
      /\ Len(handled') + Len(b \o l) = sent
      /\ n # <<>> => n[Len(n)] = Len(handled')
      /\ Len(b \o l) \in Nat /\ Len(n) \in Nat /\ Len(handled) \in Nat
  <2>1. b \o l \in Seq(Nat)
    BY <1>1, ConcatProperties
  <2> DEFINE r == b \o l
  <2>2. r \in Seq(Nat) /\ (handled \o n) \o r = [i \in 1..sent |-> i]
    BY <1>4, <2>1
  <2> HIDE DEF r
  <2>3. /\ Len(handled \o n) = Len(handled) + Len(n)
        /\ Len(handled \o n) + Len(r) = sent
        /\ n # <<>> => n[Len(n)] = Len(handled \o n)
    BY <1>0, <1>1, <2>2, LastNumber, SMTT(60)
  <2>4. Len(r) \in Nat /\ Len(n) \in Nat /\ Len(handled) \in Nat
    BY <1>0, <1>1, <2>2, LenProperties
  <2> QED
    BY <1>2, <2>3, <2>4 DEF r
<1>9. n = <<>> => Len(n) = 0
  BY EmptySeq
<1>10. latest' = Len(handled')
  BY <1>2, <1>8, <1>9
<1>11. latest = sent => latest' = sent
  BY <1>8, <1>10
<1> QED
  BY <1>5, <1>6, <1>7, <1>10, <1>11

\* The camera sends a packet: a media packet that has the next number, a time request
\* that is counted, or another one.
LEMMA SendingKeepsOrder ==
  ASSUME Packed, Ordered, Answered, sent \in Nat, syncsSent \in Nat,
         NEW p \in Packets, wire' = Append(wire, p),
         UNCHANGED <<handled, deferred, syncsAnswered>>,
         sent' = (IF p \in MediaPackets THEN sent + 1 ELSE sent),
         p \in MediaPackets => p.n = sent + 1,
         syncsSent' = (IF p = TimeRequest THEN syncsSent + 1 ELSE syncsSent)
  PROVE  wire' \in Seq(Packets) /\ Ordered' /\ Answered'
<1>0. /\ wire \in Seq(Packets) /\ handled \in Seq(Nat) /\ syncsAnswered \in Nat
      /\ Numbers(deferred) \in Seq(Nat) /\ Numbers(wire) \in Seq(Nat)
  <2>1. Packets \ {TimeRequest} \subseteq Packets
    OBVIOUS
  <2>2. wire \in Seq(Packets) /\ deferred \in Seq(Packets)
    BY <2>1, SeqMonotonic DEF Packed
  <2> QED
    BY <2>2, NumbersAre DEF Packed
<1>1. wire' = wire \o <<p>> /\ <<p>> \in Seq(Packets) /\ wire' \in Seq(Packets)
  BY <1>0, AppendIsConcat, AppendProperties
<1>2. /\ Numbers(wire') = Numbers(wire) \o Numbers(<<p>>)
      /\ SyncsIn(wire') = SyncsIn(wire) + SyncsIn(<<p>>) /\ SyncsIn(wire) \in Nat
  BY <1>0, <1>1, NumbersOfTwo, SyncsOfTwo
<1>3. Answered'
  <2>1. SyncsIn(<<p>>) = IF p = TimeRequest THEN 1 ELSE 0
    BY NumbersOfOne
  <2> QED
    BY <1>0, <1>2, <2>1 DEF Answered
<1>4. Ordered'
  <2> DEFINE front == handled \o Numbers(deferred)
             all == front \o Numbers(wire)
  <2>1. front \in Seq(Nat) /\ all = [i \in 1..sent |-> i]
    BY <1>0, ConcatProperties DEF Ordered
  <2>2. front' = front
    OBVIOUS
  <2> HIDE DEF front
  <2>3. CASE p \in MediaPackets
    <3>1. Numbers(<<p>>) = <<sent + 1>> /\ sent' = sent + 1
      BY <2>3, NumbersOfOne
    <3>2. <<sent + 1>> \in Seq(Nat)
      OBVIOUS
    <3>3. front \o (Numbers(wire) \o <<sent + 1>>) = all \o <<sent + 1>>
      BY <1>0, <2>1, <3>2, Regroup, ZenonT(60)
    <3>4. [i \in 1..sent |-> i] \o <<sent + 1>> = [i \in 1..(sent + 1) |-> i]
      OBVIOUS
    <3>5. front' \o Numbers(wire') = [i \in 1..sent' |-> i]
      BY <1>2, <2>1, <2>2, <3>1, <3>3, <3>4
    <3> QED
      BY <3>5 DEF Ordered, front
  <2>4. CASE p \notin MediaPackets
    <3>1. Numbers(<<p>>) = <<>> /\ sent' = sent
      BY <2>4, NumbersOfOne
    <3>2. Numbers(wire') = Numbers(wire)
      BY <1>0, <1>2, <3>1, ConcatEmptySeq
    <3> QED
      BY <2>1, <3>1, <3>2 DEF Ordered, front
  <2> QED
    BY <2>3, <2>4
<1> QED
  BY <1>1, <1>3, <1>4
\* The parts hold together, and are kept by whoever leaves the packets alone.
PacketsInv == Packed /\ MediaInOrder /\ TimeRequestsAnswered

packetVars == <<wire, deferred, handled, syncsAnswered, sent, syncsSent, latest>>

\* Whoever leaves them alone keeps them, if nothing is deferred where nothing may be.
LEMMA IdleKeepsPackets ==
  ASSUME PacketsInv, UNCHANGED packetVars,
         stage = "raised" => stage' = "raised",
         stage' = "receive" => deferred = <<>>
  PROVE  PacketsInv'
BY DEF PacketsInv, Packed, MediaInOrder, TimeRequestsAnswered, packetVars

\* The latest media packet stays the last one sent when no other is sent.
StaysLatest ==
  stage # "raised" /\ stage' # "raised" /\ sent' = sent /\ latest = sent => latest' = sent'

\* The first connection, and each later one, starts with no packets.
LEMMA NoPackets ==
  ASSUME wire' = <<>>, deferred' = <<>>, handled' = <<>>, syncsAnswered' = 0, sent' = 0,
         syncsSent' = 0, latest' = 0, stage' = "auth"
  PROVE  PacketsInv'
<1>1. Numbers(<<>>) = <<>> /\ SyncsIn(<<>>) = 0 /\ Len(<<>>) = 0
  BY NumbersOfNone
<1>2. <<>> \o <<>> \o <<>> = [n \in 1..0 |-> n]
  OBVIOUS
<1>3. MediaInOrder' /\ TimeRequestsAnswered'
  BY <1>1, <1>2 DEF MediaInOrder, TimeRequestsAnswered
<1>4. Packed'
  BY <1>1 DEF Packed
<1> QED
  BY <1>3, <1>4 DEF PacketsInv

\* The two loops of the handshake.
LEMMA HandshakeKeepsPackets ==
  ASSUME PacketsInv, WaitResponse \/ AnswerTimeSyncs
  PROVE  PacketsInv'
<1>1. /\ stage \in Commands \union {"times"} /\ stage # "raised"
      /\ UNCHANGED <<handled, sent, syncsSent, latest>>
  BY DEF WaitResponse, AnswerTimeSyncs, Commands
<1>2. Ordered /\ Answered /\ Packed
  BY <1>1 DEF PacketsInv, MediaInOrder, TimeRequestsAnswered, Ordered, Answered
<1>3. /\ wire' \in Seq(Packets) /\ deferred' \in Seq(Packets \ {TimeRequest})
      /\ syncsAnswered' \in Nat /\ Ordered' /\ Answered'
  <2>1. CASE WaitResponse
    <3>1. PICK k \in 1..Len(wire) : Take(k) /\ WaitHandles(SubSeq(wire, 1, k))
      BY <2>1 DEF WaitResponse
    <3>2. Own \intersect MediaPackets = {}
      BY Kinds
    <3> QED
      BY <1>1, <1>2, <3>1, <3>2, DeferringKeepsOrder DEF WaitHandles
  <2>2. CASE AnswerTimeSyncs
    <3>1. PICK k \in 1..Len(wire) : Take(k) /\ SyncHandles(SubSeq(wire, 1, k))
      BY <2>2 DEF AnswerTimeSyncs
    <3>2. {} \union {TimeRequest} = {TimeRequest} /\ {} \intersect MediaPackets = {}
      OBVIOUS
    <3> QED
      BY <1>1, <1>2, <3>1, <3>2, DeferringKeepsOrder DEF SyncHandles
  <2> QED
    BY <2>1, <2>2
<1>4. stage' # "receive"
  <2>1. CASE WaitResponse
    <3>1. Proceed \/ Stay \/ Raise("refused")
      BY <2>1 DEF WaitResponse, WaitHandles, EndWait
    <3>2. stage \in Commands
      BY <2>1 DEF WaitResponse
    <3> QED
      BY <3>1, <3>2 DEF Proceed, Stay, Raise, After, Commands
  <2>2. CASE AnswerTimeSyncs
    BY <2>2 DEF AnswerTimeSyncs, SyncHandles
  <2> QED
    BY <2>1, <2>2
<1>5. Packed'
  <2>1. latest' = Len(handled') /\ handled' \in Seq(Nat)
    BY <1>1, <1>2 DEF Packed
  <2> QED
    BY <1>3, <1>4, <2>1 DEF Packed
<1>6. MediaInOrder' /\ TimeRequestsAnswered'
  BY <1>3 DEF MediaInOrder, TimeRequestsAnswered, Ordered, Answered
<1> QED
  BY <1>5, <1>6 DEF PacketsInv

\* frames() takes what was deferred, or what has arrived.
LEMMA StreamKeepsPackets ==
  ASSUME PacketsInv, TypeOK, HandleDeferred \/ HandleReceived
  PROVE  PacketsInv' /\ StaysLatest
<1>1. /\ stage \in {"stream", "receive"} /\ stage' \in {"stream", "raised"}
      /\ UNCHANGED <<sent, syncsSent>>
  BY DEF HandleDeferred, HandleReceived, StreamHandles, Check, cameraVars
<1>2. /\ Ordered /\ Answered /\ Packed /\ latest = Len(handled)
      /\ sent \in Nat
  <2>1. MaxMedia \in Nat /\ sent \in 0..MaxMedia
    BY LimitsAssumption DEF TypeOK
  <2> QED
    BY <1>1, <2>1 DEF PacketsInv, MediaInOrder, TimeRequestsAnswered, Ordered, Answered, Packed
<1>3. wire \in Seq(Packets) /\ deferred \in Seq(Packets \ {TimeRequest}) /\ deferred \in Seq(Packets)
  <2>1. Packets \ {TimeRequest} \subseteq Packets
    OBVIOUS
  <2> QED
    BY <1>2, <2>1, SeqMonotonic DEF Packed
<1>4. /\ wire' \in Seq(Packets) /\ deferred' \in Seq(Packets \ {TimeRequest})
      /\ handled' \in Seq(Nat) /\ syncsAnswered' \in Nat
      /\ Ordered' /\ Answered' /\ latest' = Len(handled') /\ (latest = sent => latest' = sent)
  <2>1. CASE HandleDeferred
    <3> DEFINE p == Head(deferred)
               rest == Tail(deferred)
    <3>1. /\ deferred # <<>> /\ deferred' = rest /\ wire' = wire /\ StreamHandles(<<p>>)
      BY <2>1 DEF HandleDeferred
    <3>2. /\ p \in Packets \ {TimeRequest} /\ rest \in Seq(Packets \ {TimeRequest})
      BY <1>3, <3>1, HeadTailProperties
    <3>3. p \in Packets /\ rest \in Seq(Packets) /\ deferred = <<p>> \o rest
      BY <1>3, <3>1
    <3> HIDE DEF p, rest
    <3>4. <<p>> \in Seq(Packets)
      BY <3>3
    <3>5. Numbers(deferred) = Numbers(<<p>>) \o Numbers(rest)
      BY <3>3, <3>4, NumbersOfTwo
    <3>6. /\ Numbers(<<p>>) \in Seq(Nat) /\ Numbers(rest) \in Seq(Nat) /\ Numbers(wire) \in Seq(Nat)
      BY <1>3, <3>3, <3>4, NumbersAre
    <3>7. Numbers(deferred) \o Numbers(wire) = Numbers(<<p>>) \o (Numbers(rest) \o Numbers(wire))
      BY <3>5, <3>6, Regroup
    <3>8. SyncsIn(wire) = SyncsIn(<<p>>) + SyncsIn(wire)
      <4>1. SyncsIn(<<p>>) = 0
        BY <3>2, NumbersOfOne
      <4>2. SyncsIn(wire) \in Nat
        BY <1>3, SyncsOfTwo
      <4> QED
        BY <4>1, <4>2
    <3> QED
      BY <1>1, <1>2, <1>3, <3>1, <3>2, <3>3, <3>4, <3>7, <3>8, HandlingKeepsOrder
  <2>2. CASE HandleReceived
    <3>0. deferred = <<>> /\ deferred' = deferred
      BY <1>2, <2>2 DEF HandleReceived, Packed
    <3>1. PICK k \in 1..Len(wire) : Take(k) /\ StreamHandles(SubSeq(wire, 1, k))
      BY <2>2 DEF HandleReceived
    <3> DEFINE read == SubSeq(wire, 1, k)
               rest == SubSeq(wire, k + 1, Len(wire))
    <3>2. wire' = rest /\ StreamHandles(read)
      BY <3>1 DEF Take
    <3>3. /\ read \in Seq(Packets) /\ rest \in Seq(Packets)
          /\ Numbers(wire) = Numbers(read) \o Numbers(rest)
          /\ SyncsIn(wire) = SyncsIn(read) + SyncsIn(rest)
      BY <1>3, NumbersOfParts
    <3> HIDE DEF read, rest
    <3>4. Numbers(read) \in Seq(Nat) /\ Numbers(rest) \in Seq(Nat) /\ Numbers(deferred) = <<>>
      BY <3>0, <3>3, NumbersAre, NumbersOfNone
    <3>5. /\ Numbers(deferred) \o Numbers(wire) = Numbers(read) \o (Numbers(deferred) \o Numbers(rest))
      BY <3>3, <3>4
    <3>6. Numbers(deferred') = Numbers(deferred)
      BY <3>0
    <3> QED
      BY <1>1, <1>2, <1>3, <3>0, <3>2, <3>3, <3>5, <3>6, HandlingKeepsOrder
  <2> QED
    BY <2>1, <2>2
<1>5. PacketsInv'
  BY <1>1, <1>4 DEF PacketsInv, Packed, MediaInOrder, TimeRequestsAnswered, Ordered, Answered
<1> QED
  BY <1>1, <1>4, <1>5 DEF StaysLatest

\* What the camera does puts packets at the end of the wire.
LEMMA CameraKeepsPackets ==
  ASSUME PacketsInv, TypeOK, Camera
  PROVE  PacketsInv' /\ StaysLatest
<1>1. CASE CameraCloses
  <2>1. UNCHANGED packetVars /\ stage' = stage
    BY <1>1 DEF CameraCloses, cameraVars, packetVars
  <2>2. PacketsInv'
    <3>1. stage = "receive" => deferred = <<>>
      BY DEF PacketsInv, Packed
    <3> QED
      BY <2>1, <3>1, IdleKeepsPackets
  <2> QED
    BY <2>1, <2>2 DEF StaysLatest, packetVars
<1>2. CASE ~CameraCloses
  <2>0. sent \in Nat /\ syncsSent \in Nat /\ sent \in 0..MaxMedia /\ MaxMedia \in Nat
        /\ asked \in Commands \union {"none"}
    BY LimitsAssumption DEF TypeOK
  <2>1. PICK p \in Packets :
          /\ CameraSends(p)
          /\ sent' = (IF p \in MediaPackets THEN sent + 1 ELSE sent)
          /\ p \in MediaPackets => p.n = sent + 1
          /\ syncsSent' = (IF p = TimeRequest THEN syncsSent + 1 ELSE syncsSent)
    <3>1. CASE CameraAnswers
      <4>1. PICK ok \in BOOLEAN : CameraSends(Answer(asked, ok))
        BY <3>1 DEF CameraAnswers
      <4>2. Answer(asked, ok) \in Packets \ (MediaPackets \union {TimeRequest})
        BY <2>0, <3>1, Kinds DEF CameraAnswers
      <4>3. sent' = sent /\ syncsSent' = syncsSent
        BY <3>1 DEF CameraAnswers
      <4> QED
        BY <4>1, <4>2, <4>3
    <3>2. CASE CameraAnswersHeartbeat
      <4>1. HeartbeatAnswer \in Packets \ (MediaPackets \union {TimeRequest})
        BY Kinds
      <4>2. CameraSends(HeartbeatAnswer) /\ sent' = sent /\ syncsSent' = syncsSent
        BY <3>2 DEF CameraAnswersHeartbeat
      <4> QED
        BY <4>1, <4>2
    <3>3. CASE CameraAsksTime
      <4>1. TimeRequest \in Packets \ MediaPackets
        BY Kinds
      <4>2. CameraSends(TimeRequest) /\ sent' = sent /\ syncsSent' = syncsSent + 1
        BY <3>3 DEF CameraAsksTime
      <4> QED
        BY <4>1, <4>2
    <3>4. CASE CameraSendsMedia
      <4>1. PICK whole \in BOOLEAN : CameraSends(Media(sent + 1, whole))
        BY <3>4 DEF CameraSendsMedia
      <4>2. sent + 1 \in 1..MaxMedia
        BY <2>0, <3>4 DEF CameraSendsMedia
      <4>3. /\ Media(sent + 1, whole) \in MediaPackets /\ Media(sent + 1, whole).n = sent + 1
            /\ Media(sent + 1, whole) # TimeRequest /\ Media(sent + 1, whole) \in Packets
        BY <4>2, Kinds
      <4>4. sent' = sent + 1 /\ syncsSent' = syncsSent
        BY <3>4 DEF CameraSendsMedia
      <4> QED
        BY <4>1, <4>3, <4>4
    <3> QED
      BY <1>2, <3>1, <3>2, <3>3, <3>4 DEF Camera
  <2>2. /\ stage # "raised" /\ stage' = stage /\ wire' = Append(wire, p)
        /\ UNCHANGED <<handled, deferred, syncsAnswered, latest>>
    BY <2>1 DEF CameraSends
  <2>3. Packed /\ Ordered /\ Answered
    BY <2>2 DEF PacketsInv, MediaInOrder, TimeRequestsAnswered, Ordered, Answered
  <2>4. wire' \in Seq(Packets) /\ Ordered' /\ Answered'
    BY <2>0, <2>1, <2>2, <2>3, SendingKeepsOrder
  <2>5. Packed'
    BY <2>2, <2>3, <2>4 DEF Packed
  <2>6. PacketsInv'
    BY <2>4, <2>5 DEF PacketsInv, MediaInOrder, TimeRequestsAnswered, Ordered, Answered
  <2> QED
    BY <2>2, <2>6 DEF StaysLatest
<1> QED
  BY <1>1, <1>2

\* Every step keeps the packets in order.
LEMMA PacketsKept ==
  ASSUME PacketsInv, TypeOK, [Next]_vars
  PROVE  PacketsInv' /\ StaysLatest
<1>0. stage = "receive" => deferred = <<>>
  BY DEF PacketsInv, Packed
<1>1. CASE Connect
  BY <1>1, NoPackets DEF Connect, StaysLatest
<1>2. CASE WaitResponse \/ AnswerTimeSyncs
  BY <1>2, HandshakeKeepsPackets DEF WaitResponse, AnswerTimeSyncs, StaysLatest
<1>3. CASE HandleDeferred \/ HandleReceived
  BY <1>3, StreamKeepsPackets
<1>4. CASE Camera
  BY <1>4, CameraKeepsPackets
<1>5. CASE \/ WaitTimesOut \/ TimeSyncsMissing \/ Heartbeat \/ BeginReceive \/ NothingReceived
           \/ ConnectionLost \/ Tick \/ UNCHANGED vars
  <2>1. UNCHANGED packetVars
    BY <1>5 DEF WaitTimesOut, TimeSyncsMissing, Heartbeat, BeginReceive, NothingReceived,
         ConnectionLost, Tick, vars, packetVars, cameraVars
  <2>2. stage = "raised" => stage' = "raised"
    BY <1>5 DEF WaitTimesOut, TimeSyncsMissing, Heartbeat, BeginReceive, NothingReceived,
         ConnectionLost, Tick, vars, Raise, Commands
  <2>3. stage' = "receive" => deferred = <<>>
    BY <1>0, <1>5 DEF WaitTimesOut, TimeSyncsMissing, Heartbeat, BeginReceive,
         NothingReceived, ConnectionLost, Tick, vars, Raise, Proceed, After, Check, Commands
  <2>4. PacketsInv'
    BY <2>1, <2>2, <2>3, IdleKeepsPackets
  <2> QED
    BY <2>1, <2>4 DEF StaysLatest, packetVars
<1> QED
  BY <1>1, <1>2, <1>3, <1>4, <1>5 DEF Next, Reader
-----------------------------------------------------------------------------
(* The window.                                                             *)

\* When all has been handled the latest number is that of the last packet sent.
LEMMA AllHandled ==
  ASSUME PacketsInv, stage # "raised", wire = <<>>, deferred = <<>>, sent \in Nat
  PROVE  latest = sent
<1>1. handled \in Seq(Nat) /\ latest = Len(handled)
  BY DEF PacketsInv, Packed
<1>2. Numbers(wire) = <<>> /\ Numbers(deferred) = <<>>
  BY NumbersOfNone
<1>3. handled \o <<>> \o <<>> = handled
  BY <1>1, ConcatEmptySeq
<1>4. handled = [n \in 1..sent |-> n]
  BY <1>2, <1>3 DEF PacketsInv, MediaInOrder
<1> QED
  BY <1>1, <1>4

WindowInv == Waiting /\ WindowReopens

\* Every step keeps the camera's wait within an interval.
LEMMA WindowKept ==
  ASSUME IInv, TypeOK, PacketsInv, StaysLatest, WindowInv, [Next]_vars
  PROVE  WindowInv'
<1>0. /\ HeartbeatInterval \in Nat /\ HeartbeatInterval > 0 /\ Window \in Nat /\ Window > 0
      /\ sent \in Nat /\ heartbeatLeft \in 0..HeartbeatInterval
  <2>1. Window \in Nat \ {0} /\ MaxMedia \in Nat
    BY LimitsAssumption
  <2> QED
    BY <2>1, Times DEF TypeOK, TimersOK
<1>1. shut \in Nat /\ shut <= HeartbeatInterval /\ acked \in Nat
  BY DEF WindowInv, Waiting, WindowReopens
<1>2. CASE Connect
  <2>1. shut' = 0 /\ acked' = 0
    BY <1>2 DEF Connect
  <2> QED
    BY <1>0, <2>1 DEF WindowInv, Waiting, WindowReopens
<1>3. CASE \/ WaitResponse \/ WaitTimesOut \/ AnswerTimeSyncs \/ TimeSyncsMissing
  <2>1. Handshaking /\ shut = 0
    BY <1>3 DEF WaitResponse, WaitTimesOut, AnswerTimeSyncs, TimeSyncsMissing, Handshaking,
         WindowInv, Waiting
  <2>2. shut' = shut /\ acked' = acked
    BY <1>3 DEF WaitResponse, WaitTimesOut, AnswerTimeSyncs, TimeSyncsMissing, WaitHandles,
         EndWait, SyncHandles, Proceed, Raise, Stay, pastVars
  <2> QED
    BY <1>0, <1>1, <2>1, <2>2 DEF WindowInv, Waiting, WindowReopens
<1>4. CASE ConnectionLost
  <2>1. shut' = shut /\ acked' = acked /\ stage' = "raised"
    BY <1>4 DEF ConnectionLost, Raise, pastVars
  <2> QED
    BY <1>1, <2>1 DEF WindowInv, Waiting, WindowReopens, Handshaking, Streaming, Commands
<1>5. CASE Heartbeat
  <2>1. stage = "stream" /\ stage' = stage /\ acked' = latest
        /\ shut' = IF sent - latest < Window THEN 0 ELSE shut
    BY <1>5 DEF Heartbeat
  <2>2. latest \in Nat
    BY <2>1, LenProperties DEF PacketsInv, Packed
  <2>3. shut' = 0
    <3>1. shut > 0 => latest = sent
      BY <2>1 DEF WindowInv, Waiting, Streaming
    <3> QED
      BY <1>0, <1>1, <2>1, <3>1
  <2> QED
    BY <1>0, <2>1, <2>2, <2>3 DEF WindowInv, Waiting, WindowReopens
<1>6. CASE BeginReceive \/ HandleDeferred \/ HandleReceived \/ NothingReceived
  <2>1. /\ Streaming /\ ~Handshaking' /\ stage # "raised"
        /\ UNCHANGED <<shut, acked, sent, heartbeatLeft>>
    BY <1>6 DEF BeginReceive, HandleDeferred, HandleReceived, NothingReceived, StreamHandles,
         Check, Streaming, Handshaking, Commands, cameraVars, timerVars, pastVars
  <2>2. Streaming' /\ shut' > 0 => latest' = sent'
    BY <2>1 DEF WindowInv, Waiting, StaysLatest, Streaming
  <2>3. Waiting'
    BY <2>1, <2>2 DEF WindowInv, Waiting
  <2>4. WindowReopens'
    BY <1>1, <2>1 DEF WindowReopens
  <2> QED
    BY <2>3, <2>4 DEF WindowInv
<1>7. CASE Camera
  <2>1. stage # "raised" /\ UNCHANGED <<stage, shut, acked, heartbeatLeft>>
    BY <1>7 DEF Camera, CameraAnswers, CameraAnswersHeartbeat, CameraAsksTime,
         CameraSendsMedia, CameraCloses, CameraSends, timerVars, pastVars
  <2>2. sent' = sent \/ sent - acked < Window
    BY <1>7 DEF Camera, CameraAnswers, CameraAnswersHeartbeat, CameraAsksTime,
         CameraSendsMedia, CameraCloses, cameraVars
  <2>3. Streaming' /\ shut' > 0 => sent' = sent /\ latest' = sent'
    BY <1>0, <1>1, <2>1, <2>2 DEF WindowInv, Waiting, StaysLatest, Streaming
  <2>4. Waiting'
    BY <2>1, <2>3 DEF WindowInv, Waiting, Streaming, Handshaking
  <2>5. WindowReopens'
    BY <1>1, <2>1 DEF WindowReopens
  <2> QED
    BY <2>4, <2>5 DEF WindowInv
<1>8. CASE Tick
  <2>1. /\ stage' = stage /\ wire = <<>> /\ UNCHANGED <<sent, acked, latest>>
        /\ stage \in Commands \union {"times", "receive"}
        /\ heartbeatLeft' = Less(heartbeatLeft)
    BY <1>8 DEF Tick, cameraVars
  <2>2. CASE stage = "receive"
    <3>1. deferred = <<>> /\ heartbeatLeft > 0
          /\ shut' = IF sent - acked = Window THEN shut + 1 ELSE 0
      BY <1>8, <2>2 DEF Tick, Commands, PacketsInv, Packed
    <3>2. latest = sent
      BY <1>0, <2>1, <2>2, <3>1, AllHandled
    <3>3. heartbeatLeft' = heartbeatLeft - 1
      BY <1>0, <2>1, <3>1 DEF Less
    <3>4. shut > 0 => shut + heartbeatLeft <= HeartbeatInterval
      BY <2>2 DEF WindowInv, Waiting, Streaming
    <3>5. shut' \in Nat /\ (shut' > 0 => sent - acked = Window)
          /\ (shut' > 0 => shut' + heartbeatLeft' <= HeartbeatInterval)
      BY <1>0, <1>1, <3>1, <3>3, <3>4
    <3>6. shut' <= HeartbeatInterval
      BY <1>0, <3>1, <3>3, <3>5
    <3> QED
      BY <1>1, <2>1, <2>2, <3>2, <3>5, <3>6
         DEF WindowInv, Waiting, WindowReopens, Streaming, Handshaking, Commands
  <2>3. CASE stage # "receive"
    <3>1. Handshaking /\ Handshaking' /\ shut' = shut /\ shut = 0
      BY <1>8, <2>1, <2>3 DEF Tick, Handshaking, pastVars, WindowInv, Waiting
    <3> QED
      BY <1>1, <2>1, <3>1 DEF WindowInv, Waiting, WindowReopens
  <2> QED
    BY <2>2, <2>3
<1>9. CASE UNCHANGED vars
  BY <1>9 DEF vars, WindowInv, Waiting, WindowReopens, Handshaking, Streaming, timerVars,
       cameraVars, pastVars
<1> QED
  BY <1>2, <1>3, <1>4, <1>5, <1>6, <1>7, <1>8, <1>9 DEF Next, Reader

\* The invariant of packets, deadlines and window is one of the system.
PInv == IInv /\ TypeOK /\ PacketsInv /\ WindowInv

\* It holds at first, and every step keeps it.
LEMMA AlwaysPacked == Spec => []PInv
<1>1. ASSUME Init PROVE PacketsInv /\ WindowInv
  <2>1. PacketsInv
    <3>1. Numbers(<<>>) = <<>> /\ SyncsIn(<<>>) = 0 /\ Len(<<>>) = 0
      BY NumbersOfNone
    <3>2. <<>> \o <<>> \o <<>> = [n \in 1..0 |-> n]
      OBVIOUS
    <3>3. MediaInOrder /\ TimeRequestsAnswered
      BY <1>1, <3>1, <3>2 DEF Init, MediaInOrder, TimeRequestsAnswered
    <3>4. Packed
      BY <1>1, <3>1 DEF Init, Packed
    <3> QED
      BY <3>3, <3>4 DEF PacketsInv
  <2>2. WindowInv
    BY <1>1, Times DEF Init, WindowInv, Waiting, WindowReopens
  <2> QED
    BY <2>1, <2>2
<1>2. ASSUME PacketsInv /\ WindowInv, IInv, TypeOK, [Next]_vars PROVE (PacketsInv /\ WindowInv)'
  BY <1>2, PacketsKept, WindowKept
<1> QED
  BY <1>1, <1>2, AlwaysHolds, TypeCorrect, PTL DEF Spec, PInv

\* No media packet is lost, doubled or put out of order between the handshake and
\* the stream.
THEOREM MediaStaysInOrder == Spec => []MediaInOrder
<1>1. PInv => MediaInOrder
  BY DEF PInv, PacketsInv
<1> QED
  BY <1>1, AlwaysPacked, PTL

\* Every time request that has been read is answered.
THEOREM RequestsAreAnswered == Spec => []TimeRequestsAnswered
<1>1. PInv => TimeRequestsAnswered
  BY DEF PInv, PacketsInv
<1> QED
  BY <1>1, AlwaysPacked, PTL

\* The camera's window is opened again within one heartbeat.
THEOREM WindowIsReopened == Spec => []WindowReopens
<1>1. PInv => WindowReopens
  BY DEF PInv, WindowInv
<1> QED
  BY <1>1, AlwaysPacked, PTL
=============================================================================
