---------------------------- MODULE PacketStream ----------------------------
(***************************************************************************)
(* The packets of one camera as the reader thread handles them (camera.py):*)
(* the handshake of connect() and start_audio(), which defers every packet *)
(* that is not its own, and the loop of frames() with its heartbeat and    *)
(* its two watchdogs.  CameraLink has the threads and leaves these out.    *)
(*                                                                         *)
(* A deadline is kept as the ticks that remain until it.  Time passes      *)
(* while the reader is blocked in recv: a packet that has arrived is       *)
(* handled within its tick.                                                *)
(***************************************************************************)
EXTENDS Selection

CONSTANTS
  ConnectTimeout,    \* connect_timeout
  SyncWait,          \* the 2 s of _answer_initial_time_syncs
  FrameTimeout,      \* frame_timeout
  HeartbeatInterval, \* HEARTBEAT_INTERVAL_SECONDS
  Window,            \* media packets the camera sends without acknowledgement
  MaxMedia,          \* bound on the media packets of a connection
  MaxSyncs,          \* bound on the time requests of a connection
  MaxConnections     \* bound on the connections

ASSUME TimesAssumption ==
  /\ {ConnectTimeout, SyncWait, FrameTimeout, HeartbeatInterval} \subseteq Nat \ {0}
  /\ HeartbeatInterval < FrameTimeout
ASSUME LimitsAssumption ==
  {Window, MaxMedia, MaxSyncs, MaxConnections} \subseteq Nat \ {0}

\* The commands answered one by one, in the order of connect() and start_audio().
Commands == {"auth", "sync", "video", "audio"}
After == [auth |-> "sync", sync |-> "times", times |-> "video",
          video |-> "audio", audio |-> "stream"]

VARIABLES
  stage,         \* the answer waited for, "times", "stream" (top of the loop of
                 \* frames()), "receive" (in its _receive), "raised"
  cause,         \* why it raised
  conn,          \* connections so far
  wire,          \* packets on their way to the reader, in order
  closed,        \* the camera has closed the connection
  asked,         \* the command the camera has still to answer
  owed,          \* heartbeats the camera has still to answer
  deferred,      \* CameraClient._pending
  replies,       \* replies of _answer_initial_time_syncs
  timeLeft,      \* until the deadline of the current wait of the handshake
  heartbeatLeft, \* until next_heartbeat
  activityLeft,  \* until activity_deadline
  frameLeft,     \* until frame_deadline
  latest,        \* latest_av_sequence, 0 for None
  sent, acked,   \* media packets sent by the camera, and acknowledged to it
  syncsSent,     \* time requests sent by the camera
  syncsAnswered, \* history: those answered
  handled,       \* history: the media packets frames() has handled
  quiet,         \* history: ticks since frames() last got a packet ...
  frozen,        \* ... since it last got a complete frame
  shut           \* ... and that the camera has waited with its window closed

linkVars  == <<conn, closed>>
cameraVars == <<asked, owed, sent, syncsSent>>
timerVars == <<timeLeft, heartbeatLeft, activityLeft, frameLeft>>
pastVars  == <<quiet, frozen, shut>>
vars == <<stage, cause, linkVars, wire, cameraVars, acked, deferred, replies, timerVars,
          latest, syncsAnswered, handled, pastVars>>

Answer(of, ok)  == [kind |-> "answer", of |-> of, ok |-> ok]
Media(n, whole) == [kind |-> "media", n |-> n, whole |-> whole]
TimeRequest     == [kind |-> "sync"]
HeartbeatAnswer == [kind |-> "beat"]

MediaPackets == {Media(n, whole) : n \in 1..MaxMedia, whole \in BOOLEAN}
Packets ==
  {Answer(of, ok) : of \in Commands, ok \in BOOLEAN} \union MediaPackets
    \union {TimeRequest, HeartbeatAnswer}

Holds(packets, p) == \E j \in 1..Len(packets) : packets[j] = p
Numbers(packets) ==
  LET media == Only(packets, MediaPackets) IN [j \in 1..Len(media) |-> media[j].n]
SyncsIn(packets) == Len(Only(packets, {TimeRequest}))

Streaming == stage \in {"stream", "receive"}

\* Where the reader is, and the time it has left.
TimersOK ==
  /\ stage \in Commands \union {"times", "stream", "receive", "raised"}
  /\ cause \in {"none", "timeout", "refused", "lost", "noActivity", "noFrame"}
  /\ (stage = "raised") <=> (cause # "none")
  /\ heartbeatLeft \in 0..HeartbeatInterval
  /\ activityLeft \in 0..FrameTimeout /\ frameLeft \in 0..FrameTimeout
  /\ quiet \in Nat /\ frozen \in Nat

\* Type invariant; which packets are where is the subject of MediaInOrder.
TypeOK ==
  /\ TimersOK
  /\ timeLeft \in Nat /\ shut \in Nat
  /\ conn \in 1..MaxConnections /\ closed \in BOOLEAN
  /\ asked \in Commands \union {"none"} /\ owed \in Nat
  /\ sent \in 0..MaxMedia /\ syncsSent \in 0..MaxSyncs

Init ==
  /\ stage = "auth" /\ cause = "none" /\ conn = 1 /\ closed = FALSE
  /\ wire = <<>> /\ deferred = <<>>
  /\ asked = "auth" /\ owed = 0 /\ sent = 0 /\ acked = 0
  /\ syncsSent = 0 /\ syncsAnswered = 0
  /\ replies = 0 /\ timeLeft = ConnectTimeout
  /\ heartbeatLeft = 0 /\ activityLeft = 0 /\ frameLeft = 0
  /\ latest = 0 /\ handled = <<>>
  /\ quiet = 0 /\ frozen = 0 /\ shut = 0

\* connect() after a failure: close() and connect() forget the buffer and what was
\* deferred, and the first request is written.
Connect ==
  /\ stage = "raised" /\ conn < MaxConnections
  /\ conn' = conn + 1
  /\ stage' = "auth" /\ cause' = "none" /\ closed' = FALSE
  /\ wire' = <<>> /\ deferred' = <<>>
  /\ asked' = "auth" /\ owed' = 0 /\ sent' = 0 /\ acked' = 0
  /\ syncsSent' = 0 /\ syncsAnswered' = 0
  /\ replies' = 0 /\ timeLeft' = ConnectTimeout
  /\ heartbeatLeft' = 0 /\ activityLeft' = 0 /\ frameLeft' = 0
  /\ latest' = 0 /\ handled' = <<>>
  /\ quiet' = 0 /\ frozen' = 0 /\ shut' = 0

-----------------------------------------------------------------------------
(* Leaving a stage.                                                        *)

Raise(why) ==
  /\ stage' = "raised" /\ cause' = why
  /\ UNCHANGED <<asked, timerVars, replies, pastVars>>

\* The next request is written and its deadline set; frames() sets its own three.
Proceed ==
  LET next == After[stage]
  IN /\ stage' = next
     /\ asked' = IF next \in Commands THEN next ELSE asked
     /\ timeLeft' = CASE next \in Commands -> ConnectTimeout
                      [] next = "times" -> SyncWait
                      [] OTHER -> 0
     /\ heartbeatLeft' = IF next = "stream" THEN HeartbeatInterval ELSE 0
     /\ activityLeft' = IF next = "stream" THEN FrameTimeout ELSE 0
     /\ frameLeft' = IF next = "stream" THEN FrameTimeout ELSE 0
     /\ UNCHANGED <<cause, replies, pastVars>>

Stay == UNCHANGED <<stage, cause, asked, timerVars, pastVars>>

\* _receive returns the packets of what has arrived: one or more, in order.
Take(k) == wire' = SubSeq(wire, k + 1, Len(wire))

-----------------------------------------------------------------------------
(* connect() and start_audio().                                            *)

Own == {Answer(stage, ok) : ok \in BOOLEAN}

\* The answer among the packets ends the wait, after all of them are handled.
EndWait(packets) ==
  /\ UNCHANGED replies
  /\ CASE Holds(packets, Answer(stage, TRUE)) -> Proceed
       [] Holds(packets, Answer(stage, FALSE)) -> Raise("refused")
       [] OTHER -> Stay

\* Mutant: what follows the answer in the same read is forgotten.
WaitHandlesUpToAnswer(packets) ==
  /\ deferred' = IF \E p \in Own : Holds(packets, p) THEN deferred
                 ELSE deferred \o Only(packets, Packets \ {TimeRequest})
  /\ syncsAnswered' = syncsAnswered + SyncsIn(packets)
  /\ EndWait(packets)

\* Mutant: time requests are deferred like everything else.
WaitDefersAll(packets) ==
  /\ deferred' = deferred \o Only(packets, Packets \ Own)
  /\ UNCHANGED syncsAnswered
  /\ EndWait(packets)

\* _wait_response: time requests are answered at once, the rest is deferred.
WaitHandles(packets) ==
  /\ deferred' = deferred \o Only(packets, Packets \ (Own \union {TimeRequest}))
  /\ syncsAnswered' = syncsAnswered + SyncsIn(packets)
  /\ EndWait(packets)

WaitResponse ==
  /\ stage \in Commands
  /\ timeLeft > 0
  /\ \E k \in 1..Len(wire) : Take(k) /\ WaitHandles(SubSeq(wire, 1, k))
  /\ UNCHANGED <<linkVars, owed, sent, syncsSent, acked, latest, handled>>

WaitTimesOut ==
  /\ stage \in Commands
  /\ timeLeft = 0
  /\ Raise("timeout")
  /\ UNCHANGED <<linkVars, wire, owed, sent, syncsSent, acked, deferred, latest,
                 syncsAnswered, handled>>

\* The body of the loop of _answer_initial_time_syncs, left after two replies.
SyncHandles(packets) ==
  /\ deferred' = deferred \o Only(packets, Packets \ {TimeRequest})
  /\ syncsAnswered' = syncsAnswered + SyncsIn(packets)
  /\ replies' = replies + SyncsIn(packets)
  /\ IF replies + SyncsIn(packets) >= 2
     THEN stage' = "video" /\ asked' = "video" /\ timeLeft' = ConnectTimeout
     ELSE UNCHANGED <<stage, asked, timeLeft>>
  /\ UNCHANGED <<cause, heartbeatLeft, activityLeft, frameLeft, pastVars>>

AnswerTimeSyncs ==
  /\ stage = "times"
  /\ timeLeft > 0
  /\ \E k \in 1..Len(wire) : Take(k) /\ SyncHandles(SubSeq(wire, 1, k))
  /\ UNCHANGED <<linkVars, owed, sent, syncsSent, acked, latest, handled>>

\* ... or when its two seconds are over: the video is requested all the same.
TimeSyncsMissing ==
  /\ stage = "times"
  /\ timeLeft = 0
  /\ Proceed
  /\ UNCHANGED <<linkVars, wire, owed, sent, syncsSent, acked, deferred, latest,
                 syncsAnswered, handled>>

-----------------------------------------------------------------------------
(* frames().                                                               *)

\* Mutant: the heartbeat acknowledges nothing.
HeartbeatWithoutAck ==
  /\ stage = "stream" /\ heartbeatLeft = 0
  /\ heartbeatLeft' = HeartbeatInterval
  /\ owed' = owed + 1
  /\ UNCHANGED <<stage, cause, linkVars, wire, asked, sent, acked, syncsSent, deferred,
                 replies, timeLeft, activityLeft, frameLeft, latest, syncsAnswered,
                 handled, pastVars>>

\* The time request of every half second acknowledges the latest media packet.
Heartbeat ==
  /\ stage = "stream" /\ heartbeatLeft = 0
  /\ heartbeatLeft' = HeartbeatInterval
  /\ owed' = owed + 1
  /\ acked' = latest
  /\ shut' = IF sent - latest < Window THEN 0 ELSE shut
  /\ UNCHANGED <<stage, cause, linkVars, wire, asked, sent, syncsSent, deferred,
                 replies, timeLeft, activityLeft, frameLeft, latest, syncsAnswered,
                 handled, quiet, frozen>>

\* Nothing is deferred: _receive, until the first of the deadlines.  (Its limit of
\* 2 s never is the first: the next heartbeat is at most half a second away.)
BeginReceive ==
  /\ stage = "stream" /\ heartbeatLeft > 0
  /\ deferred = <<>>
  /\ stage' = "receive"
  /\ UNCHANGED <<cause, linkVars, wire, cameraVars, acked, deferred, replies, timerVars,
                 latest, syncsAnswered, handled, pastVars>>

\* The checks at the end of the loop, with the deadlines as they are by then.
Check(activity, frame) ==
  /\ cause' = CASE activity = 0 -> "noActivity"
                [] activity > 0 /\ frame = 0 -> "noFrame"
                [] OTHER -> "none"
  /\ stage' = IF activity = 0 \/ frame = 0 THEN "raised" ELSE "stream"
  /\ activityLeft' = activity /\ frameLeft' = frame

\* Mutant: any packet, not only a complete frame, restarts the frame watchdog.
StreamHandlesAnyFrame(packets) ==
  LET numbers == Numbers(packets)
      whole == \E n \in 1..MaxMedia : Holds(packets, Media(n, TRUE))
  IN /\ handled' = handled \o numbers
     /\ latest' = IF numbers = <<>> THEN latest ELSE numbers[Len(numbers)]
     /\ syncsAnswered' = syncsAnswered + SyncsIn(packets)
     /\ quiet' = 0
     /\ frozen' = IF whole THEN 0 ELSE frozen
     /\ Check(FrameTimeout, FrameTimeout)

\* Mutant: the frame watchdog is never restarted.
StreamHandlesOneFrame(packets) ==
  LET numbers == Numbers(packets)
      whole == \E n \in 1..MaxMedia : Holds(packets, Media(n, TRUE))
  IN /\ handled' = handled \o numbers
     /\ latest' = IF numbers = <<>> THEN latest ELSE numbers[Len(numbers)]
     /\ syncsAnswered' = syncsAnswered + SyncsIn(packets)
     /\ quiet' = 0
     /\ frozen' = IF whole THEN 0 ELSE frozen
     /\ Check(FrameTimeout, frameLeft)

\* Media goes to the reassembler, time requests are answered, answers to
\* heartbeats match no pending command and are dropped.
StreamHandles(packets) ==
  LET numbers == Numbers(packets)
      whole == \E n \in 1..MaxMedia : Holds(packets, Media(n, TRUE))
  IN /\ handled' = handled \o numbers
     /\ latest' = IF numbers = <<>> THEN latest ELSE numbers[Len(numbers)]
     /\ syncsAnswered' = syncsAnswered + SyncsIn(packets)
     /\ quiet' = 0
     /\ frozen' = IF whole THEN 0 ELSE frozen
     /\ Check(FrameTimeout, IF whole THEN FrameTimeout ELSE frameLeft)

\* packets = [self._pending.popleft()]
HandleDeferred ==
  /\ stage = "stream" /\ heartbeatLeft > 0
  /\ deferred # <<>>
  /\ deferred' = Tail(deferred)
  /\ StreamHandles(<<Head(deferred)>>)
  /\ UNCHANGED <<linkVars, wire, cameraVars, acked, replies, timeLeft, heartbeatLeft,
                 shut>>

HandleReceived ==
  /\ stage = "receive"
  /\ activityLeft > 0 /\ heartbeatLeft > 0
  /\ \E k \in 1..Len(wire) : Take(k) /\ StreamHandles(SubSeq(wire, 1, k))
  /\ UNCHANGED <<linkVars, cameraVars, acked, deferred, replies, timeLeft,
                 heartbeatLeft, shut>>

\* A deadline of _receive has passed: it returns no packets.
NothingReceived ==
  /\ stage = "receive"
  /\ activityLeft = 0 \/ heartbeatLeft = 0
  /\ Check(activityLeft, frameLeft)
  /\ UNCHANGED <<linkVars, wire, cameraVars, acked, deferred, replies, timeLeft,
                 heartbeatLeft, latest, syncsAnswered, handled, pastVars>>

\* recv returns b"" or raises, or a write raises: what had arrived may be lost.
ConnectionLost ==
  /\ closed /\ stage # "raised"
  /\ Raise("lost")
  /\ UNCHANGED <<linkVars, wire, owed, sent, syncsSent, acked, deferred, latest,
                 syncsAnswered, handled>>

-----------------------------------------------------------------------------
(* The camera and the time.                                                *)

CameraSends(packet) ==
  /\ ~closed /\ stage # "raised"
  /\ wire' = Append(wire, packet)
  /\ UNCHANGED <<stage, cause, linkVars, acked, deferred, replies, timerVars, latest,
                 syncsAnswered, handled, pastVars>>

CameraAnswers ==
  /\ asked # "none"
  /\ \E ok \in BOOLEAN : CameraSends(Answer(asked, ok))
  /\ asked' = "none"
  /\ UNCHANGED <<owed, sent, syncsSent>>

CameraAnswersHeartbeat ==
  /\ owed > 0
  /\ CameraSends(HeartbeatAnswer)
  /\ owed' = owed - 1
  /\ UNCHANGED <<asked, sent, syncsSent>>

CameraAsksTime ==
  /\ asked # "auth"
  /\ syncsSent < MaxSyncs
  /\ CameraSends(TimeRequest)
  /\ syncsSent' = syncsSent + 1
  /\ UNCHANGED <<asked, owed, sent>>

\* Media starts with the request for video, before or after it is answered, and
\* stops when the window is full.  A packet completes a frame or does not.
CameraSendsMedia ==
  /\ stage \in {"video", "audio", "stream", "receive"}
  /\ sent < MaxMedia /\ sent - acked < Window
  /\ \E whole \in BOOLEAN : CameraSends(Media(sent + 1, whole))
  /\ sent' = sent + 1
  /\ UNCHANGED <<asked, owed, syncsSent>>

CameraCloses ==
  /\ ~closed /\ stage # "raised"
  /\ closed' = TRUE
  /\ UNCHANGED <<stage, cause, conn, wire, cameraVars, acked, deferred, replies,
                 timerVars, latest, syncsAnswered, handled, pastVars>>

Less(n) == IF n = 0 THEN 0 ELSE n - 1

\* The reader is blocked in recv with no deadline passed.
Tick ==
  /\ wire = <<>> /\ ~closed
  /\ \/ stage \in Commands \union {"times"} /\ timeLeft > 0
     \/ stage = "receive" /\ activityLeft > 0 /\ heartbeatLeft > 0
  /\ timeLeft' = Less(timeLeft)
  /\ heartbeatLeft' = Less(heartbeatLeft)
  /\ activityLeft' = Less(activityLeft)
  /\ frameLeft' = Less(frameLeft)
  /\ IF stage = "receive"
     THEN /\ quiet' = quiet + 1 /\ frozen' = frozen + 1
          /\ shut' = IF sent - acked = Window THEN shut + 1 ELSE 0
     ELSE UNCHANGED pastVars
  /\ UNCHANGED <<stage, cause, linkVars, wire, cameraVars, acked, deferred, replies,
                 latest, syncsAnswered, handled>>

-----------------------------------------------------------------------------
Reader ==
  \/ Connect \/ WaitResponse \/ WaitTimesOut \/ AnswerTimeSyncs \/ TimeSyncsMissing
  \/ Heartbeat \/ BeginReceive \/ HandleDeferred \/ HandleReceived \/ NothingReceived
  \/ ConnectionLost

Camera ==
  \/ CameraAnswers \/ CameraAnswersHeartbeat \/ CameraAsksTime \/ CameraSendsMedia
  \/ CameraCloses

Next == Reader \/ Camera \/ Tick

Spec == Init /\ [][Next]_vars

-----------------------------------------------------------------------------
(* What must hold.                                                         *)

\* Between the handshake and the stream no media packet is lost, doubled or put
\* out of order: what frames() has handled, what the handshake deferred and what
\* is under way are the packets of this connection, in the order they were sent.
MediaInOrder ==
  stage # "raised" =>
    handled \o Numbers(deferred) \o Numbers(wire) = [n \in 1..sent |-> n]

\* Each time request that has been read is answered: none waits, deferred, for the
\* end of the handshake that may itself be waiting for the camera.
TimeRequestsAnswered ==
  stage # "raised" => syncsAnswered + SyncsIn(wire) = syncsSent

\* "The two-second complete-frame watchdog": without a complete frame the stream
\* ends within its timeout and one heartbeat, whatever else keeps the link busy.
StalledStreamEnds == Streaming => frozen < FrameTimeout + HeartbeatInterval

\* A watchdog ends a stream only when what it watches for was missing that long.
NoFalseAlarm ==
  /\ cause = "noFrame" => frozen >= FrameTimeout
  /\ cause = "noActivity" => quiet >= FrameTimeout

\* The camera never waits longer than one interval for its window to be opened: the
\* two sides do not end up waiting for each other until the watchdog ends the stream.
WindowReopens == shut <= HeartbeatInterval
=============================================================================
