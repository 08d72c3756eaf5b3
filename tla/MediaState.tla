----------------------------- MODULE MediaState -----------------------------
(***************************************************************************)
(* How the pictures and the sound of one camera reach the HTTP clients     *)
(* (bridge.py): the reader thread publishes them in a CameraState, the     *)
(* CameraWorker polls the session and sets the connection state there, and *)
(* each client's thread waits on the condition of the CameraState and      *)
(* writes what is new to its client.                                       *)
(*                                                                         *)
(* The condition's lock makes each method of CameraState one step; a wait  *)
(* ends when the condition is notified or when it times out.  A frame and  *)
(* a chunk of sound are known by their numbers, which start at 1.          *)
(***************************************************************************)
EXTENDS Selection

CONSTANTS
  Viewers,   \* clients of stream.mjpeg, preview.mjpeg and snapshot.jpg
  Listeners, \* clients of audio.alaw
  Backlog,   \* maxlen of audio_chunks, 128
  MaxFrames, \* bound on the frames published
  MaxAudio,  \* bound on the chunks published
  MaxDrops   \* bound on the connections that fail

Clients == Viewers \union Listeners

ASSUME ClientsAssumption == Viewers \intersect Listeners = {}
ASSUME BoundsAssumption ==
  Backlog \in Nat \ {0} /\ MaxFrames \in Nat /\ MaxAudio \in Nat /\ MaxDrops \in Nat

VARIABLES
  link,             \* the session is "down", "up" or "closed"; up is its _connected
  drops,            \* connections that have failed so far
  frame_id, audio_id, audio_chunks, \* fields of CameraState; a frame is its frame_id
  connected,        \* CameraState.connected
  recent,           \* status(): the last frame or chunk is within the grace period
  wpc,              \* label of the worker
  wConnected,       \* what it has read of the session, until it has set it
  stop_event,
  cpc,              \* label of each client's thread
  path,             \* what a client has asked for; "none" until it connects
  expired,          \* the deadline of a snapshot's wait_for_frame has passed
  cursor,           \* the last number it has taken: frame_id or audio_id of its loop
  batch,            \* what it has taken and still has to write
  written,          \* history: the numbers it has written
  since,            \* history: the last chunk published before it began to listen
  overrun           \* history: did more than the backlog pile up behind it?

sessionVars == <<link, drops>>
mediaVars   == <<frame_id, audio_id, audio_chunks>>
stateVars   == <<connected, recent>>
workerVars  == <<wpc, wConnected, stop_event>>
clientVars  == <<cpc, path, expired, cursor, batch, written, since, overrun>>
vars == <<sessionVars, mediaVars, stateVars, workerVars, clientVars>>

Init ==
  /\ link = "down" /\ drops = 0
  /\ frame_id = 0 /\ audio_id = 0 /\ audio_chunks = <<>>
  /\ connected = FALSE /\ recent = FALSE
  /\ wpc = "read" /\ wConnected = FALSE /\ stop_event = FALSE
  /\ cpc = [c \in Clients |-> "new"]
  /\ path = [c \in Clients |-> "none"]
  /\ expired = [c \in Clients |-> FALSE]
  /\ cursor = [c \in Clients |-> 0]
  /\ batch = [c \in Clients |-> <<>>]
  /\ written = [c \in Clients |-> <<>>]
  /\ since = [c \in Clients |-> 0]
  /\ overrun = [c \in Clients |-> FALSE]

\* self.condition.notify_all()
NotifyAll ==
  /\ cpc' = [c \in Clients |-> IF cpc[c] = "asleep" THEN "check" ELSE cpc[c]]
  /\ UNCHANGED <<path, expired, cursor, batch, written, since, overrun>>

-----------------------------------------------------------------------------
(* The reader thread of the session, seen through its callbacks and fields. *)

SessionUp ==
  /\ link = "down"
  /\ link' = "up"
  /\ UNCHANGED <<drops, mediaVars, stateVars, workerVars, clientVars>>

\* The stream fails; the session connects again after a while.
SessionFails ==
  /\ link = "up"
  /\ drops < MaxDrops
  /\ drops' = drops + 1
  /\ link' = "down"
  /\ UNCHANGED <<mediaVars, stateVars, workerVars, clientVars>>

\* Mutant: a frame is published without waking anybody.
PublishSilently ==
  /\ link = "up"
  /\ frame_id < MaxFrames
  /\ frame_id' = frame_id + 1
  /\ connected' = TRUE /\ recent' = TRUE
  /\ UNCHANGED <<sessionVars, audio_id, audio_chunks, workerVars, clientVars>>

\* CameraState.publish
Publish ==
  /\ link = "up"
  /\ frame_id < MaxFrames
  /\ frame_id' = frame_id + 1
  /\ connected' = TRUE /\ recent' = TRUE
  /\ NotifyAll
  /\ UNCHANGED <<sessionVars, audio_id, audio_chunks, workerVars>>

\* CameraState.publish_audio: the deque drops its oldest chunk when it is full.
PublishAudio ==
  /\ link = "up"
  /\ audio_id < MaxAudio
  /\ audio_id' = audio_id + 1
  /\ audio_chunks' = IF Len(audio_chunks) = Backlog
                     THEN Append(Tail(audio_chunks), audio_id + 1)
                     ELSE Append(audio_chunks, audio_id + 1)
  /\ recent' = TRUE
  /\ NotifyAll
  /\ UNCHANGED <<sessionVars, frame_id, connected, workerVars>>

\* RECENT_ACTIVITY_GRACE_SECONDS have passed since the last frame and the last chunk.
GraceOver ==
  /\ recent
  /\ recent' = FALSE
  /\ UNCHANGED <<sessionVars, mediaVars, connected, workerVars, clientVars>>

-----------------------------------------------------------------------------
(* CameraWorker.run                                                        *)

\* while not self.stop_event.is_set(): if session.connected
ReadConnected ==
  /\ wpc = "read"
  /\ ~stop_event
  /\ wConnected' = (link = "up")
  /\ wpc' = "set"
  /\ UNCHANGED <<sessionVars, mediaVars, stateVars, stop_event, clientVars>>

\* Mutant: the worker only ever reports good news.
SetWhenConnected ==
  /\ wpc = "set"
  /\ connected' = (connected \/ wConnected)
  /\ NotifyAll
  /\ wpc' = "read" /\ wConnected' = FALSE
  /\ UNCHANGED <<sessionVars, mediaVars, recent, stop_event>>

\* set_connected with what was read, whatever has been published meanwhile; then
\* self.stop_event.wait(0.1).
SetConnected ==
  /\ wpc = "set"
  /\ connected' = wConnected
  /\ NotifyAll
  /\ wpc' = "read" /\ wConnected' = FALSE
  /\ UNCHANGED <<sessionVars, mediaVars, recent, stop_event>>

\* main() ends ...
StopBridge ==
  /\ ~stop_event
  /\ stop_event' = TRUE
  /\ UNCHANGED <<sessionVars, mediaVars, stateVars, wpc, wConnected, clientVars>>

\* ... and the worker closes its session; the CameraState stays as it is.
WorkerEnds ==
  /\ wpc = "read"
  /\ stop_event
  /\ wpc' = "done"
  /\ link' = "closed"
  /\ UNCHANGED <<drops, mediaVars, stateVars, wConnected, stop_event, clientVars>>

-----------------------------------------------------------------------------
(* The threads of the HTTP clients: _stream, _audio and _snapshot.         *)

\* A listener starts at audio_cursor(), the others before any frame.
Connect(c) ==
  /\ cpc[c] = "new"
  /\ \E p \in IF c \in Listeners THEN {"audio.alaw"}
             ELSE {"stream.mjpeg", "preview.mjpeg", "snapshot.jpg"} :
       path' = [path EXCEPT ![c] = p]
  /\ cpc' = [cpc EXCEPT ![c] = "check"]
  /\ cursor' = [cursor EXCEPT ![c] = IF c \in Listeners THEN audio_id ELSE 0]
  /\ since' = [since EXCEPT ![c] = cursor'[c]]
  /\ UNCHANGED <<sessionVars, mediaVars, stateVars, workerVars, expired, batch, written,
                 overrun>>

Sleep(c) ==
  /\ cpc' = [cpc EXCEPT ![c] = "asleep"]
  /\ UNCHANGED <<cursor, batch, overrun>>

\* Mutant: any frame will do.
TakeAnyFrame(c) ==
  \/ /\ frame_id = 0
     /\ Sleep(c)
  \/ /\ frame_id # 0
     /\ cpc' = [cpc EXCEPT ![c] = "write"]
     /\ cursor' = [cursor EXCEPT ![c] = frame_id]
     /\ batch' = [batch EXCEPT ![c] = <<frame_id>>]
     /\ UNCHANGED overrun

\* wait_for_frame: the latest frame, unless the client has had it.
TakeFrame(c) ==
  \/ /\ frame_id = cursor[c]
     /\ Sleep(c)
  \/ /\ frame_id # cursor[c]
     /\ cpc' = [cpc EXCEPT ![c] = "write"]
     /\ cursor' = [cursor EXCEPT ![c] = frame_id]
     /\ batch' = [batch EXCEPT ![c] = <<frame_id>>]
     /\ UNCHANGED overrun

\* Mutant: the chunk the client had last is sent again.
TakeAudioAgain(c) ==
  \/ /\ audio_id <= cursor[c]
     /\ Sleep(c)
  \/ /\ audio_id > cursor[c]
     /\ cpc' = [cpc EXCEPT ![c] = "write"]
     /\ batch' = [batch EXCEPT ![c] = Only(audio_chunks, cursor[c]..audio_id)]
     /\ overrun' = [overrun EXCEPT ![c] = @ \/ audio_id - cursor[c] > Backlog]
     /\ UNCHANGED cursor

\* wait_for_audio: every chunk after the last one written that is still held.
TakeAudio(c) ==
  \/ /\ audio_id <= cursor[c]
     /\ Sleep(c)
  \/ /\ audio_id > cursor[c]
     /\ cpc' = [cpc EXCEPT ![c] = "write"]
     /\ batch' = [batch EXCEPT ![c] = Only(audio_chunks, (cursor[c] + 1)..audio_id)]
     /\ overrun' = [overrun EXCEPT ![c] = @ \/ audio_id - cursor[c] > Backlog]
     /\ UNCHANGED cursor

\* Mutant: a wait that has timed out returns nothing, whatever came meanwhile.
GiveUpOnTime(c) ==
  \/ ~expired[c] /\ TakeFrame(c)
  \/ /\ expired[c]
     /\ cpc' = [cpc EXCEPT ![c] = "refused"]
     /\ UNCHANGED <<cursor, batch, overrun>>

\* wait_for_frame(-1, 5.0): any frame will do; without one the deadline decides
\* between another wait and 503.
TakeSnapshot(c) ==
  \/ (frame_id # 0 \/ ~expired[c]) /\ TakeFrame(c)
  \/ /\ frame_id = 0 /\ expired[c]
     /\ cpc' = [cpc EXCEPT ![c] = "refused"]
     /\ UNCHANGED <<cursor, batch, overrun>>

Take(c) ==
  /\ cpc[c] = "check"
  /\ \/ path[c] = "audio.alaw" /\ TakeAudio(c)
     \/ path[c] = "snapshot.jpg" /\ TakeSnapshot(c)
     \/ path[c] \in {"stream.mjpeg", "preview.mjpeg"} /\ TakeFrame(c)
  /\ UNCHANGED <<sessionVars, mediaVars, stateVars, workerVars, path, expired, written,
                 since>>

\* The wait of 15 s is over; the loop of the handler goes round.
WaitTimesOut(c) ==
  /\ path[c] # "snapshot.jpg"
  /\ cpc[c] = "asleep"
  /\ cpc' = [cpc EXCEPT ![c] = "check"]
  /\ UNCHANGED <<sessionVars, mediaVars, stateVars, workerVars, path, expired, cursor,
                 batch, written, since, overrun>>

\* The 5 s of a snapshot pass, asleep or on the way to the lock.
DeadlinePasses(c) ==
  /\ path[c] = "snapshot.jpg"
  /\ cpc[c] \in {"check", "asleep"} /\ ~expired[c]
  /\ cpc' = [cpc EXCEPT ![c] = "check"]
  /\ expired' = [expired EXCEPT ![c] = TRUE]
  /\ UNCHANGED <<sessionVars, mediaVars, stateVars, workerVars, path, cursor, batch,
                 written, since, overrun>>

\* Mutant: after a batch the listener goes on from what is published by then.
WriteThenCatchUp(c) ==
  /\ cpc[c] = "write" /\ batch[c] # <<>>
  /\ written' = [written EXCEPT ![c] = Append(@, Head(batch[c]))]
  /\ cursor' = [cursor EXCEPT ![c] = IF c \in Listeners THEN audio_id ELSE @]
  /\ batch' = [batch EXCEPT ![c] = Tail(@)]
  /\ cpc' = [cpc EXCEPT ![c] = IF Len(batch[c]) # 1 THEN "write"
                               ELSE IF path[c] = "snapshot.jpg" THEN "answered" ELSE "check"]
  /\ UNCHANGED <<sessionVars, mediaVars, stateVars, workerVars, path, expired, since,
                 overrun>>

\* One frame or chunk is written; the loop variable of _audio moves with it.
Write(c) ==
  /\ cpc[c] = "write" /\ batch[c] # <<>>
  /\ written' = [written EXCEPT ![c] = Append(@, Head(batch[c]))]
  /\ cursor' = [cursor EXCEPT ![c] = Head(batch[c])]
  /\ batch' = [batch EXCEPT ![c] = Tail(@)]
  /\ cpc' = [cpc EXCEPT ![c] = IF Len(batch[c]) # 1 THEN "write"
                               ELSE IF path[c] = "snapshot.jpg" THEN "answered" ELSE "check"]
  /\ UNCHANGED <<sessionVars, mediaVars, stateVars, workerVars, path, expired, since,
                 overrun>>

\* A preview leaves out a frame that comes within a second of the last one.
SkipFrame(c) ==
  /\ cpc[c] = "write"
  /\ path[c] = "preview.mjpeg" /\ written[c] # <<>>
  /\ batch' = [batch EXCEPT ![c] = <<>>]
  /\ cpc' = [cpc EXCEPT ![c] = "check"]
  /\ UNCHANGED <<sessionVars, mediaVars, stateVars, workerVars, path, expired, cursor,
                 written, since, overrun>>

\* The client has gone: BrokenPipeError, ConnectionResetError or TimeoutError.
ClientGone(c) ==
  /\ cpc[c] = "write"
  /\ cpc' = [cpc EXCEPT ![c] = "gone"]
  /\ batch' = [batch EXCEPT ![c] = <<>>]
  /\ UNCHANGED <<sessionVars, mediaVars, stateVars, workerVars, path, expired, cursor,
                 written, since, overrun>>

-----------------------------------------------------------------------------
Session == SessionUp \/ SessionFails \/ Publish \/ PublishAudio
Worker  == ReadConnected \/ SetConnected \/ WorkerEnds

Client(c) ==
  \/ Connect(c) \/ Take(c) \/ WaitTimesOut(c) \/ DeadlinePasses(c)
  \/ Write(c) \/ SkipFrame(c) \/ ClientGone(c)

Next == Session \/ GraceOver \/ Worker \/ StopBridge \/ \E c \in Clients : Client(c)

Spec == Init /\ [][Next]_vars

\* Threads run, clients read, or go, and time passes for a snapshot and for status();
\* no other wait has to time out and the camera never has to send anything.
FairSpec ==
  /\ Spec
  /\ WF_vars(Worker)
  /\ WF_vars(GraceOver)
  /\ \A c \in Clients : WF_vars(Take(c)) /\ WF_vars(Write(c)) /\ WF_vars(DeadlinePasses(c))

-----------------------------------------------------------------------------
(* What must hold.                                                         *)

\* A listener hears every chunk once and in order, from the one after those it
\* came too late for, as long as it never falls behind by more than the backlog;
\* if it does it may miss chunks, and still none is repeated or reordered.
SoundIsContinuous ==
  \A l \in Listeners :
    LET heard == written[l]
    IN \A j \in 1..Len(heard) :
         /\ ~overrun[l] => heard[j] = since[l] + j
         /\ heard[j] > IF j = 1 THEN since[l] ELSE heard[j - 1]

\* A client never gets a frame twice or an older one after a newer one, across
\* reconnections of the camera.
PicturesGoForward ==
  \A s \in Viewers : \A j \in 2..Len(written[s]) : written[s][j] > written[s][j - 1]

Latest(c) == IF written[c] = <<>> THEN 0 ELSE written[c][Len(written[c])]

Open(c) == cpc[c] \in {"check", "asleep", "write"}

\* Each client of the full-rate stream gets the latest frame, or a newer one, as
\* soon as it is published: without a wait having to time out.
LatestIsShown ==
  \A s \in Viewers : \A n \in 1..MaxFrames :
    (Open(s) /\ path[s] = "stream.mjpeg" /\ frame_id >= n) ~> (Latest(s) >= n \/ cpc[s] = "gone")

\* ... and each listener the latest sound.
SoundArrives ==
  \A l \in Listeners : \A n \in 1..MaxAudio :
    (Open(l) /\ cursor[l] < n /\ audio_id >= n) ~> (Latest(l) >= n \/ cpc[l] = "gone")

\* A request for a snapshot always ends; one that still waits when a frame is
\* published, or starts later, ends with a frame and not with 503, however its
\* deadline races with that frame.
SnapshotIsAnswered ==
  \A s \in Viewers :
    LET Waits == path[s] = "snapshot.jpg" /\ Open(s)
    IN /\ Waits ~> ~Open(s)
       /\ (Waits /\ frame_id > 0) ~> cpc[s] \in {"answered", "gone"}

\* CameraState.status()["connected"]
Shown == connected \/ recent

\* However the worker's stale reads race with published frames, what status() shows
\* ends up as the session's state when that no longer changes and the bridge is not
\* stopped.
StateFollowsSession ==
  \A b \in BOOLEAN :
    <>[]((link = "up") = b) /\ []~stop_event => <>[](Shown = b)
=============================================================================
