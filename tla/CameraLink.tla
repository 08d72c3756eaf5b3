----------------------------- MODULE CameraLink -----------------------------
(***************************************************************************)
(* One camera connection shared by the threads of the bridge: the reader   *)
(* thread of CameraSession (session.py) that dials, streams and reconnects,*)
(* the thread that closes the session, and the HTTP threads that issue     *)
(* control and reboot calls through CameraClient (camera.py).              *)
(*                                                                         *)
(* A label of a thread stands for the statement it executes next.  Python  *)
(* threads are preempted anywhere, so every access to a field that another *)
(* thread writes is a step of its own; statements that touch nothing       *)
(* shared are merged with the next one that does.                          *)
(***************************************************************************)
EXTENDS Naturals

CONSTANTS
  Controls,             \* calls of CameraSession._send, one per HTTP request
  Reboots,              \* calls of CameraSession.reboot
  CommandOf,            \* the command id of each call
  NoCall,               \* stands for "no thread" in the two locks
  FirstSequence,        \* the first sequence number of a connection (5)
  MaxSequence,          \* bound: the reader sends heartbeats below this number
  MaxFaults,            \* bound: resets, watchdog expiries, failed dials, stuck sends
  StallAcrossReconnect  \* may a call stall between its last check and its
                        \* write for as long as a whole reconnection?

Calls == Controls \union Reboots

ASSUME CallsAssumption ==
  /\ Controls \intersect Reboots = {}
  /\ NoCall \notin Calls
ASSUME BoundsAssumption ==
  /\ FirstSequence \in Nat
  /\ MaxSequence \in Nat
  /\ MaxFaults \in Nat
  /\ StallAcrossReconnect \in BOOLEAN

Threads == {"reader", "closer"}

VARIABLES
  tpc,          \* label of the reader and of the closing thread
  ret,          \* where CameraClient.close / _fail_pending returns to
  failing,      \* the calls _fail_pending took out and has still to wake
  sock,         \* CameraClient._socket: 0 is None, n the n-th connection
  conn,         \* number of connections dialled so far
  linkUp,       \* the current socket object still carries data
  nextSequence, \* CameraClient._next_sequence
  pending,      \* CameraClient._pending_commands: the calls registered in it
  sendLock,     \* holder of CameraClient._send_lock
  controlLock,  \* holder of CameraSession._control_lock
  connected,    \* CameraSession._connected
  stop,         \* CameraSession._stop
  delivery,     \* the answer the reader is handing to a call
  toReader,     \* answers written by the camera and not yet processed
  toCamera,     \* requests written and not yet handled by the camera
  applied,      \* the calls the camera has carried out
  faults,       \* faults so far
  pc,           \* label of each call
  seq,          \* its sequence number
  event,        \* _PendingCommand.event
  error,        \* _PendingCommand.error is set
  response,     \* _PendingCommand.response
  checkedOn,    \* the connection when connectivity was last checked
  sentOn,       \* the connection the request was written to, 0 if none
  result        \* what the call returned or raised

threadVars == <<tpc, ret, failing>>
linkVars   == <<sock, conn, linkUp, nextSequence>>
flagVars   == <<connected, stop>>
lockVars   == <<sendLock, controlLock>>
wireVars   == <<toReader, toCamera, applied>>
boxVars    == <<event, error, response>>
callVars   == <<pc, seq, checkedOn, sentOn, result>>
vars == <<threadVars, linkVars, flagVars, lockVars, wireVars, boxVars, callVars,
          pending, delivery, faults>>

Requests == [call : Calls, seq : Nat]
Answers  == [call : Calls, seq : Nat, ok : BOOLEAN]
NoAnswer == [call |-> NoCall, seq |-> 0, ok |-> FALSE]

Results == {"none", "ok", "unavailable", "timeout", "camera_error",
            "no_response", "attribute_error", "os_error"}

Finished == {"done", "dead", "raised"}
Closing  == {"closeCheck", "closeSocket", "dropSocket", "failSnapshot", "failWake"}

TypeOK ==
  /\ tpc \in [Threads -> Closing \union Finished \union
                {"loop", "dial", "handshake", "audio", "announce", "begin", "stream",
                 "setResponse", "setEvent", "cleanup", "backoff",
                 "idle", "join", "clear"}]
  /\ ret \in [Threads -> {"dial", "cleanup", "backoff", "join"}]
  /\ failing \in [Threads -> SUBSET Controls]
  /\ sock \in Nat /\ conn \in Nat /\ linkUp \in BOOLEAN
  /\ nextSequence \in Nat
  /\ pending \in SUBSET Controls
  /\ sendLock \in Calls \union {NoCall}
  /\ controlLock \in Calls \union {NoCall}
  /\ connected \in BOOLEAN /\ stop \in BOOLEAN
  /\ delivery \in [to : Controls \union {NoCall}, answer : Answers \union {NoAnswer}]
  /\ toReader \in SUBSET Answers
  /\ toCamera \in SUBSET Requests
  /\ applied \in SUBSET Calls
  /\ faults \in Nat
  /\ pc \in [Calls -> {"idle", "lock", "allocate", "register", "send",
                       "write", "wait", "done"}]
  /\ \A c \in Reboots : pc[c] \notin {"register", "wait"}
  /\ seq \in [Calls -> Nat]
  /\ event \in [Calls -> BOOLEAN]
  /\ error \in [Calls -> BOOLEAN]
  /\ response \in [Calls -> Answers \union {NoAnswer}]
  /\ checkedOn \in [Calls -> Nat]
  /\ sentOn \in [Calls -> Nat]
  /\ result \in [Calls -> Results]

Init ==
  /\ tpc = [t \in Threads |-> IF t = "reader" THEN "loop" ELSE "idle"]
  /\ ret = [t \in Threads |-> IF t = "reader" THEN "dial" ELSE "join"]
  /\ failing = [t \in Threads |-> {}]
  /\ sock = 0 /\ conn = 0 /\ linkUp = FALSE
  /\ nextSequence = FirstSequence
  /\ pending = {}
  /\ sendLock = NoCall /\ controlLock = NoCall
  /\ connected = FALSE /\ stop = FALSE
  /\ delivery = [to |-> NoCall, answer |-> NoAnswer]
  /\ toReader = {} /\ toCamera = {} /\ applied = {}
  /\ faults = 0
  /\ pc = [c \in Calls |-> "idle"]
  /\ seq = [c \in Calls |-> 0]
  /\ event = [c \in Calls |-> FALSE]
  /\ error = [c \in Calls |-> FALSE]
  /\ response = [c \in Calls |-> NoAnswer]
  /\ checkedOn = [c \in Calls |-> 0]
  /\ sentOn = [c \in Calls |-> 0]
  /\ result = [c \in Calls |-> "none"]

Goto(t, label) == tpc' = [tpc EXCEPT ![t] = label]

\* A thread enters CameraClient.close and will continue at the label "after".
CallClose(t, after) ==
  /\ Goto(t, "closeCheck")
  /\ ret' = [ret EXCEPT ![t] = after]

\* An injected fault; a step that only notices an earlier one costs nothing.
Fault == faults < MaxFaults /\ faults' = faults + 1

-----------------------------------------------------------------------------
(* CameraClient.close, executed by the reader and by the closing thread.   *)

CloseCheck(t) ==
  /\ tpc[t] = "closeCheck"
  /\ Goto(t, IF sock = 0 THEN "failSnapshot" ELSE "closeSocket")
  /\ UNCHANGED <<ret, failing, linkVars, flagVars, lockVars, wireVars, boxVars,
                 callVars, pending, delivery, faults>>

\* self._socket.close(): another closer may have set the field to None since
\* the check, and the AttributeError then leaves close() at once.  In connect()
\* it lands in the except clause of _reader_main; in the finally clause of
\* _reader_main it ends the thread; in session.close() it skips the join.
CloseSocket(t) ==
  /\ tpc[t] = "closeSocket"
  /\ IF sock = 0
     THEN /\ Goto(t, IF t = "closer" THEN "raised"
                     ELSE IF ret[t] = "backoff" THEN "dead" ELSE "cleanup")
          /\ UNCHANGED linkUp
     ELSE Goto(t, "dropSocket") /\ linkUp' = FALSE
  /\ UNCHANGED <<ret, failing, sock, conn, nextSequence, flagVars, lockVars,
                 wireVars, boxVars, callVars, pending, delivery, faults>>

\* Mutant: close() that leaves the pending calls to their timeouts.
DropSocketOnly(t) ==
  /\ tpc[t] = "dropSocket"
  /\ sock' = 0 /\ linkUp' = FALSE
  /\ Goto(t, ret[t])
  /\ UNCHANGED <<ret, failing, conn, nextSequence, flagVars, lockVars, wireVars,
                 boxVars, callVars, pending, delivery, faults>>

\* finally: self._socket = None, whatever the field holds by now.
DropSocket(t) ==
  /\ tpc[t] = "dropSocket"
  /\ sock' = 0 /\ linkUp' = FALSE
  /\ Goto(t, "failSnapshot")
  /\ UNCHANGED <<ret, failing, conn, nextSequence, flagVars, lockVars, wireVars,
                 boxVars, callVars, pending, delivery, faults>>

\* Mutant: the table is cleared before its values are taken.
ClearThenSnapshot(t) ==
  /\ tpc[t] = "failSnapshot"
  /\ pending' = {}
  /\ Goto(t, ret[t])
  /\ UNCHANGED <<ret, failing, linkVars, flagVars, lockVars, wireVars, boxVars,
                 callVars, delivery, faults>>

\* _fail_pending: take a snapshot of the registered calls and clear the table.
FailSnapshot(t) ==
  /\ tpc[t] = "failSnapshot"
  /\ failing' = [failing EXCEPT ![t] = pending]
  /\ pending' = {}
  /\ Goto(t, IF pending = {} THEN ret[t] ELSE "failWake")
  /\ UNCHANGED <<ret, linkVars, flagVars, lockVars, wireVars, boxVars, callVars,
                 delivery, faults>>

\* Mutant: the event of a call is set before its error.
WakeThenFail(t) ==
  /\ tpc[t] = "failWake"
  /\ \E c \in failing[t] :
       IF ~event[c]
       THEN event' = [event EXCEPT ![c] = TRUE] /\ UNCHANGED <<error, failing, tpc>>
       ELSE /\ error' = [error EXCEPT ![c] = TRUE]
            /\ failing' = [failing EXCEPT ![t] = @ \ {c}]
            /\ Goto(t, IF failing[t] = {c} THEN ret[t] ELSE "failWake")
            /\ UNCHANGED event
  /\ UNCHANGED <<ret, linkVars, flagVars, lockVars, wireVars, response, callVars,
                 pending, delivery, faults>>

\* ... then, without the lock, set the error and the event of each of them.
FailWake(t) ==
  /\ tpc[t] = "failWake"
  /\ \E c \in failing[t] :
       /\ error' = [error EXCEPT ![c] = TRUE]
       /\ event' = [event EXCEPT ![c] = TRUE]
       /\ failing' = [failing EXCEPT ![t] = @ \ {c}]
       /\ Goto(t, IF failing[t] = {c} THEN ret[t] ELSE "failWake")
  /\ UNCHANGED <<ret, linkVars, flagVars, lockVars, wireVars, response, callVars,
                 pending, delivery, faults>>

-----------------------------------------------------------------------------
(* CameraSession._reader_main with the CameraClient methods it calls.      *)

\* while not self._stop.is_set(): self.client.connect(), which closes first.
ReaderLoop ==
  /\ tpc["reader"] = "loop"
  /\ IF stop THEN Goto("reader", "done") /\ UNCHANGED ret
             ELSE CallClose("reader", "dial")
  /\ UNCHANGED <<failing, linkVars, flagVars, lockVars, wireVars, boxVars,
                 callVars, pending, delivery, faults>>

\* The calls past their last connectivity check that have not written yet.
Stalled == {c \in Calls : pc[c] \in {"allocate", "register", "send", "write"}}

\* connect(): a new socket, empty buffers and the sequence counter reset; what
\* was in flight on the previous connection is lost.
Dial ==
  /\ tpc["reader"] = "dial"
  /\ StallAcrossReconnect \/ Stalled = {}
  /\ conn' = conn + 1
  /\ sock' = conn + 1
  /\ linkUp' = TRUE
  /\ nextSequence' = FirstSequence
  /\ toReader' = {} /\ toCamera' = {}
  /\ Goto("reader", "handshake")
  /\ UNCHANGED <<ret, failing, flagVars, lockVars, applied, boxVars, callVars,
                 pending, delivery, faults>>

\* Mutant: a failed dial is not caught by the reader's loop.
DialFailsForGood ==
  /\ tpc["reader"] = "dial"
  /\ Fault
  /\ Goto("reader", "dead")
  /\ UNCHANGED <<ret, failing, linkVars, flagVars, lockVars, wireVars, boxVars,
                 callVars, pending, delivery>>

\* socket_factory raises: outside connect()'s try, so no close() there.
DialFails ==
  /\ tpc["reader"] = "dial"
  /\ Fault
  /\ Goto("reader", "cleanup")
  /\ UNCHANGED <<ret, failing, linkVars, flagVars, lockVars, wireVars, boxVars,
                 callVars, pending, delivery>>

\* Authentication, sync, time syncs and video start all answered.
Handshake ==
  /\ tpc["reader"] = "handshake"
  /\ sock # 0 /\ linkUp
  /\ Goto("reader", "audio")
  /\ UNCHANGED <<ret, failing, linkVars, flagVars, lockVars, wireVars, boxVars,
                 callVars, pending, delivery, faults>>

\* The socket went away under the reader, or a fault strikes now.
LinkLost == \/ (sock = 0 \/ ~linkUp) /\ UNCHANGED faults
            \/ sock # 0 /\ linkUp /\ Fault

\* except Exception: self.close(); raise.
HandshakeFails ==
  /\ tpc["reader"] = "handshake"
  /\ LinkLost
  /\ CallClose("reader", "cleanup")
  /\ UNCHANGED <<failing, linkVars, flagVars, lockVars, wireVars, boxVars,
                 callVars, pending, delivery>>

StartAudio ==
  /\ tpc["reader"] = "audio"
  /\ sock # 0 /\ linkUp
  /\ Goto("reader", "announce")
  /\ UNCHANGED <<ret, failing, linkVars, flagVars, lockVars, wireVars, boxVars,
                 callVars, pending, delivery, faults>>

StartAudioFails ==
  /\ tpc["reader"] = "audio"
  /\ LinkLost
  /\ Goto("reader", "cleanup")
  /\ UNCHANGED <<ret, failing, linkVars, flagVars, lockVars, wireVars, boxVars,
                 callVars, pending, delivery>>

\* self._connected.set(), whatever happened to the socket meanwhile.
Announce ==
  /\ tpc["reader"] = "announce"
  /\ connected' = TRUE
  /\ Goto("reader", "begin")
  /\ UNCHANGED <<ret, failing, linkVars, stop, lockVars, wireVars, boxVars,
                 callVars, pending, delivery, faults>>

\* frames(): a socket closed meanwhile is an error raised before the try.
BeginFrames ==
  /\ tpc["reader"] = "begin"
  /\ Goto("reader", IF sock = 0 THEN "cleanup" ELSE "stream")
  /\ UNCHANGED <<ret, failing, linkVars, flagVars, lockVars, wireVars, boxVars,
                 callVars, pending, delivery, faults>>

\* frames(): the time-sync request sent every half second.
Heartbeat ==
  /\ tpc["reader"] = "stream"
  /\ sock # 0 /\ sendLock = NoCall
  /\ nextSequence < MaxSequence
  /\ nextSequence' = nextSequence + 1
  /\ UNCHANGED <<threadVars, sock, conn, linkUp, flagVars, lockVars, wireVars,
                 boxVars, callVars, pending, delivery, faults>>

\* Mutant: the table is keyed by the command id alone.
MatchingCommand(answer) == {c \in pending : CommandOf[c] = CommandOf[answer.call]}

\* The calls registered under the key of an answer.
Matching(answer) ==
  {c \in pending : CommandOf[c] = CommandOf[answer.call] /\ seq[c] = answer.seq}

\* _resolve_pending looks the answer up; an answer nobody waits for is dropped.
\* The packets of a batch are processed even if the socket goes meanwhile.
ReceiveAnswer ==
  /\ tpc["reader"] = "stream"
  /\ \E answer \in toReader :
       /\ toReader' = toReader \ {answer}
       /\ \/ /\ Matching(answer) = {}
             /\ UNCHANGED <<delivery, tpc>>
          \/ \E c \in Matching(answer) :
               /\ delivery' = [to |-> c, answer |-> answer]
               /\ Goto("reader", "setResponse")
  /\ UNCHANGED <<ret, failing, linkVars, flagVars, lockVars, toCamera, applied,
                 boxVars, callVars, pending, faults>>

SetResponse ==
  /\ tpc["reader"] = "setResponse"
  /\ response' = [response EXCEPT ![delivery.to] = delivery.answer]
  /\ Goto("reader", "setEvent")
  /\ UNCHANGED <<ret, failing, linkVars, flagVars, lockVars, wireVars, event,
                 error, callVars, pending, delivery, faults>>

SetEvent ==
  /\ tpc["reader"] = "setEvent"
  /\ event' = [event EXCEPT ![delivery.to] = TRUE]
  /\ delivery' = [to |-> NoCall, answer |-> NoAnswer]
  /\ Goto("reader", "stream")
  /\ UNCHANGED <<ret, failing, linkVars, flagVars, lockVars, wireVars, error,
                 response, callVars, pending, faults>>

\* The generator ends: its finally clause fails the pending calls, then
\* _reader_main cleans up.
EndStream ==
  /\ Goto("reader", "failSnapshot")
  /\ ret' = [ret EXCEPT !["reader"] = "cleanup"]

\* A receive, a heartbeat or the while condition meets the lost socket, or a
\* watchdog expires.
StreamFails ==
  /\ tpc["reader"] = "stream"
  /\ LinkLost
  /\ EndStream
  /\ UNCHANGED <<failing, linkVars, flagVars, lockVars, wireVars, boxVars,
                 callVars, pending, delivery>>

\* Mutant: the stop flag is not looked at between frames.
StopIgnoredAtFrame ==
  /\ tpc["reader"] = "stream"
  /\ stop
  /\ UNCHANGED vars

\* A frame was published and the stop flag is set: break.
StopAtFrame ==
  /\ tpc["reader"] = "stream"
  /\ stop
  /\ EndStream
  /\ UNCHANGED <<failing, linkVars, flagVars, lockVars, wireVars, boxVars,
                 callVars, pending, delivery, faults>>

\* Mutant: the cleanup clears the flag and leaves the socket to connect().
CleanupFlagOnly ==
  /\ tpc["reader"] = "cleanup"
  /\ connected' = FALSE
  /\ Goto("reader", "backoff")
  /\ UNCHANGED <<ret, failing, linkVars, stop, lockVars, wireVars, boxVars,
                 callVars, pending, delivery, faults>>

\* finally: self._connected.clear(); self.client.close().
Cleanup ==
  /\ tpc["reader"] = "cleanup"
  /\ connected' = FALSE
  /\ CallClose("reader", "backoff")
  /\ UNCHANGED <<failing, linkVars, stop, lockVars, wireVars, boxVars, callVars,
                 pending, delivery, faults>>

\* self._stop.wait(self._reconnect_delay), then the loop condition again.
Backoff ==
  /\ tpc["reader"] = "backoff"
  /\ Goto("reader", "loop")
  /\ UNCHANGED <<ret, failing, linkVars, flagVars, lockVars, wireVars, boxVars,
                 callVars, pending, delivery, faults>>

-----------------------------------------------------------------------------
(* CameraSession.close, executed by the thread that shuts the bridge down. *)

SessionClose ==
  /\ tpc["closer"] = "idle"
  /\ stop' = TRUE
  /\ CallClose("closer", "join")
  /\ UNCHANGED <<failing, linkVars, connected, lockVars, wireVars, boxVars,
                 callVars, pending, delivery, faults>>

\* thread.join(timeout=2) returns whether or not the reader has ended.
Join ==
  /\ tpc["closer"] = "join"
  /\ Goto("closer", "clear")
  /\ UNCHANGED <<ret, failing, linkVars, flagVars, lockVars, wireVars, boxVars,
                 callVars, pending, delivery, faults>>

ClearConnected ==
  /\ tpc["closer"] = "clear"
  /\ connected' = FALSE
  /\ Goto("closer", "done")
  /\ UNCHANGED <<ret, failing, linkVars, stop, lockVars, wireVars, boxVars,
                 callVars, pending, delivery, faults>>

-----------------------------------------------------------------------------
(* The calls: CameraSession._send / reboot down to CameraClient._send.     *)

\* The call ends and leaves the control lock if it holds it.
Finish(c, res) ==
  /\ pc' = [pc EXCEPT ![c] = "done"]
  /\ result' = [result EXCEPT ![c] = res]
  /\ controlLock' = IF controlLock = c THEN NoCall ELSE controlLock

\* The first _require_connected.
Invoke(c) ==
  /\ pc[c] = "idle"
  /\ checkedOn' = [checkedOn EXCEPT ![c] = conn]
  /\ IF connected
     THEN pc' = [pc EXCEPT ![c] = "lock"] /\ UNCHANGED <<result, controlLock>>
     ELSE Finish(c, "unavailable")
  /\ UNCHANGED <<threadVars, linkVars, flagVars, sendLock, wireVars, boxVars, seq,
                 sentOn, pending, delivery, faults>>

\* Mutant: nobody checks again once it holds the control lock.
EnterUnchecked(c) ==
  /\ pc[c] = "lock"
  /\ controlLock = NoCall
  /\ controlLock' = c
  /\ pc' = [pc EXCEPT ![c] = "allocate"]
  /\ UNCHANGED <<threadVars, linkVars, flagVars, sendLock, wireVars, boxVars, seq,
                 checkedOn, sentOn, result, pending, delivery, faults>>

\* A control checks again once it holds the control lock; a reboot does not.
EnterControl(c) ==
  /\ pc[c] = "lock"
  /\ controlLock = NoCall
  /\ IF c \in Reboots
     THEN /\ controlLock' = c
          /\ pc' = [pc EXCEPT ![c] = "allocate"]
          /\ UNCHANGED <<checkedOn, result>>
     ELSE /\ checkedOn' = [checkedOn EXCEPT ![c] = conn]
          /\ IF connected
             THEN /\ controlLock' = c
                  /\ pc' = [pc EXCEPT ![c] = "allocate"]
                  /\ UNCHANGED result
             ELSE Finish(c, "unavailable")
  /\ UNCHANGED <<threadVars, linkVars, flagVars, sendLock, wireVars, boxVars, seq,
                 sentOn, pending, delivery, faults>>

\* _allocate_sequence.
Allocate(c) ==
  /\ pc[c] = "allocate"
  /\ seq' = [seq EXCEPT ![c] = nextSequence]
  /\ nextSequence' = nextSequence + 1
  /\ pc' = [pc EXCEPT ![c] = IF c \in Controls THEN "register" ELSE "send"]
  /\ UNCHANGED <<threadVars, sock, conn, linkUp, flagVars, lockVars, wireVars,
                 boxVars, checkedOn, sentOn, result, pending, delivery, faults>>

Register(c) ==
  /\ pc[c] = "register"
  /\ pending' = pending \union {c}
  /\ pc' = [pc EXCEPT ![c] = "send"]
  /\ UNCHANGED <<threadVars, linkVars, flagVars, lockVars, wireVars, boxVars, seq,
                 checkedOn, sentOn, result, delivery, faults>>

\* Mutant: a failed write leaves its entry in the table.
SendRaisesLeaky(c, res) ==
  /\ Finish(c, res)
  /\ UNCHANGED pending

\* Mutant: a failed write is tried again until there is a socket.
SendRaisesRetry(c, res) ==
  /\ pc' = [pc EXCEPT ![c] = "send"]
  /\ UNCHANGED <<pending, result, controlLock>>

\* An exception out of _send: the send lock is left, a control takes its entry
\* out of the table, and the exception goes to the caller.
SendRaises(c, res) ==
  /\ pending' = pending \ {c}
  /\ Finish(c, res)

\* with self._send_lock: if self._socket is None: raise CameraError.
BeginSend(c) ==
  /\ pc[c] = "send"
  /\ sendLock = NoCall
  /\ IF sock = 0
     THEN SendRaises(c, "camera_error") /\ UNCHANGED sendLock
     ELSE /\ sendLock' = c
          /\ pc' = [pc EXCEPT ![c] = "write"]
          /\ UNCHANGED <<result, controlLock, pending>>
  /\ UNCHANGED <<threadVars, linkVars, flagVars, wireVars, boxVars, seq, checkedOn,
                 sentOn, delivery, faults>>

\* self._socket.sendall(data) on a socket that is still there.  On a link that
\* has gone the data may be accepted and lost.  send_control then waits for the
\* answer; send_command is over.
Write(c) ==
  /\ pc[c] = "write"
  /\ sock # 0
  /\ toCamera' = IF linkUp THEN toCamera \union {[call |-> c, seq |-> seq[c]]}
                           ELSE toCamera
  /\ sentOn' = [sentOn EXCEPT ![c] = sock]
  /\ sendLock' = NoCall
  /\ IF c \in Controls
     THEN pc' = [pc EXCEPT ![c] = "wait"] /\ UNCHANGED <<result, controlLock>>
     ELSE Finish(c, "ok")
  /\ UNCHANGED <<threadVars, linkVars, flagVars, toReader, applied, boxVars, seq,
                 checkedOn, pending, delivery, faults>>

\* The field became None after the check (AttributeError), the socket object was
\* closed or reset (OSError), or the write did not finish in the timeout the
\* reader last set on the shared socket (TimeoutError).
WriteFails(c) ==
  /\ pc[c] = "write"
  /\ sendLock' = NoCall
  /\ \/ sock = 0 /\ SendRaises(c, "attribute_error") /\ UNCHANGED faults
     \/ (sock = 0 \/ ~linkUp) /\ SendRaises(c, "os_error") /\ UNCHANGED faults
     \/ sock # 0 /\ linkUp /\ Fault /\ SendRaises(c, "timeout")
  /\ UNCHANGED <<threadVars, linkVars, flagVars, wireVars, boxVars, seq, checkedOn,
                 sentOn, delivery>>

\* Mutant: the response code is not looked at.
OutcomeUnchecked(c) ==
  IF error[c] THEN "camera_error"
  ELSE IF response[c] = NoAnswer THEN "no_response" ELSE "ok"

\* What send_control makes of its entry once the event is set.
Outcome(c) ==
  IF error[c] THEN "camera_error"
  ELSE IF response[c] = NoAnswer THEN "no_response"
  ELSE IF response[c].ok THEN "ok" ELSE "camera_error"

WakeUp(c) ==
  /\ pc[c] = "wait"
  /\ event[c]
  /\ pending' = pending \ {c}
  /\ Finish(c, Outcome(c))
  /\ UNCHANGED <<threadVars, linkVars, flagVars, sendLock, wireVars, boxVars, seq,
                 checkedOn, sentOn, delivery, faults>>

\* pending.event.wait(control_timeout) returns False.
ControlTimeout(c) ==
  /\ pc[c] = "wait"
  /\ ~event[c]
  /\ pending' = pending \ {c}
  /\ Finish(c, "timeout")
  /\ UNCHANGED <<threadVars, linkVars, flagVars, sendLock, wireVars, boxVars, seq,
                 checkedOn, sentOn, delivery, faults>>

-----------------------------------------------------------------------------
(* The camera and the network.                                             *)

Reply(request, ok) ==
  toReader' = IF linkUp
              THEN toReader \union {[call |-> request.call, seq |-> request.seq,
                                     ok |-> ok]}
              ELSE toReader

\* The camera carries a request out and answers with code 0.  A request it
\* never answers is one it never takes.
CameraAccepts ==
  /\ \E request \in toCamera :
       /\ toCamera' = toCamera \ {request}
       /\ applied' = applied \union {request.call}
       /\ Reply(request, TRUE)
  /\ UNCHANGED <<threadVars, linkVars, flagVars, lockVars, boxVars, callVars,
                 pending, delivery, faults>>

\* ... or answers with another code and does nothing.
CameraRejects ==
  /\ \E request \in toCamera :
       /\ toCamera' = toCamera \ {request}
       /\ Reply(request, FALSE)
  /\ UNCHANGED <<threadVars, linkVars, flagVars, lockVars, applied, boxVars,
                 callVars, pending, delivery, faults>>

\* The camera resets or closes the connection, or the network loses it.
PeerReset ==
  /\ linkUp
  /\ Fault
  /\ linkUp' = FALSE
  /\ UNCHANGED <<threadVars, sock, conn, nextSequence, flagVars, lockVars,
                 wireVars, boxVars, callVars, pending, delivery>>

-----------------------------------------------------------------------------
Close(t) == CloseCheck(t) \/ CloseSocket(t) \/ DropSocket(t) \/ FailSnapshot(t)
              \/ FailWake(t)

ReaderProgress ==
  \/ ReaderLoop \/ Dial \/ Handshake \/ HandshakeFails \/ StartAudio
  \/ StartAudioFails \/ Announce \/ BeginFrames \/ SetResponse \/ SetEvent \/ StreamFails
  \/ StopAtFrame \/ Cleanup \/ Backoff

Reader == ReaderProgress \/ DialFails \/ Heartbeat \/ ReceiveAnswer
Closer == SessionClose \/ Join \/ ClearConnected

Call(c) ==
  \/ Invoke(c) \/ EnterControl(c) \/ Allocate(c) \/ Register(c) \/ BeginSend(c)
  \/ Write(c) \/ WriteFails(c) \/ WakeUp(c) \/ ControlTimeout(c)

Environment == CameraAccepts \/ CameraRejects \/ PeerReset

\* Nothing is left to do: the session is closed and no call is open.
Quiescent ==
  /\ \A t \in Threads : tpc[t] \in Finished
  /\ \A c \in Calls : pc[c] = "done"
  /\ UNCHANGED vars

Next ==
  \/ \E t \in Threads : Close(t)
  \/ Reader
  \/ Closer
  \/ \E c \in Calls : Call(c)
  \/ Environment
  \/ Quiescent

Spec == Init /\ [][Next]_vars

\* Threads that can run do run, but no fault is ever due: the link may stay up
\* for ever, and so may the silence of the camera.
NoFault(A) == A /\ faults' = faults

ThreadFairness ==
  /\ \A t \in Threads : WF_vars(Close(t))
  /\ WF_vars(NoFault(ReaderProgress))
  /\ WF_vars(ReceiveAnswer)
  /\ WF_vars(Join \/ ClearConnected)

\* A call that has begun goes on.  Control locks are contended by finitely many
\* calls, so weak fairness is enough to get one.
CallFairness(c) ==
  WF_vars(NoFault(Call(c)) /\ pc[c] # "idle" /\ ~ControlTimeout(c))

\* Every thread runs; time may stand still, so that no control times out.
FairSpec == Spec /\ ThreadFairness /\ \A c \in Calls : CallFairness(c)

\* Time passes: the timer of a waiting control expires.
TimersExpire == \A c \in Calls : WF_vars(ControlTimeout(c))

-----------------------------------------------------------------------------
(* What must hold.                                                         *)

\* A control that waits for its answer is never forgotten: as long as its event
\* is unset, either its connection is still the current one and it is in the
\* table, or a thread is about to fail the table, is failing it, or is handing
\* it its answer (close() drops the socket before it fails the pending calls).
NoStrandedCall ==
  \A c \in Controls :
    pc[c] = "wait" /\ ~event[c] =>
      \/ /\ c \in pending
         /\ \/ sentOn[c] = sock
            \/ \E t \in Threads : tpc[t] = "failSnapshot"
      \/ \E t \in Threads : tpc[t] = "failWake" /\ c \in failing[t]
      \/ delivery.to = c

\* The table holds at most the entry of the one control that is under way: no
\* exit from send_control (failed write, timeout, answer, failure) leaves it in.
NoLeakedEntry ==
  \A c \in pending : controlLock = c /\ pc[c] \in {"send", "write", "wait"}

\* send_control's "completed without a response" cannot happen: whoever sets an
\* event has set the error or the response before, whatever it races with.
NeverWithoutAnswer == \A c \in Calls : result[c] # "no_response"

\* A control is only ever given the camera's answer to its own request, although
\* late answers to controls that timed out still arrive and the sequence numbers
\* restart with each connection.
OwnAnswer == \A c \in Calls : response[c] = NoAnswer \/ response[c].call = c

\* A control is written to the connection that was up when the session checked,
\* never to one that is still being authenticated after a reconnection.
ControlOnCheckedConnection ==
  \A c \in Controls : sentOn[c] \in {0, checkedOn[c]}

\* Once the reader and the closing thread have both ended, by whatever exit, the
\* socket is released, the session is not reported as connected, and no call
\* that was answered by nobody is still waiting without its failure.
CloseIsFinal ==
  (\A t \in Threads : tpc[t] \in Finished) =>
    /\ sock = 0 /\ ~connected
    /\ \A c \in Controls : pc[c] = "wait" => event[c]

\* The promise of the session to its callers: the calls of this module, seen
\* only by when they are open, how they end and what the camera has done.
Port == INSTANCE ControlPort WITH
  phase <- [c \in Calls |-> CASE pc[c] = "idle" -> "idle"
                               [] pc[c] = "done" -> "closed"
                               [] OTHER -> "open"],
  outcome <- [c \in Calls |-> CASE result[c] \in {"none", "ok"} -> result[c]
                                 [] result[c] = "unavailable" -> "refused"
                                 [] OTHER -> "failed"]

\* The session keeps that promise: an answer, late or early, is never taken for
\* the answer to another call, and a refused call has written nothing.
KeepsPromise == Port!Spec

\* Every call returns, whatever the camera and the connection do, if time passes.
CallsReturn ==
  TimersExpire => \A c \in Calls : (pc[c] # "idle") ~> (pc[c] = "done")

\* A control whose connection has gone is failed by the reader or the closer:
\* it does not have to sit out its timeout.
LostLinkFailsFast ==
  \A c \in Controls : (pc[c] = "wait" /\ sentOn[c] # sock) ~> (pc[c] = "done")

\* When the faults end, an open session gets its connection back and keeps it.
SessionRecovers == <>[](connected \/ stop)

\* After session.close() the reader ends and releases what it had dialled, even
\* if it was dialling while the session was being closed.
CloseEndsReader == stop ~> (tpc["reader"] \in Finished /\ sock = 0 /\ ~connected)

\* The documentation of the control API: "API errors are JSON and use 400, 401,
\* 404, 502, 503, or 504".  handle() maps TimeoutError and CameraError to these; no
\* control should therefore end with another exception.
FailuresHaveAStatus ==
  \A c \in Controls : result[c] \notin {"attribute_error", "os_error"}
=============================================================================
