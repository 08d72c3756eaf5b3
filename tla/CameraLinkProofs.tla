-------------------------- MODULE CameraLinkProofs --------------------------
(***************************************************************************)
(* Proofs that CameraLink keeps its lifecycle invariants for any number of *)
(* calls, faults, heartbeats and reconnections, also when a call stalls    *)
(* across a reconnection.  The properties are not inductive: IInv adds who *)
(* holds the control lock, what the reader and the closing thread have in  *)
(* hand at each label, and where each unanswered control is registered.    *)
(*                                                                         *)
(* The second part proves that CameraLink implements ControlPort, and that *)
(* an answer only reaches the control it answers, as long as no call       *)
(* stalls between its last check and its write for a whole reconnection.   *)
(***************************************************************************)
EXTENDS CameraLink, TLAPS

\* A call between the control lock and its result holds the lock.
LockInv ==
  \A c \in Calls :
    pc[c] \in {"allocate", "register", "send", "write", "wait"} => controlLock = c

\* Only a control that has registered and not returned is in the table.
TableInv == \A c \in pending : pc[c] \in {"send", "write", "wait"}

\* A thread has calls in hand only while it wakes them.
SnapshotInv == \A t \in Threads : tpc[t] # "failWake" => failing[t] = {}

\* The reader has an answer in hand only while it delivers it.
DeliveryInv ==
  /\ tpc["reader"] \in {"setResponse", "setEvent"} =>
       delivery.to \in Controls /\ delivery.answer \in Answers
  /\ tpc["reader"] \notin {"setResponse", "setEvent"} => delivery.to = NoCall
  /\ tpc["reader"] = "setEvent" => response[delivery.to] # NoAnswer

\* Outside a connection attempt and its stream the reader has no socket.
SocketInv ==
  /\ tpc["reader"] \in {"loop", "dial", "backoff", "done", "dead"} => sock = 0
  /\ /\ tpc["reader"] \in {"failSnapshot", "failWake"}
     /\ ret["reader"] \in {"dial", "backoff"}
     => sock = 0

\* The reader's return label, and when the session is reported as connected.
ReaderInv ==
  /\ ret["reader"] \in {"dial", "cleanup", "backoff"}
  /\ ret["closer"] = "join"
  /\ tpc["reader"] \notin {"raised", "idle", "join", "clear"}
  /\ tpc["closer"] \in Closing \union {"idle", "join", "clear", "done", "raised"}
  /\ connected => \/ tpc["reader"] \in {"begin", "stream", "setResponse",
                                        "setEvent", "cleanup"}
                  \/ tpc["reader"] \in Closing /\ ret["reader"] = "cleanup"

\* A registered control that nobody has woken is in the table, in the hands of a
\* thread that fails it, or in those of the reader that answers it.
CoverInv ==
  \A c \in Controls :
    pc[c] \in {"send", "write", "wait"} /\ ~event[c] =>
      \/ c \in pending
      \/ \E t \in Threads : c \in failing[t]
      \/ delivery.to = c

\* A waiting control was written; if its connection is no longer the current
\* one and it is still in the table, a thread is about to fail the table.
WaitInv ==
  \A c \in Controls :
    pc[c] = "wait" =>
      /\ sentOn[c] # 0
      /\ ~event[c] /\ c \in pending =>
           sentOn[c] = sock \/ \E t \in Threads : tpc[t] = "failSnapshot"

\* Whoever set an event had set an error or a response before.
EventInv ==
  \A c \in Calls :
    /\ event[c] => error[c] \/ response[c] # NoAnswer
    /\ result[c] # "no_response"

IInv ==
  /\ TypeOK /\ LockInv /\ TableInv /\ SnapshotInv /\ DeliveryInv /\ SocketInv
  /\ ReaderInv /\ CoverInv /\ WaitInv /\ EventInv

-----------------------------------------------------------------------------
(* Type correctness.                                                       *)

\* NoAnswer differs from every answer: its call is no call.
LEMMA NoAnswerIsNone == NoAnswer \notin Answers
  BY CallsAssumption DEF NoAnswer, Answers

\* The steps of CameraClient.close keep the types.
LEMMA CloseType ==
  ASSUME TypeOK, NEW t \in Threads, Close(t)
  PROVE  TypeOK'
<1> USE DEF TypeOK, threadVars, linkVars, flagVars, lockVars, wireVars, boxVars,
            callVars, Calls, Threads, Closing, Finished, Goto
<1>1. CASE CloseCheck(t)
  BY <1>1 DEF CloseCheck
<1>2. CASE CloseSocket(t)
  <2>1. CASE sock = 0
    BY <1>2, <2>1 DEF CloseSocket
  <2>2. CASE sock # 0
    <3>1. /\ tpc' = [tpc EXCEPT ![t] = "dropSocket"]
          /\ linkUp' = FALSE
          /\ UNCHANGED <<ret, failing, sock, conn, nextSequence, flagVars, lockVars,
                         wireVars, boxVars, callVars, pending, delivery, faults>>
      BY <1>2, <2>2 DEF CloseSocket
    <3> HIDE <1>2, <2>2
    <3> QED
      BY <3>1
  <2> QED
    BY <2>1, <2>2
<1>3. CASE DropSocket(t)
  BY <1>3 DEF DropSocket
<1>4. CASE FailSnapshot(t)
  BY <1>4 DEF FailSnapshot
<1>5. CASE FailWake(t)
  BY <1>5 DEF FailWake
<1> QED
  BY <1>1, <1>2, <1>3, <1>4, <1>5 DEF Close

\* The steps of the reader keep the types.
LEMMA ReaderType ==
  ASSUME TypeOK, Reader
  PROVE  TypeOK'
<1> USE BoundsAssumption
    DEF TypeOK, threadVars, linkVars, flagVars, lockVars, wireVars, boxVars,
        callVars, Calls, Threads, Closing, Finished, Goto, CallClose, Fault,
        LinkLost, EndStream
<1>1. CASE ReaderLoop
  BY <1>1 DEF ReaderLoop
<1>2. CASE Dial
  BY <1>2 DEF Dial
<1>3. CASE Handshake \/ HandshakeFails
  <2>1. CASE Handshake
    BY <2>1 DEF Handshake
  <2>2. CASE HandshakeFails
    BY <2>2 DEF HandshakeFails
  <2> QED
    BY <1>3, <2>1, <2>2
<1>4. CASE StartAudio \/ StartAudioFails
  <2>1. CASE StartAudio
    BY <2>1 DEF StartAudio
  <2>2. CASE StartAudioFails
    BY <2>2 DEF StartAudioFails
  <2> QED
    BY <1>4, <2>1, <2>2
<1>5. CASE Announce \/ BeginFrames
  <2>1. CASE Announce
    BY <2>1 DEF Announce
  <2>2. CASE BeginFrames
    BY <2>2 DEF BeginFrames
  <2> QED
    BY <1>5, <2>1, <2>2
<1>6. CASE SetResponse
  BY <1>6 DEF SetResponse
<1>7. CASE SetEvent
  BY <1>7 DEF SetEvent
<1>8. CASE StreamFails \/ StopAtFrame
  <2>1. CASE StreamFails
    BY <2>1 DEF StreamFails
  <2>2. CASE StopAtFrame
    BY <2>2 DEF StopAtFrame
  <2> QED
    BY <1>8, <2>1, <2>2
<1>9. CASE Cleanup
  BY <1>9 DEF Cleanup
<1>10. CASE Backoff \/ DialFails \/ Heartbeat
  <2>1. CASE Backoff
    BY <2>1 DEF Backoff
  <2>2. CASE DialFails
    BY <2>2 DEF DialFails
  <2>3. CASE Heartbeat
    BY <2>3 DEF Heartbeat
  <2> QED
    BY <1>10, <2>1, <2>2, <2>3
<1>11. CASE ReceiveAnswer
  BY <1>11 DEF ReceiveAnswer, Matching
<1> QED
  BY <1>1, <1>2, <1>3, <1>4, <1>5, <1>6, <1>7, <1>8, <1>9, <1>10, <1>11
  DEF Reader, ReaderProgress

\* The steps of a call keep the types.
LEMMA CallType ==
  ASSUME TypeOK, NEW c \in Calls, Call(c)
  PROVE  TypeOK'
<1> USE CallsAssumption
    DEF TypeOK, threadVars, linkVars, flagVars, lockVars, wireVars, boxVars,
        callVars, Calls, Finish, SendRaises, Results, Fault
<1>1. CASE Invoke(c)
  BY <1>1 DEF Invoke
<1>2. CASE EnterControl(c)
  BY <1>2 DEF EnterControl
<1>3. CASE Allocate(c)
  BY <1>3 DEF Allocate
<1>4. CASE Register(c)
  <2>1. c \in Controls
    BY <1>4 DEF Register
  <2> QED
    BY <1>4, <2>1 DEF Register
<1>5. CASE BeginSend(c)
  BY <1>5 DEF BeginSend
<1>6. CASE Write(c)
  BY <1>6 DEF Write, Requests
<1>7. CASE WriteFails(c)
  BY <1>7 DEF WriteFails
<1>8. CASE WakeUp(c)
  BY <1>8 DEF WakeUp, Outcome
<1>9. CASE ControlTimeout(c)
  BY <1>9 DEF ControlTimeout
<1> QED
  BY <1>1, <1>2, <1>3, <1>4, <1>5, <1>6, <1>7, <1>8, <1>9 DEF Call

\* The steps of the closing thread keep the types.
LEMMA CloserType ==
  ASSUME TypeOK, Closer
  PROVE  TypeOK'
<1> USE DEF TypeOK, threadVars, linkVars, flagVars, lockVars, wireVars, boxVars,
            callVars, Threads, Closing, Finished, Goto, CallClose
<1>1. CASE SessionClose
  BY <1>1 DEF SessionClose
<1>2. CASE Join
  BY <1>2 DEF Join
<1>3. CASE ClearConnected
  BY <1>3 DEF ClearConnected
<1> QED
  BY <1>1, <1>2, <1>3 DEF Closer

\* The steps of the camera and of the network keep the types.
LEMMA EnvironmentType ==
  ASSUME TypeOK, Environment
  PROVE  TypeOK'
<1> USE DEF TypeOK, threadVars, linkVars, flagVars, lockVars, wireVars, boxVars,
            callVars
<1>1. ASSUME NEW request \in toCamera, NEW ok \in BOOLEAN, Reply(request, ok)
      PROVE  toReader' \in SUBSET Answers
  <2>1. request.call \in Calls /\ request.seq \in Nat
    BY DEF Requests
  <2>2. [call |-> request.call, seq |-> request.seq, ok |-> ok] \in Answers
    BY <2>1 DEF Answers
  <2> QED
    BY <1>1, <2>2 DEF Reply
<1>2. CASE CameraAccepts
  <2>1. PICK request \in toCamera :
          /\ toCamera' = toCamera \ {request}
          /\ applied' = applied \union {request.call}
          /\ Reply(request, TRUE)
    BY <1>2 DEF CameraAccepts
  <2>2. request.call \in Calls
    BY DEF Requests
  <2>3. toReader' \in SUBSET Answers
    BY <1>1, <2>1
  <2> QED
    BY <1>2, <2>1, <2>2, <2>3 DEF CameraAccepts
<1>3. CASE CameraRejects
  <2>1. PICK request \in toCamera :
          /\ toCamera' = toCamera \ {request}
          /\ Reply(request, FALSE)
    BY <1>3 DEF CameraRejects
  <2>2. toReader' \in SUBSET Answers
    BY <1>1, <2>1
  <2> QED
    BY <1>3, <2>1, <2>2 DEF CameraRejects
<1>4. CASE PeerReset
  <2>1. faults' = faults + 1 /\ linkUp' = FALSE
    BY <1>4 DEF PeerReset, Fault
  <2>2. faults \in Nat
    OBVIOUS
  <2>3. faults' \in Nat
    BY ONLY <2>1, <2>2
  <2>4. linkUp' \in BOOLEAN
    BY ONLY <2>1
  <2> QED
    BY <1>4, <2>3, <2>4 DEF PeerReset
<1> QED
  BY <1>2, <1>3, <1>4 DEF Environment

\* A step is one of a thread, of a call or of the environment, or changes nothing.
LEMMA StepKinds ==
  ASSUME [Next]_vars
  PROVE  \/ \E t \in Threads : Close(t)
         \/ Reader
         \/ \E c \in Calls : Call(c)
         \/ Closer \/ Environment
         \/ UNCHANGED vars
  BY DEF Next, Quiescent

\* The initial values have their types.
LEMMA InitTypeOK == Init => TypeOK
<1> SUFFICES ASSUME Init PROVE TypeOK
  OBVIOUS
<1>1. /\ tpc \in [Threads -> {"loop", "idle"}]
      /\ ret \in [Threads -> {"dial", "join"}]
      /\ failing \in [Threads -> SUBSET Controls]
  BY DEF Init
<1>2. delivery \in [to : Controls \union {NoCall}, answer : Answers \union {NoAnswer}]
  BY DEF Init
<1>3. /\ pc = [c \in Calls |-> "idle"]
      /\ seq \in [Calls -> Nat] /\ checkedOn \in [Calls -> Nat]
      /\ sentOn \in [Calls -> Nat] /\ result \in [Calls -> Results]
  BY DEF Init, Results
<1>4. /\ event \in [Calls -> BOOLEAN] /\ error \in [Calls -> BOOLEAN]
      /\ response \in [Calls -> Answers \union {NoAnswer}]
  BY DEF Init
<1> QED
  BY <1>1, <1>2, <1>3, <1>4, BoundsAssumption DEF Init, TypeOK, Calls

\* Every step keeps the types.
LEMMA StepTypeOK == TypeOK /\ [Next]_vars => TypeOK'
<1> SUFFICES ASSUME TypeOK, [Next]_vars PROVE TypeOK'
  OBVIOUS
<1>1. CASE UNCHANGED vars
  BY <1>1 DEF TypeOK, vars, threadVars, linkVars, flagVars, lockVars, wireVars,
              boxVars, callVars
<1> QED
  BY <1>1, StepKinds, CloseType, ReaderType, CallType, CloserType, EnvironmentType

\* Every variable always holds a value of its type: in particular the table and
\* the hands of the closing threads only ever hold controls, and a reboot never
\* waits for an answer.
THEOREM TypeCorrect == Spec => []TypeOK
  BY InitTypeOK, StepTypeOK, PTL DEF Spec

-----------------------------------------------------------------------------
(* Who writes what.                                                        *)

\* Threads and the environment leave the calls and their locks alone.
LEMMA OthersLeaveCalls ==
  ASSUME \/ \E t \in Threads : Close(t)
         \/ Reader \/ Closer \/ Environment \/ UNCHANGED vars
  PROVE  UNCHANGED <<pc, seq, checkedOn, sentOn, result, sendLock, controlLock>>
<1> USE DEF vars, callVars, lockVars
<1>1. CASE \E t \in Threads : Close(t)
  BY <1>1 DEF Close, CloseCheck, CloseSocket, DropSocket, FailSnapshot, FailWake
<1>2. CASE Reader
  BY <1>2 DEF Reader, ReaderProgress, ReaderLoop, Dial, Handshake, HandshakeFails,
     StartAudio, StartAudioFails, Announce, BeginFrames, SetResponse, SetEvent,
     StreamFails, StopAtFrame, Cleanup, Backoff, DialFails, Heartbeat, ReceiveAnswer
<1>3. CASE Closer \/ Environment
  BY <1>3 DEF Closer, SessionClose, Join, ClearConnected, Environment,
     CameraAccepts, CameraRejects, PeerReset
<1> QED
  BY <1>1, <1>2, <1>3

\* Calls leave the threads, the socket and the entries' contents alone.
LEMMA CallsLeaveThreads ==
  ASSUME NEW c \in Calls, Call(c)
  PROVE  UNCHANGED <<tpc, ret, failing, sock, conn, linkUp, connected, stop,
                     delivery, event, error, response>>
  BY DEF Call, Invoke, EnterControl, Allocate, Register, BeginSend, Write,
     WriteFails, WakeUp, ControlTimeout, threadVars, linkVars, flagVars, boxVars

\* The closing thread's own steps only move it, and set the session's flags.
LEMMA CloserLeaves ==
  ASSUME TypeOK, Closer
  PROVE  /\ UNCHANGED <<failing, sock, delivery, event, error, response, pending>>
         /\ tpc'["reader"] = tpc["reader"] /\ ret'["reader"] = ret["reader"]
         /\ tpc["closer"] \in {"idle", "join", "clear"}
         /\ tpc'["closer"] \in {"closeCheck", "clear", "done"}
         /\ ret'["closer"] \in {"join", ret["closer"]}
         /\ connected' => connected
<1> USE DEF TypeOK, Threads, Goto, CallClose, flagVars, linkVars, boxVars
<1>1. CASE SessionClose
  BY <1>1 DEF SessionClose
<1>2. CASE Join
  BY <1>2 DEF Join
<1>3. CASE ClearConnected
  BY <1>3 DEF ClearConnected
<1> QED
  BY <1>1, <1>2, <1>3 DEF Closer

\* The camera and the network touch neither the threads nor the calls' entries.
LEMMA EnvironmentLeaves ==
  ASSUME Environment \/ UNCHANGED vars
  PROVE  UNCHANGED <<tpc, ret, failing, sock, connected, delivery, event, error,
                     response, pending>>
  BY DEF Environment, CameraAccepts, CameraRejects, PeerReset, vars, threadVars,
     linkVars, flagVars, boxVars

-----------------------------------------------------------------------------
(* The parts of the inductive invariant, one lemma for each.               *)

\* Only the holder of the control lock moves past it.
LEMMA LockStep ==
  ASSUME TypeOK, LockInv, [Next]_vars
  PROVE  LockInv'
<1>1. ASSUME NEW c \in Calls, Call(c)
      PROVE  LockInv'
  <2> USE CallsAssumption DEF LockInv, TypeOK, Finish, SendRaises, lockVars
  <2>1. CASE Invoke(c)
    BY <2>1 DEF Invoke
  <2>2. CASE EnterControl(c)
    BY <2>2 DEF EnterControl
  <2>3. CASE Allocate(c)
    BY <2>3 DEF Allocate
  <2>4. CASE Register(c)
    BY <2>4 DEF Register
  <2>5. CASE BeginSend(c)
    BY <2>5 DEF BeginSend
  <2>6. CASE Write(c)
    BY <2>6 DEF Write
  <2>7. CASE WriteFails(c)
    BY <2>7 DEF WriteFails
  <2>8. CASE WakeUp(c) \/ ControlTimeout(c)
    BY <2>8 DEF WakeUp, ControlTimeout
  <2> QED
    BY <1>1, <2>1, <2>2, <2>3, <2>4, <2>5, <2>6, <2>7, <2>8 DEF Call
<1>2. CASE UNCHANGED <<pc, controlLock>>
  BY <1>2 DEF LockInv
<1> QED
  BY <1>1, <1>2, StepKinds, OthersLeaveCalls

\* An entry leaves the table before or when its call returns.
LEMMA TableStep ==
  ASSUME TypeOK, TableInv, [Next]_vars
  PROVE  TableInv'
<1>1. ASSUME NEW c \in Calls, Call(c)
      PROVE  TableInv'
  <2> USE DEF TableInv, TypeOK, Finish, SendRaises, Calls
  <2>1. CASE Invoke(c)
    BY <2>1 DEF Invoke
  <2>2. CASE EnterControl(c)
    BY <2>2 DEF EnterControl
  <2>3. CASE Allocate(c)
    BY <2>3 DEF Allocate
  <2>4. CASE Register(c)
    BY <2>4 DEF Register
  <2>5. CASE BeginSend(c)
    BY <2>5 DEF BeginSend
  <2>6. CASE Write(c)
    BY <2>6 DEF Write
  <2>7. CASE WriteFails(c)
    BY <2>7 DEF WriteFails
  <2>8. CASE WakeUp(c) \/ ControlTimeout(c)
    BY <2>8 DEF WakeUp, ControlTimeout
  <2> QED
    BY <1>1, <2>1, <2>2, <2>3, <2>4, <2>5, <2>6, <2>7, <2>8 DEF Call
<1>2. ASSUME pending' \in SUBSET pending, UNCHANGED pc
      PROVE  TableInv'
  BY <1>2 DEF TableInv
<1>3. ASSUME NEW t \in Threads, Close(t)
      PROVE  pending' \in SUBSET pending
  BY <1>3 DEF Close, CloseCheck, CloseSocket, DropSocket, FailSnapshot, FailWake
<1>4. ASSUME Reader
      PROVE  pending' = pending
  BY <1>4 DEF Reader, ReaderProgress, ReaderLoop, Dial, Handshake, HandshakeFails,
     StartAudio, StartAudioFails, Announce, BeginFrames, SetResponse, SetEvent,
     StreamFails, StopAtFrame, Cleanup, Backoff, DialFails, Heartbeat, ReceiveAnswer
<1> QED
  BY <1>1, <1>2, <1>3, <1>4, StepKinds, OthersLeaveCalls, CloserLeaves,
     EnvironmentLeaves

\* A thread that stops waking calls has none left.
LEMMA SnapshotStep ==
  ASSUME TypeOK, SnapshotInv, [Next]_vars
  PROVE  SnapshotInv'
<1> USE DEF SnapshotInv, TypeOK, Threads, Goto, CallClose
<1>1. ASSUME NEW t \in Threads, Close(t)
      PROVE  SnapshotInv'
  <2>1. CASE CloseCheck(t) \/ CloseSocket(t) \/ DropSocket(t)
    BY <2>1 DEF CloseCheck, CloseSocket, DropSocket
  <2>2. CASE FailSnapshot(t)
    BY <2>2 DEF FailSnapshot
  <2>3. CASE FailWake(t)
    BY <2>3 DEF FailWake
  <2> QED
    BY <1>1, <2>1, <2>2, <2>3 DEF Close
<1>2. ASSUME Reader
      PROVE  SnapshotInv'
  <2>1. /\ UNCHANGED failing
        /\ tpc'["closer"] = tpc["closer"]
        /\ tpc["reader"] = "failWake" => FALSE
    BY <1>2 DEF Reader, ReaderProgress, ReaderLoop, Dial, Handshake, HandshakeFails,
       StartAudio, StartAudioFails, Announce, BeginFrames, SetResponse, SetEvent,
       StreamFails, StopAtFrame, Cleanup, Backoff, DialFails, Heartbeat,
       ReceiveAnswer, EndStream, threadVars
  <2> QED
    BY <2>1
<1>3. ASSUME Closer
      PROVE  SnapshotInv'
  BY <1>3, CloserLeaves
<1>4. CASE UNCHANGED <<tpc, failing>>
  BY <1>4
<1> QED
  BY <1>1, <1>2, <1>3, <1>4, StepKinds, CallsLeaveThreads, EnvironmentLeaves

\* The reader only sets an event after the response.
LEMMA DeliveryStep ==
  ASSUME TypeOK, DeliveryInv, [Next]_vars
  PROVE  DeliveryInv'
<1> USE DEF DeliveryInv, TypeOK, Threads, Goto, CallClose, boxVars, Calls
<1>1. ASSUME NEW t \in Threads, Close(t)
      PROVE  DeliveryInv'
  <2>1. CASE CloseCheck(t) \/ CloseSocket(t) \/ DropSocket(t)
    BY <2>1 DEF CloseCheck, CloseSocket, DropSocket
  <2>2. CASE FailSnapshot(t)
    BY <2>2 DEF FailSnapshot
  <2>3. CASE FailWake(t)
    BY <2>3 DEF FailWake
  <2> QED
    BY <1>1, <2>1, <2>2, <2>3 DEF Close
<1>2. CASE SetResponse
  BY <1>2, NoAnswerIsNone DEF SetResponse
<1>3. CASE SetEvent
  BY <1>3, CallsAssumption DEF SetEvent
<1>4. CASE ReceiveAnswer
  BY <1>4 DEF ReceiveAnswer, Matching
<1>5. ASSUME Reader, ~SetResponse, ~SetEvent, ~ReceiveAnswer
      PROVE  DeliveryInv'
  BY <1>5 DEF Reader, ReaderProgress, ReaderLoop, Dial, Handshake, HandshakeFails,
     StartAudio, StartAudioFails, Announce, BeginFrames, StreamFails, StopAtFrame,
     Cleanup, Backoff, DialFails, Heartbeat, EndStream, threadVars
<1>6. ASSUME Closer
      PROVE  DeliveryInv'
  BY <1>6, CloserLeaves
<1>7. CASE UNCHANGED <<tpc, delivery, response>>
  BY <1>7
<1> QED
  BY <1>1, <1>2, <1>3, <1>4, <1>5, <1>6, <1>7, StepKinds, CallsLeaveThreads,
     EnvironmentLeaves

\* The session is reported as connected only while it streams or ends a stream.
LEMMA ReaderStep ==
  ASSUME TypeOK, ReaderInv, [Next]_vars
  PROVE  ReaderInv'
<1> USE DEF ReaderInv, TypeOK, Threads, Closing, Goto, CallClose, flagVars
<1>1. ASSUME NEW t \in Threads, Close(t)
      PROVE  ReaderInv'
  <2>1. CASE CloseCheck(t)
    BY <2>1 DEF CloseCheck
  <2>2. CASE CloseSocket(t)
    BY <2>2 DEF CloseSocket
  <2>3. CASE DropSocket(t)
    BY <2>3 DEF DropSocket
  <2>4. CASE FailSnapshot(t)
    BY <2>4 DEF FailSnapshot
  <2>5. CASE FailWake(t)
    BY <2>5 DEF FailWake
  <2> QED
    BY <1>1, <2>1, <2>2, <2>3, <2>4, <2>5 DEF Close
<1>2. ASSUME Reader
      PROVE  ReaderInv'
  <2>1. CASE ReaderLoop \/ Dial \/ Handshake \/ HandshakeFails
    BY <2>1 DEF ReaderLoop, Dial, Handshake, HandshakeFails
  <2>2. CASE StartAudio \/ StartAudioFails \/ Announce \/ BeginFrames
    BY <2>2 DEF StartAudio, StartAudioFails, Announce, BeginFrames
  <2>3. CASE SetResponse \/ SetEvent \/ Heartbeat \/ ReceiveAnswer
    BY <2>3 DEF SetResponse, SetEvent, Heartbeat, ReceiveAnswer, threadVars
  <2>4. CASE StreamFails \/ StopAtFrame \/ Cleanup \/ Backoff \/ DialFails
    BY <2>4 DEF StreamFails, StopAtFrame, Cleanup, Backoff, DialFails, EndStream
  <2> QED
    BY <1>2, <2>1, <2>2, <2>3, <2>4 DEF Reader, ReaderProgress
<1>3. ASSUME Closer
      PROVE  ReaderInv'
  BY <1>3, CloserLeaves
<1>4. CASE UNCHANGED <<tpc, ret, connected>>
  BY <1>4
<1> QED
  BY <1>1, <1>2, <1>3, <1>4, StepKinds, CallsLeaveThreads, EnvironmentLeaves

\* Only a dial gives the client a socket.
LEMMA SocketStep ==
  ASSUME TypeOK, ReaderInv, SocketInv, [Next]_vars
  PROVE  SocketInv'
<1> USE DEF SocketInv, TypeOK, Threads, Goto, CallClose, linkVars
<1>1. ASSUME NEW t \in Threads, Close(t)
      PROVE  SocketInv'
  <2>1. CASE CloseCheck(t)
    BY <2>1 DEF CloseCheck
  <2>2. CASE CloseSocket(t)
    BY <2>2 DEF CloseSocket
  <2>3. CASE DropSocket(t)
    BY <2>3 DEF DropSocket
  <2>4. CASE FailSnapshot(t)
    BY <2>4 DEF FailSnapshot, ReaderInv
  <2>5. CASE FailWake(t)
    BY <2>5 DEF FailWake, ReaderInv
  <2> QED
    BY <1>1, <2>1, <2>2, <2>3, <2>4, <2>5 DEF Close
<1>2. ASSUME Reader
      PROVE  SocketInv'
  <2>1. CASE ReaderLoop \/ Dial \/ Handshake \/ HandshakeFails
    BY <2>1 DEF ReaderLoop, Dial, Handshake, HandshakeFails
  <2>2. CASE StartAudio \/ StartAudioFails \/ Announce \/ BeginFrames
    BY <2>2 DEF StartAudio, StartAudioFails, Announce, BeginFrames
  <2>3. CASE SetResponse \/ SetEvent \/ Heartbeat \/ ReceiveAnswer
    BY <2>3 DEF SetResponse, SetEvent, Heartbeat, ReceiveAnswer, threadVars
  <2>4. CASE StreamFails \/ StopAtFrame \/ Cleanup \/ Backoff \/ DialFails
    BY <2>4 DEF StreamFails, StopAtFrame, Cleanup, Backoff, DialFails, EndStream
  <2> QED
    BY <1>2, <2>1, <2>2, <2>3, <2>4 DEF Reader, ReaderProgress
<1>3. ASSUME Closer
      PROVE  SocketInv'
  BY <1>3, CloserLeaves
<1>4. CASE UNCHANGED <<tpc, ret, sock>>
  BY <1>4
<1> QED
  BY <1>1, <1>2, <1>3, <1>4, StepKinds, CallsLeaveThreads, EnvironmentLeaves

\* Nobody drops a registered control before setting its event.
LEMMA CoverStep ==
  ASSUME TypeOK, SnapshotInv, DeliveryInv, CoverInv, [Next]_vars
  PROVE  CoverInv'
<1> USE DEF CoverInv, TypeOK, Threads, Goto, CallClose, boxVars, Calls
<1>1. ASSUME NEW t \in Threads, Close(t)
      PROVE  CoverInv'
  <2>1. UNCHANGED pc
    BY <1>1, OthersLeaveCalls
  <2>2. CASE CloseCheck(t) \/ CloseSocket(t) \/ DropSocket(t)
    BY <2>1, <2>2 DEF CloseCheck, CloseSocket, DropSocket
  <2>3. CASE FailSnapshot(t)
    BY <2>1, <2>3 DEF FailSnapshot, SnapshotInv
  <2>4. CASE FailWake(t)
    BY <2>1, <2>4 DEF FailWake
  <2> QED
    BY <1>1, <2>2, <2>3, <2>4 DEF Close
<1>2. ASSUME Reader
      PROVE  CoverInv'
  <2>1. UNCHANGED pc
    BY <1>2, OthersLeaveCalls
  <2>2. CASE SetEvent
    BY <2>1, <2>2 DEF SetEvent, DeliveryInv, threadVars
  <2>3. CASE ReceiveAnswer
    BY <2>1, <2>3, CallsAssumption DEF ReceiveAnswer, DeliveryInv, threadVars
  <2>4. ASSUME Reader, ~SetEvent, ~ReceiveAnswer
        PROVE  UNCHANGED <<failing, pending, event, delivery>>
    BY <2>4 DEF Reader, ReaderProgress, ReaderLoop, Dial, Handshake, HandshakeFails,
       StartAudio, StartAudioFails, Announce, BeginFrames, SetResponse, StreamFails,
       StopAtFrame, Cleanup, Backoff, DialFails, Heartbeat, threadVars
  <2> QED
    BY <1>2, <2>1, <2>2, <2>3, <2>4
<1>3. ASSUME NEW c \in Calls, Call(c)
      PROVE  CoverInv'
  <2>1. UNCHANGED <<failing, event, delivery>>
    BY <1>3, CallsLeaveThreads
  <2> USE <2>1 DEF Finish, SendRaises
  <2>2. CASE Invoke(c) \/ EnterControl(c)
    BY <2>2 DEF Invoke, EnterControl
  <2>3. CASE Allocate(c)
    BY <2>3, CallsAssumption DEF Allocate
  <2>4. CASE Register(c)
    BY <2>4 DEF Register
  <2>5. CASE BeginSend(c)
    BY <2>5 DEF BeginSend
  <2>6. CASE Write(c)
    BY <2>6 DEF Write
  <2>7. CASE WriteFails(c)
    BY <2>7 DEF WriteFails
  <2>8. CASE WakeUp(c) \/ ControlTimeout(c)
    BY <2>8 DEF WakeUp, ControlTimeout
  <2> QED
    BY <1>3, <2>2, <2>3, <2>4, <2>5, <2>6, <2>7, <2>8 DEF Call
<1>4. CASE UNCHANGED <<pc, failing, pending, event, delivery>>
  BY <1>4
<1> QED
  BY <1>1, <1>2, <1>3, <1>4, StepKinds, OthersLeaveCalls, CloserLeaves,
     EnvironmentLeaves

\* Whoever takes a socket away goes on to fail the table.
LEMMA WaitStep ==
  ASSUME TypeOK, SocketInv, WaitInv, [Next]_vars
  PROVE  WaitInv'
<1> USE DEF WaitInv, TypeOK, Threads, Goto, CallClose, Calls
<1>1. ASSUME NEW t \in Threads, Close(t)
      PROVE  WaitInv'
  <2>1. UNCHANGED <<pc, sentOn>>
    BY <1>1, OthersLeaveCalls
  <2>2. CASE CloseCheck(t)
    BY <2>1, <2>2 DEF CloseCheck, linkVars, boxVars
  <2>3. CASE CloseSocket(t)
    BY <2>1, <2>3 DEF CloseSocket, boxVars
  <2>4. CASE DropSocket(t)
    BY <2>1, <2>4 DEF DropSocket, boxVars
  <2>5. CASE FailSnapshot(t)
    BY <2>1, <2>5 DEF FailSnapshot
  <2>6. CASE FailWake(t)
    BY <2>1, <2>6 DEF FailWake, linkVars
  <2> QED
    BY <1>1, <2>2, <2>3, <2>4, <2>5, <2>6 DEF Close
<1>2. ASSUME Reader
      PROVE  WaitInv'
  <2>1. UNCHANGED <<pc, sentOn>>
    BY <1>2, OthersLeaveCalls
  <2>2. CASE Dial
    BY <2>1, <2>2 DEF Dial, SocketInv, boxVars
  <2>3. CASE SetEvent
    BY <2>1, <2>3 DEF SetEvent, linkVars
  <2>4. ASSUME ~Dial, ~SetEvent
        PROVE  /\ UNCHANGED <<sock, pending, event>>
               /\ tpc["reader"] # "failSnapshot"
               /\ tpc'["closer"] = tpc["closer"]
    BY <1>2, <2>4 DEF Reader, ReaderProgress, ReaderLoop, Handshake, HandshakeFails,
       StartAudio, StartAudioFails, Announce, BeginFrames, SetResponse, StreamFails,
       StopAtFrame, Cleanup, Backoff, DialFails, Heartbeat, ReceiveAnswer, EndStream,
       threadVars, linkVars, boxVars
  <2> QED
    BY <2>1, <2>2, <2>3, <2>4
<1>3. ASSUME NEW c \in Calls, Call(c)
      PROVE  WaitInv'
  <2>1. UNCHANGED <<tpc, sock, event>>
    BY <1>3, CallsLeaveThreads
  <2> USE <2>1 DEF Finish, SendRaises
  <2>2. CASE Invoke(c) \/ EnterControl(c)
    BY <2>2 DEF Invoke, EnterControl
  <2>3. CASE Allocate(c)
    BY <2>3 DEF Allocate
  <2>4. CASE Register(c)
    BY <2>4 DEF Register
  <2>5. CASE BeginSend(c)
    BY <2>5 DEF BeginSend
  <2>6. CASE Write(c)
    BY <2>6 DEF Write
  <2>7. CASE WriteFails(c)
    BY <2>7 DEF WriteFails
  <2>8. CASE WakeUp(c) \/ ControlTimeout(c)
    BY <2>8 DEF WakeUp, ControlTimeout
  <2> QED
    BY <1>3, <2>2, <2>3, <2>4, <2>5, <2>6, <2>7, <2>8 DEF Call
<1>4. ASSUME Closer
      PROVE  WaitInv'
  <2>1. UNCHANGED <<pc, sentOn>>
    BY <1>4, OthersLeaveCalls
  <2> QED
    BY <1>4, <2>1, CloserLeaves
<1>5. CASE UNCHANGED <<pc, sentOn, tpc, sock, pending, event>>
  BY <1>5
<1> QED
  BY <1>1, <1>2, <1>3, <1>4, <1>5, StepKinds, OthersLeaveCalls, EnvironmentLeaves

\* The error or the response of an entry precedes its event.
LEMMA EventStep ==
  ASSUME TypeOK, DeliveryInv, EventInv, [Next]_vars
  PROVE  EventInv'
<1> USE DEF EventInv, TypeOK, Threads, Calls
<1>1. ASSUME NEW t \in Threads, Close(t)
      PROVE  EventInv'
  <2>1. UNCHANGED result
    BY <1>1, OthersLeaveCalls
  <2>2. CASE FailWake(t)
    BY <2>1, <2>2 DEF FailWake
  <2>3. ASSUME ~FailWake(t)
        PROVE  UNCHANGED <<event, error, response>>
    BY <1>1, <2>3 DEF Close, CloseCheck, CloseSocket, DropSocket, FailSnapshot, boxVars
  <2> QED
    BY <2>1, <2>2, <2>3
<1>2. ASSUME Reader
      PROVE  EventInv'
  <2>1. UNCHANGED result
    BY <1>2, OthersLeaveCalls
  <2>2. CASE SetResponse
    BY <2>1, <2>2, NoAnswerIsNone DEF SetResponse, DeliveryInv
  <2>3. CASE SetEvent
    BY <2>1, <2>3 DEF SetEvent, DeliveryInv
  <2>4. ASSUME ~SetResponse, ~SetEvent
        PROVE  UNCHANGED <<event, error, response>>
    BY <1>2, <2>4 DEF Reader, ReaderProgress, ReaderLoop, Dial, Handshake,
       HandshakeFails, StartAudio, StartAudioFails, Announce, BeginFrames,
       StreamFails, StopAtFrame, Cleanup, Backoff, DialFails, Heartbeat,
       ReceiveAnswer, boxVars
  <2> QED
    BY <2>1, <2>2, <2>3, <2>4
<1>3. ASSUME NEW c \in Calls, Call(c)
      PROVE  EventInv'
  <2>1. UNCHANGED <<event, error, response>>
    BY <1>3, CallsLeaveThreads
  <2> USE <2>1 DEF Finish, SendRaises
  <2>2. CASE Invoke(c) \/ EnterControl(c)
    BY <2>2 DEF Invoke, EnterControl
  <2>3. CASE Allocate(c) \/ Register(c)
    BY <2>3 DEF Allocate, Register
  <2>4. CASE BeginSend(c) \/ Write(c)
    BY <2>4 DEF BeginSend, Write
  <2>5. CASE WriteFails(c)
    BY <2>5 DEF WriteFails
  <2>6. CASE WakeUp(c)
    BY <2>6 DEF WakeUp, Outcome
  <2>7. CASE ControlTimeout(c)
    BY <2>7 DEF ControlTimeout
  <2> QED
    BY <1>3, <2>2, <2>3, <2>4, <2>5, <2>6, <2>7 DEF Call
<1>4. CASE UNCHANGED <<result, event, error, response>>
  BY <1>4
<1> QED
  BY <1>1, <1>2, <1>3, <1>4, StepKinds, OthersLeaveCalls, CloserLeaves,
     EnvironmentLeaves

-----------------------------------------------------------------------------
(* The inductive invariant and what follows from it.                       *)

\* The inductive invariant holds initially.
LEMMA InitIInv == Init => IInv
<1> SUFFICES ASSUME Init PROVE IInv
  OBVIOUS
<1>1. TypeOK
  BY InitTypeOK
<1>2. LockInv /\ TableInv /\ CoverInv /\ WaitInv /\ EventInv
  BY CallsAssumption
  DEF Init, LockInv, TableInv, CoverInv, WaitInv, EventInv, Calls
<1>3. SnapshotInv /\ DeliveryInv /\ SocketInv /\ ReaderInv
  BY DEF Init, SnapshotInv, DeliveryInv, SocketInv, ReaderInv, Threads, Closing
<1> QED
  BY <1>1, <1>2, <1>3 DEF IInv

\* Every step keeps the inductive invariant.
LEMMA StepIInv == IInv /\ [Next]_vars => IInv'
  BY StepTypeOK, LockStep, TableStep, SnapshotStep, DeliveryStep, SocketStep,
     ReaderStep, CoverStep, WaitStep, EventStep
  DEF IInv

\* The inductive invariant always holds.
LEMMA Invariance == Spec => []IInv
  BY InitIInv, StepIInv, PTL DEF Spec

\* A control that waits for its answer is never forgotten, however many calls,
\* resets, reconnections and closes it races with.
THEOREM NothingStranded == Spec => []NoStrandedCall
<1>1. IInv => NoStrandedCall
  BY DEF IInv, TypeOK, SnapshotInv, CoverInv, WaitInv, NoStrandedCall
<1> QED
  BY <1>1, Invariance, PTL

\* The table only ever holds the entry of the control that has the lock.
THEOREM NothingLeaked == Spec => []NoLeakedEntry
<1>1. IInv => NoLeakedEntry
  BY DEF IInv, TypeOK, LockInv, TableInv, NoLeakedEntry, Calls
<1> QED
  BY <1>1, Invariance, PTL

\* An event is never set before the error or the response it announces.
THEOREM AlwaysAnswered == Spec => []NeverWithoutAnswer
<1>1. IInv => NeverWithoutAnswer
  BY DEF IInv, EventInv, NeverWithoutAnswer
<1> QED
  BY <1>1, Invariance, PTL

\* When both threads have ended the connection is released for good and every
\* control that still waits has had its event set.
THEOREM CloseReleases == Spec => []CloseIsFinal
<1>1. IInv => CloseIsFinal
  <2> SUFFICES ASSUME IInv, \A t \in Threads : tpc[t] \in Finished
               PROVE  /\ sock = 0 /\ ~connected
                      /\ \A c \in Controls : pc[c] = "wait" => event[c]
    BY DEF CloseIsFinal
  <2>1. tpc["reader"] \in {"done", "dead"}
    BY DEF IInv, ReaderInv, Threads, Finished
  <2>2. sock = 0 /\ ~connected
    BY <2>1 DEF IInv, SocketInv, ReaderInv, Closing
  <2>3. \A t \in Threads : failing[t] = {} /\ tpc[t] # "failSnapshot"
    BY DEF IInv, SnapshotInv, Finished
  <2>4. delivery.to = NoCall
    BY <2>1 DEF IInv, DeliveryInv
  <2> QED
    BY <2>2, <2>3, <2>4, CallsAssumption DEF IInv, CoverInv, WaitInv, Calls
<1> QED
  BY <1>1, Invariance, PTL

-----------------------------------------------------------------------------
(* What the session promises its callers (ControlPort).  The proof keeps   *)
(* track of the connection each call belongs to: the sequence numbers of   *)
(* one connection are distinct, and a control that waits on an earlier     *)
(* one has, by its lock, kept every other call off the later ones.         *)

\* The assumption: no reconnection fits between a call's check and its write.
NoStall == StallAcrossReconnect = FALSE

\* The socket is the latest connection or none; a link that is up has a socket.
LatestInv ==
  /\ sock \in {0, conn}
  /\ linkUp => sock # 0

\* A call that has written is past its write, was not refused, and has no
\* result before it is over.
SentInv ==
  \A c \in Calls :
    /\ sentOn[c] <= conn
    /\ sentOn[c] # 0 => pc[c] \in {"wait", "done"} /\ result[c] # "unavailable"
    /\ pc[c] # "done" => result[c] = "none"

\* Between its check and its write a control sees no reconnection.
CheckedInv ==
  \A c \in Controls :
    /\ pc[c] \in {"allocate", "register", "send", "write"} => checkedOn[c] = conn
    /\ sentOn[c] \in {0, checkedOn[c]}

\* While a control waits, no call is written to a later connection.
LockedOutInv ==
  \A c, d \in Calls : pc[c] = "wait" => sentOn[d] <= sentOn[c]

\* The number of a call is one of the current connection.
Fresh(c) ==
  \/ pc[c] \in {"register", "send", "write"}
  \/ sentOn[c] = conn /\ conn # 0

\* The numbers given out on one connection are distinct.
NumbersInv ==
  \A c \in Calls :
    Fresh(c) =>
      /\ seq[c] < nextSequence
      /\ \A d \in Calls : Fresh(d) /\ seq[d] = seq[c] => d = c

\* What is under way was written to the current connection with the number of
\* its call, and is a request not carried out yet or an answer to one that was.
WireInv ==
  /\ \A m \in toCamera \union toReader :
       sentOn[m.call] = conn /\ conn # 0 /\ m.seq = seq[m.call]
  /\ \A m \in toCamera : m.call \notin applied
  /\ \A m \in toReader : m.ok => m.call \in applied
  /\ \A c \in applied : sentOn[c] # 0

\* The answer a call is given is its own, and success means it was carried out.
GivenInv ==
  /\ delivery.to # NoCall =>
       /\ delivery.answer.call = delivery.to
       /\ delivery.answer.ok => delivery.to \in applied
  /\ \A c \in Calls :
       response[c] # NoAnswer =>
         /\ response[c].call = c
         /\ response[c].ok => c \in applied

\* A control that reports success was carried out.
SuccessInv == \A c \in Controls : result[c] = "ok" => c \in applied

PromiseInv ==
  /\ LatestInv /\ SentInv /\ CheckedInv /\ LockedOutInv /\ NumbersInv
  /\ WireInv /\ GivenInv /\ SuccessInv

-----------------------------------------------------------------------------
(* Who writes what.                                                        *)

\* The steps that are not those of a call.
OtherStep ==
  (\E t \in Threads : Close(t)) \/ Reader \/ Closer \/ Environment \/ UNCHANGED vars

\* A step is one of a call or another one.
LEMMA CallOrOther ==
  ASSUME [Next]_vars
  PROVE  (\E c \in Calls : Call(c)) \/ OtherStep
  BY StepKinds DEF OtherStep

\* Other steps leave what the calls keep about themselves alone.
LEMMA OthersKeepCalls ==
  ASSUME OtherStep
  PROVE  UNCHANGED <<pc, seq, checkedOn, sentOn, result, sendLock, controlLock>>
  BY OthersLeaveCalls DEF OtherStep

\* Only a dial changes the connection, and only a heartbeat takes a number.
LEMMA OthersKeepConnection ==
  ASSUME TypeOK, OtherStep, ~Dial
  PROVE  conn' = conn /\ nextSequence' \in {nextSequence, nextSequence + 1}
<1> USE DEF vars, linkVars
<1>1. CASE \E t \in Threads : Close(t)
  BY <1>1 DEF Close, CloseCheck, CloseSocket, DropSocket, FailSnapshot, FailWake
<1>2. CASE Reader
  BY <1>2 DEF Reader, ReaderProgress, ReaderLoop, Handshake, HandshakeFails,
     StartAudio, StartAudioFails, Announce, BeginFrames, SetResponse, SetEvent,
     StreamFails, StopAtFrame, Cleanup, Backoff, DialFails, Heartbeat, ReceiveAnswer
<1>3. CASE Closer \/ Environment
  BY <1>3 DEF Closer, SessionClose, Join, ClearConnected, Environment,
     CameraAccepts, CameraRejects, PeerReset
<1>4. CASE UNCHANGED vars
  BY <1>4
<1> QED
  BY <1>1, <1>2, <1>3, <1>4 DEF OtherStep

\* A dial takes the next connection, empties the wire and, without stalls, finds
\* no call between its check and its write.
LEMMA DialFindsNobody ==
  ASSUME NoStall, TypeOK, Dial
  PROVE  /\ conn' = conn + 1
         /\ toCamera' = {} /\ toReader' = {}
         /\ UNCHANGED <<pc, seq, checkedOn, sentOn, result, applied, delivery,
                        response, pending>>
         /\ \A c \in Calls : pc[c] \notin {"allocate", "register", "send", "write"}
  BY DEF NoStall, Dial, Stalled, callVars, boxVars

\* The steps of a call write to the wire only a request, when the call writes it.
LEMMA CallsLeaveWire ==
  ASSUME TypeOK, NEW c \in Calls, Call(c)
  PROVE  /\ UNCHANGED <<conn, sock, linkUp, toReader, applied, delivery, response>>
         /\ Write(c) \/ UNCHANGED <<toCamera, sentOn>>
         /\ Allocate(c) \/ UNCHANGED <<seq, nextSequence>>
         /\ \A d \in Calls : d # c => /\ pc'[d] = pc[d] /\ seq'[d] = seq[d]
                                      /\ sentOn'[d] = sentOn[d]
                                      /\ checkedOn'[d] = checkedOn[d]
                                      /\ result'[d] = result[d]
<1> USE DEF TypeOK, linkVars, wireVars, boxVars, callVars, Finish, SendRaises
<1>1. CASE Invoke(c) \/ EnterControl(c)
  BY <1>1 DEF Invoke, EnterControl
<1>2. CASE Allocate(c) \/ Register(c)
  BY <1>2 DEF Allocate, Register
<1>3. CASE BeginSend(c) \/ Write(c)
  BY <1>3 DEF BeginSend, Write
<1>4. CASE WriteFails(c)
  BY <1>4 DEF WriteFails
<1>5. CASE WakeUp(c) \/ ControlTimeout(c)
  BY <1>5 DEF WakeUp, ControlTimeout
<1> QED
  BY <1>1, <1>2, <1>3, <1>4, <1>5 DEF Call

-----------------------------------------------------------------------------
(* The parts of the invariant, one lemma for each.                         *)

\* The client's socket is only ever the latest connection.
LEMMA LatestStep ==
  ASSUME TypeOK, LatestInv, [Next]_vars
  PROVE  LatestInv'
<1> USE DEF LatestInv, linkVars
<1>1. ASSUME NEW t \in Threads, Close(t)
      PROVE  LatestInv'
  BY <1>1 DEF Close, CloseCheck, CloseSocket, DropSocket, FailSnapshot, FailWake
<1>2. CASE Dial
  <2>1. conn \in Nat /\ conn' = conn + 1 /\ sock' = conn + 1
    BY <1>2 DEF Dial, TypeOK
  <2> QED
    BY <2>1
<1>3. ASSUME Reader, ~Dial
      PROVE  LatestInv'
  BY <1>3 DEF Reader, ReaderProgress, ReaderLoop, Handshake, HandshakeFails,
     StartAudio, StartAudioFails, Announce, BeginFrames, SetResponse, SetEvent,
     StreamFails, StopAtFrame, Cleanup, Backoff, DialFails, Heartbeat, ReceiveAnswer
<1>4. CASE Closer \/ Environment \/ UNCHANGED vars
  <2>1. CASE Closer \/ UNCHANGED vars
    BY <2>1 DEF Closer, SessionClose, Join, ClearConnected, vars
  <2>2. CASE CameraAccepts \/ CameraRejects
    <3>1. UNCHANGED <<sock, conn, linkUp>>
      BY <2>2 DEF CameraAccepts, CameraRejects
    <3> QED
      BY <3>1
  <2>3. CASE PeerReset
    <3>1. sock' = sock /\ conn' = conn /\ linkUp' = FALSE
      BY <2>3 DEF PeerReset
    <3> QED
      BY <3>1
  <2> QED
    BY <1>4, <2>1, <2>2, <2>3 DEF Environment
<1>5. ASSUME NEW c \in Calls, Call(c)
      PROVE  LatestInv'
  BY <1>5, CallsLeaveWire
<1> QED
  BY <1>1, <1>2, <1>3, <1>4, <1>5, StepKinds

\* A call writes once, on the latest connection, and has its result at its end.
LEMMA SentStep ==
  ASSUME NoStall, TypeOK, LatestInv, SentInv, [Next]_vars
  PROVE  SentInv'
<1> USE DEF SentInv, TypeOK
<1>1. ASSUME NEW c \in Calls, Call(c)
      PROVE  SentInv'
  <2>1. conn' = conn
    BY <1>1, CallsLeaveWire
  <2>2. \A d \in Calls : d # c => pc'[d] = pc[d] /\ sentOn'[d] = sentOn[d]
                                    /\ result'[d] = result[d]
    BY <1>1, CallsLeaveWire
  <2>3. /\ sentOn'[c] <= conn
        /\ sentOn'[c] # 0 => pc'[c] \in {"wait", "done"} /\ result'[c] # "unavailable"
        /\ pc'[c] # "done" => result'[c] = "none"
    <3> USE DEF Finish, SendRaises
    <3>1. CASE Invoke(c)
      BY <3>1 DEF Invoke
    <3>2. CASE EnterControl(c)
      BY <3>2 DEF EnterControl
    <3>3. CASE Allocate(c) \/ Register(c)
      BY <3>3 DEF Allocate, Register
    <3>4. CASE BeginSend(c)
      BY <3>4 DEF BeginSend
    <3>5. CASE Write(c)
      BY <3>5 DEF Write, LatestInv
    <3>6. CASE WriteFails(c)
      BY <3>6 DEF WriteFails, callVars
    <3>7. CASE WakeUp(c)
      BY <3>7 DEF WakeUp, Outcome
    <3>8. CASE ControlTimeout(c)
      BY <3>8 DEF ControlTimeout
    <3> QED
      BY <1>1, <3>1, <3>2, <3>3, <3>4, <3>5, <3>6, <3>7, <3>8 DEF Call
  <2> QED
    BY <2>1, <2>2, <2>3
<1>2. ASSUME OtherStep
      PROVE  SentInv'
  <2>1. UNCHANGED <<pc, sentOn, result>>
    BY <1>2, OthersKeepCalls
  <2>2. conn <= conn'
    BY <1>2, DialFindsNobody, OthersKeepConnection
  <2>3. conn' \in Nat
    BY <1>2, DialFindsNobody, OthersKeepConnection
  <2> QED
    BY <2>1, <2>2, <2>3
<1> QED
  BY <1>1, <1>2, CallOrOther

\* A control is written to the connection it was checked on.
LEMMA CheckedStep ==
  ASSUME NoStall, TypeOK, LatestInv, SentInv, CheckedInv, [Next]_vars
  PROVE  CheckedInv'
<1> USE CallsAssumption DEF CheckedInv, TypeOK, Calls
<1>1. ASSUME NEW c \in Calls, Call(c)
      PROVE  CheckedInv'
  <2>1. conn' = conn
    BY <1>1, CallsLeaveWire
  <2>2. \A d \in Calls : d # c => pc'[d] = pc[d] /\ sentOn'[d] = sentOn[d]
                                    /\ checkedOn'[d] = checkedOn[d]
    BY <1>1, CallsLeaveWire
  <2>3. ASSUME c \in Controls
        PROVE  /\ pc'[c] \in {"allocate", "register", "send", "write"} =>
                    checkedOn'[c] = conn
               /\ sentOn'[c] \in {0, checkedOn'[c]}
    <3> USE <2>3 DEF Finish, SendRaises, SentInv
    <3>1. CASE Invoke(c)
      BY <3>1 DEF Invoke
    <3>2. CASE EnterControl(c)
      BY <3>2 DEF EnterControl
    <3>3. CASE Allocate(c) \/ Register(c)
      BY <3>3 DEF Allocate, Register
    <3>4. CASE BeginSend(c)
      BY <3>4 DEF BeginSend
    <3>5. CASE Write(c)
      BY <3>5 DEF Write, LatestInv
    <3>6. CASE WriteFails(c)
      BY <3>6 DEF WriteFails
    <3>7. CASE WakeUp(c) \/ ControlTimeout(c)
      BY <3>7 DEF WakeUp, ControlTimeout
    <3> QED
      BY <1>1, <3>1, <3>2, <3>3, <3>4, <3>5, <3>6, <3>7 DEF Call
  <2> QED
    BY <2>1, <2>2, <2>3
<1>2. ASSUME OtherStep
      PROVE  CheckedInv'
  <2>1. UNCHANGED <<pc, sentOn, checkedOn>>
    BY <1>2, OthersKeepCalls
  <2>2. CASE Dial
    BY <2>1, <2>2, DialFindsNobody
  <2>3. CASE ~Dial
    BY <1>2, <2>1, <2>3, OthersKeepConnection
  <2> QED
    BY <2>2, <2>3
<1> QED
  BY <1>1, <1>2, CallOrOther

\* The lock of a control that waits keeps the others from writing.
LEMMA LockedOutStep ==
  ASSUME TypeOK, LockInv, LatestInv, SentInv, LockedOutInv, [Next]_vars
  PROVE  LockedOutInv'
<1> USE DEF LockedOutInv, TypeOK
<1>1. ASSUME NEW c \in Calls, Write(c)
      PROVE  LockedOutInv'
  <2>1. pc[c] = "write" /\ sentOn' = [sentOn EXCEPT ![c] = sock] /\ sock = conn
    BY <1>1 DEF Write, LatestInv
  <2>2. pc' = [pc EXCEPT ![c] = "wait"] \/ pc' = [pc EXCEPT ![c] = "done"]
    BY <1>1 DEF Write, Finish
  <2>3. \A d \in Calls : pc[d] = "wait" => d = c
    BY <2>1 DEF LockInv
  <2>4. \A d \in Calls : sentOn'[d] <= conn
    BY <2>1 DEF SentInv
  <2> QED
    BY <2>1, <2>2, <2>3, <2>4
<1>2. ASSUME NEW c \in Calls, Call(c), ~Write(c)
      PROVE  LockedOutInv'
  <2>1. UNCHANGED sentOn
    BY <1>2, CallsLeaveWire
  <2>2. pc'[c] # "wait"
    BY <1>2 DEF Call, Invoke, EnterControl, Allocate, Register, BeginSend,
       WriteFails, WakeUp, ControlTimeout, Finish, SendRaises
  <2>3. \A d \in Calls : d # c => pc'[d] = pc[d]
    BY <1>2, CallsLeaveWire
  <2> QED
    BY <2>1, <2>2, <2>3
<1>3. ASSUME OtherStep
      PROVE  LockedOutInv'
  BY <1>3, OthersKeepCalls
<1> QED
  BY <1>1, <1>2, <1>3, CallOrOther

\* A number is given out once on a connection.
LEMMA NumbersStep ==
  ASSUME NoStall, TypeOK, LatestInv, SentInv, NumbersInv, [Next]_vars
  PROVE  NumbersInv'
<1> USE DEF TypeOK
<1>1. ASSUME NEW c \in Calls, Allocate(c)
      PROVE  NumbersInv'
  <2>1. /\ seq' = [seq EXCEPT ![c] = nextSequence] /\ nextSequence' = nextSequence + 1
        /\ sentOn' = sentOn /\ conn' = conn
        /\ \A d \in Calls : d # c => pc'[d] = pc[d]
    BY <1>1 DEF Allocate, linkVars, callVars
  <2>2. \A d \in Calls : d # c /\ Fresh(d)' => Fresh(d)
    BY <2>1 DEF Fresh
  <2>3. \A d \in Calls : d # c /\ Fresh(d)' => seq'[d] = seq[d] /\ seq[d] < nextSequence
    BY <2>1, <2>2 DEF NumbersInv
  <2>4. seq'[c] = nextSequence /\ nextSequence \in Nat
    BY <2>1
  <2>5. ASSUME NEW a \in Calls, NEW b \in Calls, Fresh(a)', Fresh(b)',
               seq'[b] = seq'[a]
        PROVE  b = a
    BY <2>2, <2>3, <2>4, <2>5 DEF NumbersInv
  <2>6. \A d \in Calls : Fresh(d)' => seq'[d] < nextSequence'
    BY <2>1, <2>3, <2>4
  <2> QED
    BY <2>5, <2>6 DEF NumbersInv
<1>2. ASSUME NEW c \in Calls, Call(c), ~Allocate(c)
      PROVE  NumbersInv'
  <2>1. /\ conn' = conn /\ seq' = seq /\ nextSequence' = nextSequence
        /\ \A d \in Calls : d # c => pc'[d] = pc[d] /\ sentOn'[d] = sentOn[d]
    BY <1>2, CallsLeaveWire
  <2>2. Fresh(c)' => Fresh(c)
    BY <1>2 DEF Fresh, Call, Invoke, EnterControl, Register, BeginSend, Write,
       WriteFails, WakeUp, ControlTimeout, Finish, SendRaises, linkVars, callVars
  <2>3. \A d \in Calls : Fresh(d)' => Fresh(d)
    BY <2>1, <2>2 DEF Fresh
  <2> QED
    BY <2>1, <2>3 DEF NumbersInv
<1>3. CASE Dial
  <2>1. /\ conn' = conn + 1 /\ UNCHANGED <<pc, sentOn>>
        /\ \A c \in Calls : pc[c] \notin {"register", "send", "write"}
    BY <1>3, DialFindsNobody
  <2>2. \A c \in Calls : sentOn[c] <= conn
    BY DEF SentInv
  <2>3. \A c \in Calls : ~Fresh(c)'
    BY <2>1, <2>2 DEF Fresh
  <2> QED
    BY <2>3 DEF NumbersInv
<1>4. ASSUME OtherStep, ~Dial
      PROVE  NumbersInv'
  <2>1. UNCHANGED <<pc, seq, sentOn>>
    BY <1>4, OthersKeepCalls
  <2>2. conn' = conn /\ nextSequence' \in {nextSequence, nextSequence + 1}
    BY <1>4, OthersKeepConnection
  <2>3. \A c \in Calls : Fresh(c)' = Fresh(c)
    BY <2>1, <2>2 DEF Fresh
  <2>4. \A c \in Calls : seq[c] < nextSequence => seq[c] < nextSequence'
    BY <2>2
  <2> QED
    BY <2>1, <2>3, <2>4 DEF NumbersInv
<1> QED
  BY <1>1, <1>2, <1>3, <1>4, CallOrOther

\* What is carried out stays so.
LEMMA AppliedGrows ==
  ASSUME TypeOK, [Next]_vars
  PROVE  applied \subseteq applied'
<1>1. ASSUME NEW c \in Calls, Call(c)
      PROVE  applied' = applied
  BY <1>1, CallsLeaveWire
<1>2. ASSUME NEW t \in Threads, Close(t)
      PROVE  applied' = applied
  BY <1>2 DEF Close, CloseCheck, CloseSocket, DropSocket, FailSnapshot, FailWake, wireVars
<1>3. CASE Reader
  BY <1>3 DEF Reader, ReaderProgress, ReaderLoop, Dial, Handshake, HandshakeFails,
     StartAudio, StartAudioFails, Announce, BeginFrames, SetResponse, SetEvent,
     StreamFails, StopAtFrame, Cleanup, Backoff, DialFails, Heartbeat, ReceiveAnswer,
     wireVars
<1>4. CASE Closer \/ UNCHANGED vars
  BY <1>4 DEF Closer, SessionClose, Join, ClearConnected, vars, wireVars
<1>5. CASE Environment
  BY <1>5 DEF Environment, CameraAccepts, CameraRejects, PeerReset, wireVars
<1> QED
  BY <1>1, <1>2, <1>3, <1>4, <1>5, StepKinds

\* Threads but for the dial and the receipt of an answer leave the wire alone.
LEMMA ThreadsLeaveWire ==
  ASSUME \/ \E t \in Threads : Close(t)
         \/ Reader /\ ~Dial /\ ~ReceiveAnswer
         \/ Closer \/ PeerReset \/ UNCHANGED vars
  PROVE  UNCHANGED wireVars
<1>1. ASSUME NEW t \in Threads, Close(t)
      PROVE  UNCHANGED wireVars
  BY <1>1 DEF Close, CloseCheck, CloseSocket, DropSocket, FailSnapshot, FailWake
<1>2. ASSUME Reader, ~Dial, ~ReceiveAnswer
      PROVE  UNCHANGED wireVars
  BY <1>2 DEF Reader, ReaderProgress, ReaderLoop, Handshake, HandshakeFails,
     StartAudio, StartAudioFails, Announce, BeginFrames, SetResponse, SetEvent,
     StreamFails, StopAtFrame, Cleanup, Backoff, DialFails, Heartbeat
<1>3. CASE Closer \/ PeerReset \/ UNCHANGED vars
  BY <1>3 DEF Closer, SessionClose, Join, ClearConnected, PeerReset, vars
<1> QED
  BY <1>1, <1>2, <1>3

\* A request carried out or refused leaves the wire, and so does its call's last
\* request: what is still under way is of other calls.
LEMMA CameraKeepsWire ==
  ASSUME TypeOK, SentInv, WireInv, CameraAccepts \/ CameraRejects
  PROVE  WireInv'
<1>1. UNCHANGED <<seq, sentOn, conn>>
  BY DEF CameraAccepts, CameraRejects, callVars, linkVars
<1>2. PICK request \in toCamera, ok \in BOOLEAN :
        /\ toCamera' = toCamera \ {request}
        /\ applied' = applied \union (IF ok THEN {request.call} ELSE {})
        /\ Reply(request, ok)
  <2>1. CASE CameraAccepts
    BY <2>1 DEF CameraAccepts
  <2>2. CASE CameraRejects
    <3>1. applied' = applied \union {}
      BY <2>2 DEF CameraRejects
    <3> QED
      BY <2>2, <3>1 DEF CameraRejects
  <2> QED
    BY <2>1, <2>2
<1> DEFINE answer == [call |-> request.call, seq |-> request.seq, ok |-> ok]
<1>3. /\ answer.call = request.call /\ answer.seq = request.seq /\ answer.ok = ok
      /\ toReader' \subseteq toReader \union {answer}
  BY <1>2 DEF Reply
<1>4. /\ request \in Requests /\ request.call \in Calls
      /\ sentOn[request.call] = conn /\ conn # 0 /\ request.seq = seq[request.call]
      /\ request.call \notin applied
  BY DEF TypeOK, WireInv, Requests
<1> HIDE DEF answer
<1>5. \A m \in toCamera' \union toReader' :
        sentOn[m.call] = conn /\ conn # 0 /\ m.seq = seq[m.call]
  BY <1>2, <1>3, <1>4 DEF WireInv
<1>6. \A m \in toCamera' : m.call \notin applied'
  <2>1. ASSUME NEW m \in toCamera, m.call = request.call
        PROVE  m = request
    <3>1. m \in Requests /\ m.seq = request.seq
      BY <1>4, <2>1 DEF TypeOK, WireInv
    <3> QED
      BY <1>4, <2>1, <3>1 DEF Requests
  <2> QED
    BY <1>2, <2>1 DEF WireInv
<1>7. \A m \in toReader' : m.ok => m.call \in applied'
  BY <1>2, <1>3 DEF WireInv
<1>8. \A c \in applied' : sentOn[c] # 0
  BY <1>2, <1>4 DEF WireInv
<1> QED
  BY <1>1, <1>5, <1>6, <1>7, <1>8 DEF WireInv

\* Requests and answers under way belong to the current connection.
LEMMA WireStep ==
  ASSUME NoStall, TypeOK, LatestInv, SentInv, WireInv, [Next]_vars
  PROVE  WireInv'
<1>1. ASSUME NEW c \in Calls, Write(c)
      PROVE  WireInv'
  <2>1. /\ pc[c] = "write" /\ sock # 0 /\ sentOn' = [sentOn EXCEPT ![c] = sock]
        /\ toCamera' \subseteq toCamera \union {[call |-> c, seq |-> seq[c]]}
        /\ UNCHANGED <<conn, seq, toReader, applied>>
    BY <1>1 DEF Write, linkVars
  <2>2. sentOn[c] = 0 /\ sock = conn /\ conn # 0 /\ conn \in Nat
    BY <2>1 DEF SentInv, LatestInv, TypeOK
  <2>3. c \notin applied
    BY <2>2 DEF WireInv
  <2>4. \A m \in toCamera \union toReader : m.call \in Calls /\ m.call # c
    BY <2>2 DEF WireInv, TypeOK, Requests, Answers
  <2>5. sentOn'[c] = conn /\ \A d \in Calls : d # c => sentOn'[d] = sentOn[d]
    BY <2>1, <2>2 DEF TypeOK
  <2>6. \A m \in toCamera' \union toReader' :
          sentOn'[m.call] = conn /\ m.seq = seq[m.call]
    BY <2>1, <2>4, <2>5 DEF WireInv
  <2>7. \A d \in applied : d \in Calls /\ d # c
    BY <2>3 DEF TypeOK
  <2> QED
    BY <2>1, <2>2, <2>3, <2>5, <2>6, <2>7 DEF WireInv
<1>2. ASSUME NEW c \in Calls, Call(c), ~Write(c)
      PROVE  WireInv'
  <2>1. UNCHANGED <<conn, toReader, toCamera, applied, sentOn>>
    BY <1>2, CallsLeaveWire
  <2>2. \A d \in Calls : sentOn[d] # 0 => seq'[d] = seq[d]
    <3>1. CASE Allocate(c)
      BY <3>1 DEF Allocate, SentInv, TypeOK
    <3>2. CASE ~Allocate(c)
      BY <1>2, <3>2, CallsLeaveWire
    <3> QED
      BY <3>1, <3>2
  <2>3. \A m \in toCamera \union toReader : m.call \in Calls
    BY DEF TypeOK, Requests, Answers
  <2> QED
    BY <2>1, <2>2, <2>3 DEF WireInv
<1>3. CASE Dial
  <2>1. toCamera' = {} /\ toReader' = {} /\ UNCHANGED <<applied, sentOn>>
    BY <1>3, DialFindsNobody
  <2> QED
    BY <2>1 DEF WireInv
<1>4. CASE ReceiveAnswer
  <2>1. /\ toReader' \subseteq toReader
        /\ UNCHANGED <<toCamera, applied, conn, seq, sentOn>>
    BY <1>4 DEF ReceiveAnswer, linkVars, callVars
  <2> QED
    BY <2>1 DEF WireInv
<1>5. CASE CameraAccepts \/ CameraRejects
  BY <1>5, CameraKeepsWire
<1>6. ASSUME OtherStep, ~Dial, ~ReceiveAnswer, ~CameraAccepts, ~CameraRejects
      PROVE  WireInv'
  <2>1. UNCHANGED wireVars
    BY <1>6, ThreadsLeaveWire DEF OtherStep, Environment
  <2>2. UNCHANGED <<conn, seq, sentOn>>
    BY <1>6, OthersKeepCalls, OthersKeepConnection
  <2> QED
    BY <2>1, <2>2 DEF WireInv, wireVars
<1> QED
  BY <1>1, <1>2, <1>3, <1>4, <1>5, <1>6, CallOrOther

\* The heart: the control in the table under an answer's number is the one the
\* answer is for.
LEMMA MatchIsOwn ==
  ASSUME TypeOK, TableInv, LatestInv, SentInv, LockedOutInv, NumbersInv, WireInv,
         NEW answer \in toReader, NEW c \in Matching(answer)
  PROVE  answer.call = c
<1>1. /\ c \in Controls /\ c \in Calls /\ seq[c] = answer.seq
      /\ pc[c] \in {"send", "write", "wait"}
  BY DEF Matching, TypeOK, TableInv, Calls
<1>2. /\ answer.call \in Calls /\ sentOn[answer.call] = conn /\ conn # 0
      /\ seq[answer.call] = answer.seq
  BY DEF WireInv, TypeOK, Answers
<1>3. Fresh(answer.call)
  BY <1>2 DEF Fresh
<1>4. Fresh(c)
  <2>1. CASE pc[c] = "wait"
    <3>1. sentOn[answer.call] <= sentOn[c] /\ sentOn[c] <= conn
      BY <1>1, <1>2, <2>1 DEF LockedOutInv, SentInv
    <3>2. sentOn[c] = conn
      BY <1>1, <1>2, <3>1 DEF TypeOK
    <3> QED
      BY <1>2, <3>2 DEF Fresh
  <2> QED
    BY <1>1, <2>1 DEF Fresh
<1> QED
  BY <1>1, <1>2, <1>3, <1>4 DEF NumbersInv

\* An answer is only ever given to its own call.
LEMMA GivenStep ==
  ASSUME TypeOK, DeliveryInv, TableInv, LatestInv, SentInv, LockedOutInv, NumbersInv,
         WireInv, GivenInv, [Next]_vars
  PROVE  GivenInv'
<1>1. applied \subseteq applied'
  BY AppliedGrows
<1>2. CASE ReceiveAnswer
  <2>1. UNCHANGED <<applied, response>>
    BY <1>2 DEF ReceiveAnswer, boxVars
  <2>2. \/ delivery' = delivery
        \/ \E answer \in toReader : \E c \in Matching(answer) :
             delivery' = [to |-> c, answer |-> answer]
    BY <1>2 DEF ReceiveAnswer
  <2>3. ASSUME NEW answer \in toReader, NEW c \in Matching(answer),
               delivery' = [to |-> c, answer |-> answer]
        PROVE  GivenInv'
    <3>1. answer.call = c /\ (answer.ok => c \in applied)
      BY MatchIsOwn DEF WireInv
    <3> QED
      BY <2>1, <2>3, <3>1 DEF GivenInv
  <2> QED
    BY <2>1, <2>2, <2>3 DEF GivenInv
<1>3. CASE SetResponse
  <2>1. /\ UNCHANGED <<applied, delivery>>
        /\ response' = [response EXCEPT ![delivery.to] = delivery.answer]
        /\ delivery.to \in Controls
    BY <1>3 DEF SetResponse, wireVars, DeliveryInv
  <2>2. delivery.to # NoCall /\ delivery.to \in Calls
    BY <2>1, CallsAssumption DEF Calls
  <2>3. \A c \in Calls :
          response'[c] = IF c = delivery.to THEN delivery.answer ELSE response[c]
    BY <2>1, <2>2 DEF TypeOK
  <2> QED
    BY <2>1, <2>2, <2>3 DEF GivenInv
<1>4. CASE SetEvent
  <2>1. UNCHANGED <<applied, response>> /\ delivery'.to = NoCall
    BY <1>4 DEF SetEvent, wireVars
  <2> QED
    BY <2>1 DEF GivenInv
<1>5. ASSUME Reader, ~ReceiveAnswer, ~SetResponse, ~SetEvent
      PROVE  UNCHANGED <<delivery, response>>
  BY <1>5 DEF Reader, ReaderProgress, ReaderLoop, Dial, Handshake, HandshakeFails,
     StartAudio, StartAudioFails, Announce, BeginFrames, StreamFails, StopAtFrame,
     Cleanup, Backoff, DialFails, Heartbeat, boxVars
<1>6. ASSUME NEW t \in Threads, Close(t)
      PROVE  UNCHANGED <<delivery, response>>
  BY <1>6 DEF Close, CloseCheck, CloseSocket, DropSocket, FailSnapshot, FailWake, boxVars
<1>7. CASE UNCHANGED <<delivery, response>>
  BY <1>1, <1>7 DEF GivenInv
<1> QED
  BY <1>2, <1>3, <1>4, <1>5, <1>6, <1>7, StepKinds, CallsLeaveThreads, CloserLeaves,
     EnvironmentLeaves

\* A control ends well only with an answer that says so.
LEMMA SuccessStep ==
  ASSUME TypeOK, SentInv, GivenInv, SuccessInv, [Next]_vars
  PROVE  SuccessInv'
<1>1. applied \subseteq applied'
  BY AppliedGrows
<1>2. ASSUME NEW c \in Calls, Call(c)
      PROVE  SuccessInv'
  <2>1. \A d \in Calls : d # c => result'[d] = result[d]
    BY <1>2, CallsLeaveWire
  <2>2. ASSUME c \in Controls, result'[c] = "ok"
        PROVE  c \in applied
    <3> USE <2>2, CallsAssumption DEF Finish, SendRaises, TypeOK, Calls, SentInv
    <3>1. CASE Invoke(c)
      BY <3>1 DEF Invoke
    <3>2. CASE EnterControl(c)
      BY <3>2 DEF EnterControl
    <3>3. CASE Allocate(c) \/ Register(c)
      BY <3>3 DEF Allocate, Register
    <3>4. CASE BeginSend(c)
      BY <3>4 DEF BeginSend
    <3>5. CASE Write(c)
      BY <3>5 DEF Write
    <3>6. CASE WriteFails(c)
      BY <3>6 DEF WriteFails
    <3>7. CASE WakeUp(c)
      BY <3>7 DEF WakeUp, Outcome, GivenInv
    <3>8. CASE ControlTimeout(c)
      BY <3>8 DEF ControlTimeout
    <3> QED
      BY <1>2, <3>1, <3>2, <3>3, <3>4, <3>5, <3>6, <3>7, <3>8 DEF Call
  <2> QED
    BY <1>1, <2>1, <2>2 DEF SuccessInv, Calls
<1>3. ASSUME OtherStep
      PROVE  SuccessInv'
  BY <1>1, <1>3, OthersKeepCalls DEF SuccessInv
<1> QED
  BY <1>2, <1>3, CallOrOther

-----------------------------------------------------------------------------
(* The invariant and what follows from it.                                 *)

\* The invariant holds initially.
LEMMA InitPromise == Init => PromiseInv
<1> SUFFICES ASSUME Init PROVE PromiseInv
  OBVIOUS
<1>1. LatestInv /\ SentInv /\ CheckedInv /\ LockedOutInv
  BY DEF Init, LatestInv, SentInv, CheckedInv, LockedOutInv, Calls
<1>2. NumbersInv
  BY DEF Init, NumbersInv, Fresh
<1>3. WireInv /\ GivenInv /\ SuccessInv
  BY DEF Init, WireInv, GivenInv, SuccessInv, Calls
<1> QED
  BY <1>1, <1>2, <1>3 DEF PromiseInv

\* Without stalls every step keeps the invariant.
LEMMA StepPromise ==
  ASSUME NoStall, IInv, PromiseInv, [Next]_vars
  PROVE  PromiseInv'
  BY LatestStep, SentStep, CheckedStep, LockedOutStep, NumbersStep, WireStep,
     GivenStep, SuccessStep
  DEF PromiseInv, IInv

\* Without stalls the invariant always holds.
LEMMA PromiseInvariance == NoStall => (Spec => []PromiseInv)
<1> SUFFICES ASSUME NoStall PROVE Spec => []PromiseInv
  OBVIOUS
<1>1. IInv /\ PromiseInv /\ [Next]_vars => PromiseInv'
  BY StepPromise
<1> QED
  BY <1>1, InitPromise, Invariance, PTL DEF Spec

\* A control is only ever given the camera's answer to its own request, however
\* late answers come and however often the sequence numbers restart.
THEOREM AnswersAreOwn == NoStall => (Spec => []OwnAnswer)
<1> SUFFICES ASSUME NoStall PROVE Spec => []OwnAnswer
  OBVIOUS
<1>1. PromiseInv => OwnAnswer
  BY DEF PromiseInv, GivenInv, OwnAnswer
<1> QED
  BY <1>1, PromiseInvariance, PTL

\* A control is written to the connection that was up when it was checked.
THEOREM WrittenWhereChecked == NoStall => (Spec => []ControlOnCheckedConnection)
<1> SUFFICES ASSUME NoStall PROVE Spec => []ControlOnCheckedConnection
  OBVIOUS
<1>1. PromiseInv => ControlOnCheckedConnection
  BY DEF PromiseInv, CheckedInv, ControlOnCheckedConnection
<1> QED
  BY <1>1, PromiseInvariance, PTL

-----------------------------------------------------------------------------
(* The refinement.                                                         *)

\* What a caller sees of a call, as the refinement maps it.
PhaseOf(label) ==
  CASE label = "idle" -> "idle" [] label = "done" -> "closed" [] OTHER -> "open"

OutcomeOf(res) ==
  CASE res \in {"none", "ok"} -> res [] res = "unavailable" -> "refused"
    [] OTHER -> "failed"

Phases == [c \in Calls |-> PhaseOf(pc[c])]
Outcomes == [c \in Calls |-> OutcomeOf(result[c])]

\* The mapping is the one of Port.
LEMMA PortVariables ==
  /\ Port!Calls = Calls
  /\ Phases' = Phases /\ Outcomes' = Outcomes /\ applied' = applied =>
       UNCHANGED Port!vars
  BY DEF Port!Calls, Port!vars, Calls, Phases, Outcomes, PhaseOf, OutcomeOf

\* The actions of Port under the mapping.
LEMMA PortActions ==
  ASSUME NEW c
  PROVE  /\ Port!Open(c) <=> /\ Phases[c] = "idle"
                             /\ Phases' = [Phases EXCEPT ![c] = "open"]
                             /\ Outcomes' = Outcomes /\ applied' = applied
         /\ \A res : Port!Close(c, res) <=>
                       /\ Phases' = [Phases EXCEPT ![c] = "closed"]
                       /\ Outcomes' = [Outcomes EXCEPT ![c] = res]
                       /\ applied' = applied
         /\ Port!Refuse(c) <=> /\ Phases[c] \in {"idle", "open"}
                               /\ c \notin applied
                               /\ Port!Close(c, "refused")
         /\ Port!Succeed(c) <=> /\ Phases[c] = "open"
                                /\ c \in Controls => c \in applied
                                /\ Port!Close(c, "ok")
         /\ Port!Fail(c) <=> Phases[c] = "open" /\ Port!Close(c, "failed")
         /\ Port!Apply(c) <=> /\ Phases[c] # "idle"
                              /\ Outcomes[c] # "refused"
                              /\ c \notin applied
                              /\ applied' = applied \union {c}
                              /\ Phases' = Phases /\ Outcomes' = Outcomes
  BY DEF Port!Open, Port!Close, Port!Refuse, Port!Succeed, Port!Fail, Port!Apply,
     Phases, Outcomes, PhaseOf, OutcomeOf

\* How a step of a call looks to its caller.
Opens(c) == pc[c] = "idle" /\ pc'[c] = "lock" /\ result'[c] = result[c]

StaysOpen(c) ==
  pc[c] \notin {"idle", "done"} /\ pc'[c] \notin {"idle", "done"} /\ result'[c] = result[c]

IsRefused(c) ==
  /\ pc[c] \in {"idle", "lock"} /\ pc'[c] = "done"
  /\ result'[c] = "unavailable" /\ c \notin applied

Succeeds(c) ==
  /\ pc[c] \notin {"idle", "done"} /\ pc'[c] = "done"
  /\ result'[c] = "ok" /\ (c \in Controls => c \in applied)

Fails(c) ==
  /\ pc[c] \notin {"idle", "done"} /\ pc'[c] = "done"
  /\ result'[c] \in {"timeout", "camera_error", "no_response", "attribute_error",
                     "os_error"}

\* Every step of a call is one of these.
LEMMA CallerSees ==
  ASSUME TypeOK, SentInv, WireInv, GivenInv, NEW c \in Calls, Call(c)
  PROVE  Opens(c) \/ StaysOpen(c) \/ IsRefused(c) \/ Succeeds(c) \/ Fails(c)
<1> USE CallsAssumption
    DEF TypeOK, SentInv, Opens, StaysOpen, IsRefused, Succeeds, Fails, Finish, SendRaises
<1>1. CASE Invoke(c)
  BY <1>1 DEF Invoke, WireInv
<1>2. CASE EnterControl(c)
  BY <1>2 DEF EnterControl, WireInv
<1>3. CASE Allocate(c) \/ Register(c)
  BY <1>3 DEF Allocate, Register
<1>4. CASE BeginSend(c)
  BY <1>4 DEF BeginSend
<1>5. CASE Write(c)
  BY <1>5 DEF Write
<1>6. CASE WriteFails(c)
  BY <1>6 DEF WriteFails
<1>7. CASE WakeUp(c)
  BY <1>7 DEF WakeUp, Outcome, GivenInv
<1>8. CASE ControlTimeout(c)
  BY <1>8 DEF ControlTimeout
<1> QED
  BY <1>1, <1>2, <1>3, <1>4, <1>5, <1>6, <1>7, <1>8 DEF Call

\* A step of a call is one of the caller's in Port, or none.
LEMMA CallImplements ==
  ASSUME TypeOK, SentInv, WireInv, GivenInv, NEW c \in Calls, Call(c)
  PROVE  [Port!Next]_(Port!vars)
<1>1. /\ Phases' = [Phases EXCEPT ![c] = PhaseOf(pc'[c])]
      /\ Outcomes' = [Outcomes EXCEPT ![c] = OutcomeOf(result'[c])]
      /\ applied' = applied
  <2>1. \A d \in Calls : d # c => pc'[d] = pc[d] /\ result'[d] = result[d]
    BY CallsLeaveWire
  <2>2. applied' = applied
    BY CallsLeaveWire
  <2> QED
    BY <2>1, <2>2 DEF Phases, Outcomes
<1>2. Phases[c] = PhaseOf(pc[c]) /\ Outcomes[c] = OutcomeOf(result[c])
  BY DEF Phases, Outcomes
<1>3. CASE Opens(c)
  <2>1. PhaseOf(pc[c]) = "idle" /\ PhaseOf(pc'[c]) = "open"
    BY <1>3 DEF Opens, PhaseOf
  <2>2. Outcomes' = Outcomes
    BY <1>1, <1>2, <1>3 DEF Opens, Outcomes
  <2>3. Port!Open(c)
    BY <1>1, <1>2, <2>1, <2>2, PortActions
  <2> QED
    BY <2>3, PortVariables DEF Port!Next
<1>4. CASE StaysOpen(c)
  <2>1. PhaseOf(pc[c]) = "open" /\ PhaseOf(pc'[c]) = "open"
    BY <1>4 DEF StaysOpen, PhaseOf
  <2>2. Phases' = Phases /\ Outcomes' = Outcomes
    BY <1>1, <1>2, <1>4, <2>1 DEF StaysOpen, Phases, Outcomes
  <2> QED
    BY <1>1, <2>2, PortVariables
<1>5. CASE IsRefused(c)
  <2>1. /\ PhaseOf(pc[c]) \in {"idle", "open"} /\ PhaseOf(pc'[c]) = "closed"
        /\ OutcomeOf(result'[c]) = "refused" /\ c \notin applied
    BY <1>5 DEF IsRefused, PhaseOf, OutcomeOf
  <2>2. Port!Refuse(c)
    BY <1>1, <1>2, <2>1, PortActions
  <2> QED
    BY <2>2, PortVariables DEF Port!Next
<1>6. CASE Succeeds(c)
  <2>1. /\ PhaseOf(pc[c]) = "open" /\ PhaseOf(pc'[c]) = "closed"
        /\ OutcomeOf(result'[c]) = "ok" /\ (c \in Controls => c \in applied)
    BY <1>6 DEF Succeeds, PhaseOf, OutcomeOf
  <2>2. Port!Succeed(c)
    BY <1>1, <1>2, <2>1, PortActions
  <2> QED
    BY <2>2, PortVariables DEF Port!Next
<1>7. CASE Fails(c)
  <2>1. /\ PhaseOf(pc[c]) = "open" /\ PhaseOf(pc'[c]) = "closed"
        /\ OutcomeOf(result'[c]) = "failed"
    BY <1>7 DEF Fails, PhaseOf, OutcomeOf
  <2>2. Port!Fail(c)
    BY <1>1, <1>2, <2>1, PortActions
  <2> QED
    BY <2>2, PortVariables DEF Port!Next
<1> QED
  BY <1>3, <1>4, <1>5, <1>6, <1>7, CallerSees

\* What the camera carries out was written by a call that was not refused.
LEMMA CameraImplements ==
  ASSUME TypeOK, SentInv, WireInv, CameraAccepts
  PROVE  Port!Next
<1>1. PICK request \in toCamera : applied' = applied \union {request.call}
  BY DEF CameraAccepts
<1>2. PICK c \in Calls : c = request.call
  BY DEF TypeOK, Requests
<1>3. sentOn[c] # 0 /\ c \notin applied
  BY <1>2 DEF WireInv
<1>4. pc[c] \in {"wait", "done"} /\ result[c] # "unavailable"
  BY <1>3 DEF SentInv
<1>5. Phases[c] # "idle" /\ Outcomes[c] # "refused"
  BY <1>4 DEF Phases, Outcomes, PhaseOf, OutcomeOf
<1>6. Phases' = Phases /\ Outcomes' = Outcomes
  BY DEF CameraAccepts, callVars, Phases, Outcomes
<1>7. Port!Apply(c)
  BY <1>1, <1>2, <1>3, <1>5, <1>6, PortActions
<1> QED
  BY <1>7, PortVariables DEF Port!Next

\* Nobody but the camera carries out a call.
LEMMA OthersKeepApplied ==
  ASSUME OtherStep, ~CameraAccepts
  PROVE  applied' = applied
<1>1. CASE CameraRejects
  BY <1>1 DEF CameraRejects
<1>2. CASE Dial
  BY <1>2 DEF Dial
<1>3. CASE ReceiveAnswer
  BY <1>3 DEF ReceiveAnswer
<1>4. ASSUME ~CameraRejects, ~Dial, ~ReceiveAnswer
      PROVE  applied' = applied
  BY <1>4, ThreadsLeaveWire DEF OtherStep, Environment, wireVars
<1> QED
  BY <1>1, <1>2, <1>3, <1>4

\* The session keeps its promise to its callers: a refused call is never carried
\* out, a control that reports success was, and no call is carried out twice.
THEOREM ImplementsPort == NoStall => (Spec => KeepsPromise)
<1> SUFFICES ASSUME NoStall PROVE Spec => KeepsPromise
  OBVIOUS
<1>1. Init => Port!Init
  BY DEF Init, Port!Init, Port!Calls, Calls
<1>2. IInv /\ PromiseInv /\ [Next]_vars => [Port!Next]_(Port!vars)
  <2> SUFFICES ASSUME TypeOK, SentInv, WireInv, GivenInv, [Next]_vars
               PROVE  [Port!Next]_(Port!vars)
    BY DEF IInv, PromiseInv
  <2>1. ASSUME NEW c \in Calls, Call(c) PROVE [Port!Next]_(Port!vars)
    BY <2>1, CallImplements
  <2>2. CASE CameraAccepts
    BY <2>2, CameraImplements
  <2>3. ASSUME OtherStep, ~CameraAccepts PROVE [Port!Next]_(Port!vars)
    <3>1. UNCHANGED <<pc, result, applied>>
      BY <2>3, OthersKeepCalls, OthersKeepApplied
    <3>2. Phases' = Phases /\ Outcomes' = Outcomes
      BY <3>1 DEF Phases, Outcomes
    <3> QED
      BY <3>1, <3>2, PortVariables
  <2> QED
    BY <2>1, <2>2, <2>3, CallOrOther
<1>3. Spec => Port!Spec
  BY <1>1, <1>2, Invariance, PromiseInvariance, PTL DEF Spec, Port!Spec
<1> QED
  BY <1>3 DEF KeepsPromise
=============================================================================
