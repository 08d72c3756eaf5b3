------------------------------ MODULE Framing ------------------------------
(***************************************************************************)
(* One direction of the TCP connection: the camera writes packets, TCP     *)
(* delivers their bytes in pieces cut anywhere, and CameraClient._receive  *)
(* (camera.py) with iter_tcp_packets (pprpc.py) makes packets of them.     *)
(* An iteration of either loop is a step.                                  *)
(***************************************************************************)
EXTENDS Pprpc

CONSTANTS
  Packets,         \* the packets of the camera, as sequences of bytes
  MaxPackets,      \* bound: packets sent on one connection
  MaxConnections   \* bound: connections

Meaning(bytes) == parse_packet(bytes, "no")

\* The header of a packet tells its length, whatever its body is worth.
ASSUME PacketsAssumption ==
  \A p \in Packets :
    /\ p \in Seq(Nat)
    /\ parse_fixed_header(p, "no").error = "none"
    /\ parse_fixed_header(p, "no").size + parse_fixed_header(p, "no").length = Len(p)
ASSUME BoundsAssumption == MaxPackets \in Nat /\ MaxConnections \in Nat

VARIABLES
  sent,       \* history: the packets written by the camera on this connection
  starts,     \* history: where in the stream each of them begins
  stream,     \* the bytes written by the camera on this connection
  received,   \* how many of them recv() has returned
  pc,         \* "receive": in recv(); "parse": in iter_tcp_packets; "refused":
              \* that raised; "lost": the connection has gone
  buffer,     \* CameraClient._buffer
  data,       \* the bytes iter_tcp_packets works on
  offset,     \* how many of them it has taken
  packets,    \* the packets it has made of them
  handed,     \* history: the packets _receive has returned on this connection
  connections \* connections so far

cameraVars == <<sent, starts, stream>>
parseVars  == <<data, offset, packets>>
vars == <<cameraVars, parseVars, received, pc, buffer, handed, connections>>

Init ==
  /\ sent = <<>> /\ starts = <<>> /\ stream = <<>>
  /\ received = 0
  /\ pc = "receive"
  /\ buffer = <<>>
  /\ data = <<>> /\ offset = 0 /\ packets = <<>>
  /\ handed = <<>>
  /\ connections = 1

-----------------------------------------------------------------------------
CameraSends(p) ==
  /\ pc # "lost" /\ Len(sent) < MaxPackets
  /\ sent' = Append(sent, p)
  /\ starts' = Append(starts, Len(stream))
  /\ stream' = stream \o p
  /\ UNCHANGED <<parseVars, received, pc, buffer, handed, connections>>

\* data = self._socket.recv(65536): any part of what is on its way.
Receive ==
  /\ pc = "receive"
  /\ \E n \in 1..(Len(stream) - received) :
       /\ received' = received + n
       /\ data' = buffer \o SubSeq(stream, received + 1, received + n)
  /\ offset' = 0 /\ packets' = <<>>
  /\ pc' = "parse"
  /\ UNCHANGED <<cameraVars, buffer, handed, connections>>

\* The bytes iter_tcp_packets has not taken yet, and the header they begin with.
Ahead  == Rest(data, offset)
Header == parse_fixed_header(Ahead, "no")
Size   == Header.size + Header.length

\* Mutant: a header that is cut short is taken for a broken one.
IncompleteIfEmpty == offset >= Len(data) \/ (Header.error = "none" /\ Size > Len(Ahead))

\* Nothing more can be made of them yet: the loop ends.
Incomplete ==
  \/ offset >= Len(data)
  \/ Header.error \in {"truncated", "missing"}
  \/ Header.error = "none" /\ Size > Len(Ahead)

\* A complete packet is parsed and taken.
TakePacket ==
  /\ pc = "parse" /\ ~Incomplete
  /\ Header.error = "none" /\ Meaning(SubSeq(Ahead, 1, Size)).error = "none"
  /\ packets' = Append(packets, Meaning(SubSeq(Ahead, 1, Size)))
  /\ offset' = offset + Size
  /\ UNCHANGED <<cameraVars, data, received, pc, buffer, handed, connections>>

\* A PacketError of the header or of the body leaves iter_tcp_packets and
\* _receive: the packets of this read are lost with it, and the buffer stays.
Refuse ==
  /\ pc = "parse" /\ ~Incomplete
  /\ Header.error # "none" \/ Meaning(SubSeq(Ahead, 1, Size)).error # "none"
  /\ pc' = "refused"
  /\ UNCHANGED <<cameraVars, parseVars, received, buffer, handed, connections>>

\* Mutant: packets of a read that ends inside a packet are left in the buffer.
ReturnIfWhole ==
  /\ pc = "parse" /\ Incomplete
  /\ buffer' = IF offset < Len(data) THEN data ELSE <<>>
  /\ handed' = IF offset < Len(data) THEN handed ELSE handed \o packets
  /\ pc' = "receive"
  /\ UNCHANGED <<cameraVars, parseVars, received, connections>>

\* Mutant: what has been returned is left in the buffer as well.
ReturnKeepsData ==
  /\ pc = "parse" /\ Incomplete
  /\ buffer' = data
  /\ handed' = handed \o packets
  /\ pc' = "receive"
  /\ UNCHANGED <<cameraVars, parseVars, received, connections>>

\* packets, self._buffer = ...; _receive returns the packets, or goes on
\* receiving if there are none.
Return ==
  /\ pc = "parse" /\ Incomplete
  /\ buffer' = Ahead
  /\ handed' = handed \o packets
  /\ pc' = "receive"
  /\ UNCHANGED <<cameraVars, parseVars, received, connections>>

\* recv() fails or returns nothing, a watchdog expires or the bridge stops; or
\* the error of Refuse has reached the session.  Either way close() follows.
Lose ==
  /\ pc \in {"receive", "refused"}
  /\ pc' = "lost"
  /\ buffer' = <<>>
  /\ UNCHANGED <<cameraVars, parseVars, received, handed, connections>>

\* connect(): a new socket, and the buffer is emptied once more.
Reconnect ==
  /\ pc = "lost" /\ connections < MaxConnections
  /\ sent' = <<>> /\ starts' = <<>> /\ stream' = <<>> /\ received' = 0
  /\ buffer' = <<>> /\ handed' = <<>>
  /\ pc' = "receive"
  /\ connections' = connections + 1
  /\ UNCHANGED parseVars

Next ==
  \/ \E p \in Packets : CameraSends(p)
  \/ Receive \/ TakePacket \/ Refuse \/ Return \/ Lose \/ Reconnect

Spec == Init /\ [][Next]_vars

-----------------------------------------------------------------------------
\* The end of a packet in the stream.
EndOf(i) == starts[i] + Len(sent[i])

\* However TCP cuts the stream, and however often the connection is replaced,
\* the reader is handed the packets of the camera once each and in order.
Channel == INSTANCE PacketChannel
KeepsPackets == Channel!Spec

\* A packet whose last byte has been received is not left lying in the buffer
\* until more data arrives: when the reader goes back to receiving, it has been
\* handed over.
NothingHeldBack ==
  pc = "receive" => \A i \in 1..Len(sent) : EndOf(i) <= received => i <= Len(handed)

\* The stream is given up only for a packet that is itself at fault, never for
\* the place where it was cut.
RefusedForCause ==
  pc = "refused" =>
    \E i \in 1..Len(sent) : EndOf(i) <= received /\ Meaning(sent[i]).error # "none"
=============================================================================
