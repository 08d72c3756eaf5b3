--------------------------- MODULE PacketChannel ---------------------------
(***************************************************************************)
(* What the reader of a connection is promised: it is handed the packets   *)
(* the camera has sent on this connection, each of them once, in order and *)
(* none left out, and nothing of an earlier connection.                    *)
(***************************************************************************)
EXTENDS Naturals, Sequences

CONSTANTS
  Packets,     \* what the camera sends
  Meaning(_)   \* what a packet is handed over as

VARIABLES sent, handed

vars == <<sent, handed>>

Init == sent = <<>> /\ handed = <<>>

Send(p) ==
  /\ sent' = Append(sent, p)
  /\ UNCHANGED handed

\* Any number of the packets that are due, at once.
Hand ==
  /\ \E n \in (Len(handed) + 1)..Len(sent) :
       handed' = [i \in 1..n |-> Meaning(sent[i])]
  /\ UNCHANGED sent

Reconnect == sent' = <<>> /\ handed' = <<>>

Next == (\E p \in Packets : Send(p)) \/ Hand \/ Reconnect

Spec == Init /\ [][Next]_vars
=============================================================================
