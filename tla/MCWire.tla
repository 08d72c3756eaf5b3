------------------------------- MODULE MCWire -------------------------------
(***************************************************************************)
(* A small instance of the wire: the answer to a control, a fragment of a  *)
(* picture, a packet whose length takes two bytes, and an answer of a type *)
(* the parser refuses.  The inputs of Payloads stand on both sides of every*)
(* boundary of its numbers and schedules.                                  *)
(***************************************************************************)
EXTENDS Wire

MCAnswer   == <<72, 5, 5, 201, 20, 13, 0>>
MCFragment == <<104, 8, 132, 0, 0, 7, 99, 0, 4, 5>>
MCOther    == <<56, 130, 0, 1, 2>>
MCRefused  == <<72, 3, 5, 1, 14>>

MCPackets == {MCAnswer, MCFragment, MCOther, MCRefused}

MCNumbers == {0, 1, 127, 128, 129, 16383, 16384, 2097151, 2097152, 2^28 - 1, 2^28}
MCDayLists == {<<>>, <<0>>, <<0, 6>>, <<6, 0>>, <<1, 1>>, <<7>>, <<-1, 0>>, [i \in 1..7 |-> i - 1]}
MCMinutes == {0, 1, 2, 60, 1438, 1439}
=============================================================================
