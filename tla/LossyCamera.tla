---------------------------- MODULE LossyCamera -----------------------------
(***************************************************************************)
(* Reassembler behind a camera that sends the fragments of each frame in   *)
(* order, one frame after the other, and leaves some of them out when its  *)
(* send window is full.  The camera is not part of the repository.         *)
(***************************************************************************)
EXTENDS Reassembler

CONSTANTS
  LastFrame, \* frames are numbered 1..LastFrame
  Fragments  \* fragments of each frame

VARIABLE position \* the frame and the fragment the camera is at

camera == <<vars, position>>

CameraInit == Init /\ position = [seq |-> 1, fragment |-> 1]

\* The packet of the camera's current fragment.
IsCurrent(p) ==
  /\ p.seq = position.seq
  /\ p.index = IF position.fragment = Fragments THEN FinalIndex ELSE position.fragment

Advance ==
  /\ position.seq <= LastFrame
  /\ position' = IF position.fragment = Fragments
                 THEN [seq |-> position.seq + 1, fragment |-> 1]
                 ELSE [position EXCEPT !.fragment = @ + 1]

Deliver == Advance /\ \E p \in Packets : IsCurrent(p) /\ Push(p)
Lose    == Advance /\ UNCHANGED vars

CameraNext == Deliver \/ Lose

CameraSpec == CameraInit /\ [][CameraNext]_camera

\* The documentation: the snapshot is the "latest complete JPEG".  A returned
\* frame should therefore have all the fragments the camera made of it.
FrameIsWhole == frame # <<>> => Len(frame) = Fragments
=============================================================================
