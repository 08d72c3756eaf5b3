--------------------------- MODULE MCLossyCamera ----------------------------
(***************************************************************************)
(* A small instance of LossyCamera: two frames of four fragments.          *)
(***************************************************************************)
EXTENDS LossyCamera

CameraPackets ==
  [seq : 1..2, index : {1}, size : {1}, head : {2},
   wellFormed : {TRUE}, video : {TRUE}]
  \union [seq : 1..2, index : {2, 3, 4}, size : {1}, head : {0},
          wellFormed : {TRUE}, video : {TRUE}]

\* The end of the picture is in the last fragment.
MCIsImage(fs) == fs[Len(fs)].index = FinalIndex
=============================================================================
