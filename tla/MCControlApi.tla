---------------------------- MODULE MCControlApi ----------------------------
(***************************************************************************)
(* Small instances of ControlApi: two PUTs and one GET over two controls,  *)
(* one of which the camera can report itself.                              *)
(***************************************************************************)
EXTENDS ControlApi

CONSTANTS p1, p2, g, k1, k2
=============================================================================
