---------------------------- MODULE MCCameraLink ----------------------------
(***************************************************************************)
(* Small instances of CameraLink: up to two controls of one kind and a     *)
(* reboot.                                                                 *)
(***************************************************************************)
EXTENDS CameraLink

CONSTANTS c1, c2, r

MCCommandOf == [c \in {c1, c2, r} |-> IF c = r THEN "reboot" ELSE "led"]

\* Bound: the control c1 with the control c2 or with the reboot, not all three.
TwoCallsAtMost == pc[c2] = "idle" \/ pc[r] = "idle"
=============================================================================
