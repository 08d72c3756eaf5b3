---------------------------- MODULE MCMediaState ----------------------------
(***************************************************************************)
(* Small instances of MediaState: one viewer, which asks for a stream, a   *)
(* preview or a snapshot, one listener, and a backlog of two chunks.       *)
(***************************************************************************)
EXTENDS MediaState

CONSTANTS s1, l1
=============================================================================
