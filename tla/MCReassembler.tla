--------------------------- MODULE MCReassembler ----------------------------
(***************************************************************************)
(* Small instances of Reassembler.  Sizes are in units of half a cipher    *)
(* block; 4 is the index of a last fragment.                               *)
(***************************************************************************)
EXTENDS Reassembler

Fragment(s, i, size, head) ==
  [seq |-> s, index |-> i, size |-> size, head |-> head, wellFormed |-> TRUE,
   video |-> TRUE]

\* Two frames; the head may be on the first fragment, late, of half a block, or
\* longer than the frame; a last fragment may be large or empty.
MCPackets ==
  LET of(s) == {Fragment(s, 1, 1, 2), Fragment(s, 1, 1, 0), Fragment(s, 2, 1, 0),
                Fragment(s, 3, 1, 2), Fragment(s, 4, 1, 0)}
  IN of(1) \union of(2)
     \union {Fragment(1, 2, 1, 3), Fragment(1, 4, 3, 4), Fragment(2, 4, 0, 0),
             [Fragment(1, 2, 1, 0) EXCEPT !.wellFormed = FALSE],
             [Fragment(1, 2, 1, 0) EXCEPT !.video = FALSE]}

\* The end of the picture is in the last fragment, so that one must not be empty.
MCIsImage(fs) == fs[Len(fs)].size > 0
=============================================================================
