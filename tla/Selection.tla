----------------------------- MODULE Selection ------------------------------
(***************************************************************************)
(* What a loop that goes through a sequence and leaves some elements out   *)
(* collects: SelectSeq with a set for its test, as a recursive function,   *)
(* so that facts about it can be proved (see SelectionProofs).             *)
(***************************************************************************)
EXTENDS Naturals, Sequences

\* The elements of s that are in K, in their order.
Only(s, K) ==
  LET only[i \in 0..Len(s)] ==
        IF i = 0 THEN <<>>
        ELSE IF s[i] \in K THEN Append(only[i - 1], s[i]) ELSE only[i - 1]
  IN only[Len(s)]
=============================================================================
