---------------------------- MODULE Reassembler -----------------------------
(***************************************************************************)
(* MJPEGReassembler (camera.py): the fragments of a JPEG arrive as AV      *)
(* packets with an index that starts at 1 and is FinalIndex (0xFF) on the  *)
(* last one; the packets of several frames may be mixed, missing, repeated *)
(* or malformed.  A fragment is kept as the packet that brought it.        *)
(*                                                                         *)
(* Decryption and the search for the JPEG markers are behind IsImage: they *)
(* depend on the bytes of the assembled frame and nothing else.            *)
(***************************************************************************)
EXTENDS Naturals, Sequences, Selection

CONSTANTS
  FrameNumbers, \* AVPacket.sequence: one number for each frame
  FinalIndex,   \* the index of a last fragment, 0xFF
  MaxFrameSize, \* max_frame_bytes
  Block,        \* the cipher's block, 16 bytes
  Packets,      \* the packets that may be pushed
  IsImage(_),   \* do these fragments decrypt to a picture from SOI to EOI?
  MaxPushes     \* bound on the packets pushed

\* size: payload bytes behind the fragment header; head: encrypted_length;
\* wellFormed: the header says 01 <index> 00; video: MJPEG, with a whole header.
PacketType ==
  [seq : FrameNumbers, index : 0..FinalIndex, size : Nat, head : Nat,
   wellFormed : BOOLEAN, video : BOOLEAN]

ASSUME PacketsAssumption ==
  /\ Packets \subseteq PacketType
  /\ FinalIndex \in Nat /\ FinalIndex > 1
  /\ MaxFrameSize \in Nat
  /\ Block \in Nat /\ Block > 0
  /\ MaxPushes \in Nat

VARIABLES
  fragments, \* the fragments held of each frame, <<>> if it has no entry
  sizes,     \* their bytes
  metadata,  \* the first of them with an encrypted length, as <<packet>>, or <<>>
  expected,  \* the index due next, 0 if the frame is not open
  frame,     \* the fragments of the frame the last push returned, <<>> for None
  log        \* history: the packets pushed so far

heldVars == <<fragments, sizes, metadata, expected>>
vars == <<heldVars, frame, log>>

TypeOK ==
  /\ fragments \in [FrameNumbers -> Seq(Packets)]
  /\ sizes \in [FrameNumbers -> Nat]
  /\ metadata \in [FrameNumbers -> {<<>>} \union {<<p>> : p \in Packets}]
  /\ expected \in [FrameNumbers -> Nat]
  /\ frame \in Seq(Packets)
  /\ log \in Seq(Packets)

Init ==
  /\ fragments = [s \in FrameNumbers |-> <<>>]
  /\ sizes = [s \in FrameNumbers |-> 0]
  /\ metadata = [s \in FrameNumbers |-> <<>>]
  /\ expected = [s \in FrameNumbers |-> 0]
  /\ frame = <<>>
  /\ log = <<>>

\* What push holds of the frame of p once an index 1 has restarted it.
Held(p) == IF p.index = 1 THEN <<>> ELSE fragments[p.seq]
HeldSize(p) == IF p.index = 1 THEN 0 ELSE sizes[p.seq]
HeldMetadata(p) == IF p.index = 1 THEN <<>> ELSE metadata[p.seq]
Due(p) == IF p.index = 1 THEN 1 ELSE expected[p.seq]

\* The metadata of the frame once p is part of it: setdefault.
MetadataWith(p) ==
  IF p.head > 0 /\ HeldMetadata(p) = <<>> THEN <<p>> ELSE HeldMetadata(p)

\* Mutant: the bytes counted so far survive.
DropKeepsSize(s) ==
  /\ fragments' = [fragments EXCEPT ![s] = <<>>]
  /\ metadata' = [metadata EXCEPT ![s] = <<>>]
  /\ expected' = [expected EXCEPT ![s] = 0]
  /\ UNCHANGED sizes

\* _drop, and the four pops of a completed frame.
Drop(s) ==
  /\ fragments' = [fragments EXCEPT ![s] = <<>>]
  /\ sizes' = [sizes EXCEPT ![s] = 0]
  /\ metadata' = [metadata EXCEPT ![s] = <<>>]
  /\ expected' = [expected EXCEPT ![s] = 0]

\* The packet belongs to an open frame and has the index due, or is the last.
Fits(p) ==
  /\ p.video /\ p.wellFormed
  /\ Due(p) # 0
  /\ p.index \in {Due(p), FinalIndex}

-----------------------------------------------------------------------------
(* push, by the way it is left.                                            *)

\* Not a fragment, or one of a frame whose first fragment was never seen.
Ignore(p) ==
  /\ ~p.video \/ (p.wellFormed /\ Due(p) = 0)
  /\ frame' = <<>>
  /\ UNCHANGED heldVars

DropMalformed(p) ==
  /\ p.video /\ ~p.wellFormed
  /\ Drop(p.seq)
  /\ frame' = <<>>

\* Mutant: a gap is ignored and the next index awaited.
IgnoreGap(p) ==
  /\ p.video /\ p.wellFormed
  /\ Due(p) # 0 /\ ~Fits(p)
  /\ UNCHANGED heldVars
  /\ frame' = <<>>

DropAtGap(p) ==
  /\ p.video /\ p.wellFormed
  /\ Due(p) # 0 /\ ~Fits(p)
  /\ Drop(p.seq)
  /\ frame' = <<>>

DropOversized(p) ==
  /\ Fits(p)
  /\ HeldSize(p) + p.size > MaxFrameSize
  /\ Drop(p.seq)
  /\ frame' = <<>>

\* Mutant: an index 1 does not discard what is held.
KeepOnTop(p) ==
  /\ Fits(p)
  /\ HeldSize(p) + p.size <= MaxFrameSize
  /\ p.index # FinalIndex
  /\ fragments' = [fragments EXCEPT ![p.seq] = Append(@, p)]
  /\ sizes' = [sizes EXCEPT ![p.seq] = HeldSize(p) + p.size]
  /\ metadata' = [metadata EXCEPT ![p.seq] = MetadataWith(p)]
  /\ expected' = [expected EXCEPT ![p.seq] = Due(p) + 1]
  /\ frame' = <<>>

Keep(p) ==
  /\ Fits(p)
  /\ HeldSize(p) + p.size <= MaxFrameSize
  /\ p.index # FinalIndex
  /\ fragments' = [fragments EXCEPT ![p.seq] = Append(Held(p), p)]
  /\ sizes' = [sizes EXCEPT ![p.seq] = HeldSize(p) + p.size]
  /\ metadata' = [metadata EXCEPT ![p.seq] = MetadataWith(p)]
  /\ expected' = [expected EXCEPT ![p.seq] = Due(p) + 1]
  /\ frame' = <<>>

\* The encrypted head is known, lies within the frame and is whole blocks.
HasHead(p) ==
  /\ MetadataWith(p) # <<>>
  /\ MetadataWith(p)[1].head <= HeldSize(p) + p.size
  /\ MetadataWith(p)[1].head % Block = 0

\* The frame is released, and returned if it can be decrypted and is a picture.
Complete(p) ==
  /\ Fits(p)
  /\ HeldSize(p) + p.size <= MaxFrameSize
  /\ p.index = FinalIndex
  /\ Drop(p.seq)
  /\ frame' = IF HasHead(p) /\ IsImage(Append(Held(p), p)) THEN Append(Held(p), p)
                                                           ELSE <<>>

Push(p) ==
  /\ Len(log) < MaxPushes
  /\ log' = Append(log, p)
  /\ \/ Ignore(p) \/ DropMalformed(p) \/ DropAtGap(p) \/ DropOversized(p)
     \/ Keep(p) \/ Complete(p)

Next == \E p \in Packets : Push(p)

Spec == Init /\ [][Next]_vars

-----------------------------------------------------------------------------
(* What must hold.                                                         *)

\* A returned frame is the fragments 1, 2, ... and a last one of a single frame,
\* in this order, whatever was mixed in between (a gap right before the last one
\* is not noticed: see LossyCamera).
FrameIsInOrder ==
  frame # <<>> =>
    /\ Len(frame) > 1
    /\ \A j \in 1..Len(frame) :
         /\ frame[j].seq = frame[1].seq
         /\ frame[j].index = IF j = Len(frame) THEN FinalIndex ELSE j

\* Nothing is held of a frame that is not open (a dropped frame leaves no bytes
\* that a later one would inherit), and no frame holds more than the limit.
HeldIsBounded ==
  \A s \in FrameNumbers :
    /\ sizes[s] <= MaxFrameSize
    /\ expected[s] = 0 => fragments[s] = <<>> /\ sizes[s] = 0 /\ metadata[s] = <<>>

\* The definition of what a stream of packets contains, by looking back from its
\* last packet: the fragments of that packet's frame since one of them.
FragmentsOf(s) == {p \in Packets : p.video /\ p.seq = s}

SizeOf(fs) ==
  LET size[i \in 0..Len(fs)] == IF i = 0 THEN 0 ELSE size[i - 1] + fs[i].size
  IN size[Len(fs)]

HeadOf(fs) ==
  LET heads == Only(fs, {p \in Packets : p.head > 0})
  IN IF heads = <<>> THEN <<>> ELSE <<heads[1]>>

Tails(s) == {SubSeq(s, i, Len(s)) : i \in 1..Len(s)}

IsFrame(fs) ==
  /\ Len(fs) \in 2..FinalIndex
  /\ \A j \in 1..Len(fs) :
       fs[j].wellFormed /\ fs[j].index = IF j = Len(fs) THEN FinalIndex ELSE j
  /\ SizeOf(fs) <= MaxFrameSize
  /\ HeadOf(fs) # <<>>
  /\ HeadOf(fs)[1].head <= SizeOf(fs) /\ HeadOf(fs)[1].head % Block = 0
  /\ IsImage(fs)

FramesEndedBy(stream) ==
  LET last == stream[Len(stream)]
  IN IF stream = <<>> \/ ~last.video THEN {}
     ELSE {fs \in Tails(Only(stream, FragmentsOf(last.seq))) : IsFrame(fs)}

\* push returns a frame exactly when the packets pushed so far end with one, and
\* then that very frame: incremental bookkeeping loses and invents nothing.
ReturnsWhatArrived ==
  {frame} \ {<<>>} = FramesEndedBy(log)
=============================================================================
