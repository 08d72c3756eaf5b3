-------------------------- MODULE ReassemblerProofs --------------------------
(***************************************************************************)
(* Proofs about Reassembler, for any packets, limits and frame numbers:    *)
(* the frames returned are in order, what is held is bounded, and push     *)
(* returns exactly the frames there are in what has arrived.               *)
(*                                                                         *)
(* Two invariants: what is held of an open frame is its fragments 1, 2,    *)
(* ... up to the one before the index due (IInv), and these are the only   *)
(* fragments at the end of the log that a last one could complete          *)
(* (OpenInv).  What the recursive definitions of the reference return is   *)
(* proved by induction on sequences (see SelectionProofs).                 *)
(***************************************************************************)
EXTENDS Reassembler, SelectionProofs

\* The fragments fs of frame s, indices 1 to Len(fs).
BeginsFrame(fs, s) == \A j \in 1..Len(fs) : fs[j].seq = s /\ fs[j].index = j

HeldInv ==
  \A s \in FrameNumbers :
    /\ BeginsFrame(fragments[s], s)
    /\ expected[s] # 0 => expected[s] = Len(fragments[s]) + 1
    /\ expected[s] # 1
    /\ expected[s] = 0 => fragments[s] = <<>>

IInv == TypeOK /\ HeldInv /\ HeldIsBounded /\ FrameIsInOrder

\* What push holds of the frame of a packet that fits: a prefix of the frame,
\* as long as the index due says, within the limit.
LEMMA HeldFacts ==
  ASSUME IInv, NEW p \in Packets
  PROVE  /\ p \in PacketType /\ p.seq \in FrameNumbers
         /\ Held(p) \in Seq(Packets) /\ BeginsFrame(Held(p), p.seq)
         /\ HeldSize(p) \in Nat /\ Due(p) \in Nat
         /\ MetadataWith(p) \in {<<>>} \union {<<q>> : q \in Packets}
         /\ Due(p) # 0 => Due(p) = Len(Held(p)) + 1
<1>1. p \in PacketType /\ p.seq \in FrameNumbers
  BY PacketsAssumption DEF PacketType
<1>2. CASE p.index = 1
  <2>1. <<>> \in Seq(Packets) /\ Len(<<>>) = 0
    BY EmptySeq
  <2>2. BeginsFrame(<<>>, p.seq)
    BY DEF BeginsFrame
  <2> QED
    BY <1>1, <1>2, <2>1, <2>2
    DEF Held, HeldSize, HeldMetadata, MetadataWith, Due
<1>3. CASE p.index # 1
  BY <1>1, <1>3
  DEF IInv, TypeOK, HeldInv, Held, HeldSize, HeldMetadata, MetadataWith, Due
<1> QED
  BY <1>2, <1>3

\* A prefix with the packet that has the index due is a prefix.
LEMMA Extend ==
  ASSUME NEW fs \in Seq(Packets), NEW p \in Packets, BeginsFrame(fs, p.seq)
  PROVE  /\ Append(fs, p) \in Seq(Packets)
         /\ Len(Append(fs, p)) = Len(fs) + 1
         /\ Append(fs, p) # <<>>
         /\ Append(fs, p)[Len(fs) + 1] = p
         /\ \A j \in 1..Len(fs) : Append(fs, p)[j].seq = p.seq
                                  /\ Append(fs, p)[j].index = j
<1>1. /\ Append(fs, p) \in Seq(Packets)
      /\ Len(Append(fs, p)) = Len(fs) + 1
      /\ \A j \in 1..Len(fs) : Append(fs, p)[j] = fs[j]
      /\ Append(fs, p)[Len(fs) + 1] = p
  BY AppendProperties
<1>2. Append(fs, p) # <<>>
  BY <1>1, LenProperties, EmptySeq
<1> QED
  BY <1>1, <1>2 DEF BeginsFrame

-----------------------------------------------------------------------------
\* The initial state satisfies the invariant.
LEMMA InitIInv == Init => IInv
<1> SUFFICES ASSUME Init PROVE IInv
  OBVIOUS
<1>1. <<>> \in Seq(Packets) /\ Len(<<>>) = 0
  BY EmptySeq
<1>2. TypeOK
  BY <1>1 DEF Init, TypeOK
<1>3. HeldInv
  BY <1>1 DEF Init, HeldInv, BeginsFrame
<1>4. HeldIsBounded /\ FrameIsInOrder
  BY PacketsAssumption DEF Init, HeldIsBounded, FrameIsInOrder
<1> QED
  BY <1>2, <1>3, <1>4 DEF IInv

\* A dropped frame leaves nothing behind.
LEMMA DropStep ==
  ASSUME IInv, NEW p \in Packets, Drop(p.seq)
  PROVE  HeldInv' /\ HeldIsBounded'
         /\ fragments' \in [FrameNumbers -> Seq(Packets)]
         /\ sizes' \in [FrameNumbers -> Nat]
         /\ metadata' \in [FrameNumbers -> {<<>>} \union {<<q>> : q \in Packets}]
         /\ expected' \in [FrameNumbers -> Nat]
<1>1. <<>> \in Seq(Packets) /\ Len(<<>>) = 0
  BY EmptySeq
<1>2. p.seq \in FrameNumbers
  BY HeldFacts
<1>3. /\ fragments' \in [FrameNumbers -> Seq(Packets)]
      /\ sizes' \in [FrameNumbers -> Nat]
      /\ metadata' \in [FrameNumbers -> {<<>>} \union {<<q>> : q \in Packets}]
      /\ expected' \in [FrameNumbers -> Nat]
  BY <1>1, <1>2 DEF IInv, TypeOK, Drop
<1>4. HeldInv'
  BY <1>1, <1>2 DEF IInv, TypeOK, HeldInv, BeginsFrame, Drop
<1>5. HeldIsBounded'
  BY <1>2, PacketsAssumption DEF IInv, TypeOK, HeldIsBounded, Drop
<1> QED
  BY <1>3, <1>4, <1>5

\* A kept fragment extends the prefix that is held.
LEMMA KeepStep ==
  ASSUME IInv, NEW p \in Packets, Keep(p), log' \in Seq(Packets)
  PROVE  IInv'
<1> USE DEF Keep
<1>1. /\ p \in PacketType /\ p.seq \in FrameNumbers /\ HeldSize(p) \in Nat
      /\ MetadataWith(p) \in {<<>>} \union {<<q>> : q \in Packets}
      /\ Due(p) \in Nat /\ Due(p) # 0 /\ Due(p) = Len(Held(p)) + 1
      /\ p.index = Due(p)
  BY HeldFacts DEF Fits
<1> DEFINE new == Append(Held(p), p)
<1>2. /\ new \in Seq(Packets) /\ Len(new) = Len(Held(p)) + 1
      /\ BeginsFrame(new, p.seq)
  <2>1. Held(p) \in Seq(Packets) /\ BeginsFrame(Held(p), p.seq)
    BY HeldFacts
  <2>2. Len(Held(p)) \in Nat
    BY <2>1, LenProperties
  <2> QED
    BY <1>1, <2>1, <2>2, Extend DEF BeginsFrame
<1>3. <<>> \in Seq(Packets)
  BY EmptySeq
<1> HIDE DEF new
<1>4. fragments' = [fragments EXCEPT ![p.seq] = new]
  BY DEF new
<1>5. TypeOK'
  <2>1. fragments' \in [FrameNumbers -> Seq(Packets)]
    BY <1>1, <1>2, <1>4 DEF IInv, TypeOK
  <2>2. sizes' \in [FrameNumbers -> Nat] /\ expected' \in [FrameNumbers -> Nat]
    BY <1>1 DEF IInv, TypeOK, PacketType
  <2>3. metadata' \in [FrameNumbers -> {<<>>} \union {<<q>> : q \in Packets}]
    BY <1>1 DEF IInv, TypeOK
  <2> QED
    BY <1>3, <2>1, <2>2, <2>3 DEF TypeOK
<1>6. HeldInv'
  <2>1. expected' = [expected EXCEPT ![p.seq] = Len(new) + 1]
    BY <1>1, <1>2
  <2>2. Len(new) \in Nat
    BY <1>2, LenProperties
  <2> SUFFICES ASSUME NEW s \in FrameNumbers
               PROVE  /\ BeginsFrame(fragments'[s], s)
                      /\ expected'[s] # 0 => expected'[s] = Len(fragments'[s]) + 1
                      /\ expected'[s] # 1
                      /\ expected'[s] = 0 => fragments'[s] = <<>>
    BY DEF HeldInv, BeginsFrame
  <2>3. CASE s = p.seq
    <3>1. fragments'[s] = new /\ expected'[s] = Len(new) + 1
      BY <1>1, <1>4, <2>1, <2>3 DEF IInv, TypeOK
    <3>2. Len(new) # 0
      BY <1>1, <1>2
    <3>3. /\ expected'[s] = Len(fragments'[s]) + 1
          /\ expected'[s] # 1 /\ expected'[s] # 0
      BY ONLY <2>2, <3>1, <3>2
    <3>4. BeginsFrame(fragments'[s], s)
      BY ONLY <1>2, <2>3, <3>1 DEF BeginsFrame
    <3> QED
      BY ONLY <3>3, <3>4
  <2>4. CASE s # p.seq
    <3>1. fragments'[s] = fragments[s] /\ expected'[s] = expected[s]
      BY <1>1, <1>4, <2>1, <2>4 DEF IInv, TypeOK
    <3>2. /\ BeginsFrame(fragments[s], s)
          /\ expected[s] # 0 => expected[s] = Len(fragments[s]) + 1
          /\ expected[s] # 1
          /\ expected[s] = 0 => fragments[s] = <<>>
      BY ONLY IInv, s \in FrameNumbers DEF IInv, HeldInv
    <3> QED
      BY ONLY <3>1, <3>2 DEF BeginsFrame
  <2> QED
    BY <2>3, <2>4
<1>7. HeldIsBounded'
  BY <1>1, <1>4 DEF IInv, TypeOK, HeldIsBounded
<1>8. FrameIsInOrder'
  BY DEF FrameIsInOrder
<1> QED
  BY <1>5, <1>6, <1>7, <1>8 DEF IInv

\* A returned frame is the prefix that was held and its last fragment.
LEMMA CompleteStep ==
  ASSUME IInv, NEW p \in Packets, Complete(p), log' \in Seq(Packets)
  PROVE  IInv'
<1> USE DEF Complete
<1> DEFINE new == Append(Held(p), p)
<1>1. /\ Held(p) \in Seq(Packets) /\ BeginsFrame(Held(p), p.seq)
      /\ Due(p) # 0 /\ Due(p) = Len(Held(p)) + 1
  BY HeldFacts DEF Fits
<1>2. /\ new \in Seq(Packets) /\ Len(new) = Len(Held(p)) + 1
      /\ new[Len(new)] = p
      /\ \A j \in 1..Len(Held(p)) : new[j].seq = p.seq /\ new[j].index = j
  BY <1>1, Extend
<1>3. Len(Held(p)) \in Nat /\ Len(Held(p)) > 0
  <2>1. Len(Held(p)) \in Nat
    BY <1>1, LenProperties
  <2>2. Len(Held(p)) # 0
    <3>1. CASE p.index = 1
      BY <3>1, PacketsAssumption
    <3>2. CASE p.index # 1
      BY <1>1, <3>2, HeldFacts DEF IInv, HeldInv, Due
    <3> QED
      BY <3>1, <3>2
  <2> QED
    BY <2>1, <2>2
<1>4. <<>> \in Seq(Packets)
  BY EmptySeq
<1>5. frame' \in {<<>>, new}
  OBVIOUS
<1>6. FrameIsInOrder'
  <2> SUFFICES ASSUME frame' = new
               PROVE  /\ Len(new) > 1
                      /\ \A j \in 1..Len(new) :
                           /\ new[j].seq = new[1].seq
                           /\ new[j].index = IF j = Len(new) THEN FinalIndex ELSE j
    BY <1>5 DEF FrameIsInOrder
  <2>1. new[1].seq = p.seq /\ p.index = FinalIndex
    BY <1>2, <1>3
  <2> HIDE DEF new, Complete
  <2> QED
    BY <1>2, <1>3, <2>1
<1>7. HeldInv' /\ HeldIsBounded'
      /\ fragments' \in [FrameNumbers -> Seq(Packets)]
      /\ sizes' \in [FrameNumbers -> Nat]
      /\ metadata' \in [FrameNumbers -> {<<>>} \union {<<q>> : q \in Packets}]
      /\ expected' \in [FrameNumbers -> Nat]
  BY DropStep
<1> HIDE DEF new, Complete
<1> QED
  BY <1>2, <1>4, <1>5, <1>6, <1>7 DEF IInv, TypeOK

\* Every push keeps the invariant.
LEMMA StepIInv == IInv /\ [Next]_vars => IInv'
<1> SUFFICES ASSUME IInv, [Next]_vars PROVE IInv'
  OBVIOUS
<1>1. ASSUME NEW p \in Packets, Push(p) PROVE IInv'
  <2>1. log' \in Seq(Packets)
    BY <1>1, AppendProperties DEF Push, IInv, TypeOK
  <2>2. <<>> \in Seq(Packets)
    BY EmptySeq
  <2>3. CASE Ignore(p)
    BY <2>1, <2>2, <2>3
    DEF Ignore, heldVars, IInv, TypeOK, HeldInv, HeldIsBounded, FrameIsInOrder
  <2>4. CASE Drop(p.seq) /\ frame' = <<>>
    BY <2>1, <2>2, <2>4, DropStep DEF IInv, TypeOK, FrameIsInOrder
  <2>5. CASE Keep(p)
    BY <2>1, <2>5, KeepStep
  <2>6. CASE Complete(p)
    BY <2>1, <2>6, CompleteStep
  <2> QED
    BY <1>1, <2>3, <2>4, <2>5, <2>6
    DEF Push, DropMalformed, DropAtGap, DropOversized
<1>2. CASE UNCHANGED vars
  BY <1>2 DEF vars, heldVars, IInv, TypeOK, HeldInv, HeldIsBounded, FrameIsInOrder
<1> QED
  BY <1>1, <1>2 DEF Next

\* The invariant always holds.
LEMMA Invariance == Spec => []IInv
  BY InitIInv, StepIInv, PTL DEF Spec

\* Whatever packets arrive, a frame push returns is the consecutive fragments of
\* one frame, from the first, with a last fragment behind them.
THEOREM FramesInOrder == Spec => []FrameIsInOrder
<1>1. IInv => FrameIsInOrder
  BY DEF IInv
<1> QED
  BY <1>1, Invariance, PTL

\* Whatever packets arrive, no frame holds more than max_frame_bytes, and nothing
\* is held of a frame that is not open.
THEOREM BoundedFrames == Spec => []HeldIsBounded
<1>1. IInv => HeldIsBounded
  BY DEF IInv
<1> QED
  BY <1>1, Invariance, PTL
-----------------------------------------------------------------------------
(* What the definitions of the reference return.                           *)

\* f counts the bytes of the first n fragments of fs.
Counts(f, fs, n) ==
  f = [i \in 0..n |-> IF i = 0 THEN 0 ELSE f[i - 1] + fs[i].size]

\* There is such a function for each n.
LEMMA CountsExists ==
  ASSUME NEW fs, NEW n \in Nat
  PROVE  \E f : Counts(f, fs, n)
<1> DEFINE T == {m \in Nat : \E f : Counts(f, fs, m)}
<1>1. 0 \in T
  <2> DEFINE f == [i \in 0..0 |-> 0]
  <2>1. Counts(f, fs, 0)
    BY DEF Counts
  <2> QED
    BY <2>1
<1>2. ASSUME NEW m \in Nat, m \in T PROVE m + 1 \in T
  <2>1. PICK f : Counts(f, fs, m)
    BY <1>2
  <2> DEFINE g == [i \in 0..(m + 1) |-> IF i = m + 1 THEN f[m] + fs[m + 1].size ELSE f[i]]
  <2>2. ASSUME NEW i \in 0..(m + 1)
        PROVE  g[i] = IF i = 0 THEN 0 ELSE g[i - 1] + fs[i].size
    <3>1. CASE i = m + 1
      <4>1. i # 0 /\ i - 1 = m /\ m \in 0..(m + 1) /\ m # m + 1
        BY <3>1
      <4>2. g[i - 1] = f[m]
        BY <4>1
      <4> QED
        BY <3>1, <4>1, <4>2
    <3>2. CASE i # m + 1
      <4>1. i \in 0..m /\ g[i] = f[i]
        BY <3>2
      <4>2. i # 0 => i - 1 \in 0..(m + 1) /\ i - 1 # m + 1 /\ g[i - 1] = f[i - 1]
        BY <3>2
      <4> QED
        BY <2>1, <4>1, <4>2 DEF Counts
    <3> QED
      BY <3>1, <3>2
  <2>3. Counts(g, fs, m + 1)
    <3>1. g = [i \in 0..(m + 1) |-> g[i]]
      OBVIOUS
    <3> HIDE DEF g
    <3> QED
      BY <2>2, <3>1 DEF Counts
  <2> QED
    BY <2>3
<1>3. Nat \subseteq T
  <2> HIDE DEF T
  <2> QED
    BY <1>1, <1>2, NumberInduction
<1> QED
  BY <1>3

\* Two of them agree wherever their sequences do.
LEMMA CountsUnique ==
  ASSUME NEW fs, NEW gs, NEW m \in Nat, NEW n \in Nat, NEW f, NEW g,
         Counts(f, fs, m), Counts(g, gs, n),
         NEW k \in Nat, k <= m, k <= n, \A i \in 1..k : fs[i] = gs[i]
  PROVE  f[k] = g[k]
<1> DEFINE T == {i \in Nat : i <= k => f[i] = g[i]}
<1>1. 0 \in T
  <2>1. 0 \in 0..m /\ 0 \in 0..n
    OBVIOUS
  <2>2. f[0] = 0 /\ g[0] = 0
    BY <2>1 DEF Counts
  <2> QED
    BY <2>2
<1>2. ASSUME NEW i \in Nat, i \in T PROVE i + 1 \in T
  <2> SUFFICES ASSUME i + 1 <= k PROVE f[i + 1] = g[i + 1]
    OBVIOUS
  <2>1. /\ i + 1 \in 0..m /\ i + 1 \in 0..n /\ i + 1 # 0 /\ (i + 1) - 1 = i /\ i + 1 \in 1..k
        /\ i <= k
    OBVIOUS
  <2>2. f[i] = g[i] /\ fs[i + 1] = gs[i + 1]
    BY <1>2, <2>1
  <2>3. f[i + 1] = f[i] + fs[i + 1].size /\ g[i + 1] = g[i] + gs[i + 1].size
    BY <2>1 DEF Counts
  <2> QED
    BY <2>2, <2>3
<1>3. Nat \subseteq T
  <2> HIDE DEF T
  <2> QED
    BY <1>1, <1>2, NumberInduction
<1> QED
  BY <1>3

\* What SizeOf is, by the function that counts it.
LEMMA SizeIs ==
  ASSUME NEW fs, Len(fs) \in Nat
  PROVE  \E f : Counts(f, fs, Len(fs)) /\ SizeOf(fs) = f[Len(fs)]
<1> DEFINE F == CHOOSE f : Counts(f, fs, Len(fs))
<1>1. Counts(F, fs, Len(fs))
  BY CountsExists
<1>2. SizeOf(fs) = F[Len(fs)]
  BY DEF SizeOf, Counts
<1> QED
  BY <1>1, <1>2

\* No fragment has no bytes.
LEMMA SizeEmpty == SizeOf(<<>>) = 0
<1>1. Len(<<>>) = 0 /\ 0 \in 0..0
  BY EmptySeq
<1>2. PICK f : Counts(f, <<>>, 0) /\ SizeOf(<<>>) = f[0]
  BY <1>1, SizeIs
<1> QED
  BY <1>1, <1>2 DEF Counts

\* One more fragment adds its bytes.
LEMMA SizeAppend ==
  ASSUME NEW fs \in Seq(Packets), NEW p \in Packets
  PROVE  SizeOf(Append(fs, p)) = SizeOf(fs) + p.size
<1> DEFINE t == Append(fs, p)
           n == Len(fs)
<1>1. /\ n \in Nat /\ Len(t) = n + 1 /\ t[n + 1] = p
      /\ \A i \in 1..n : t[i] = fs[i]
  BY AppendProperties, LenProperties
<1> HIDE DEF t, n
<1>2. PICK f : Counts(f, fs, n) /\ SizeOf(fs) = f[n]
  BY <1>1, SizeIs DEF n
<1>3. PICK g : Counts(g, t, n + 1) /\ SizeOf(t) = g[n + 1]
  BY <1>1, SizeIs
<1>4. g[n] = f[n]
  BY <1>1, <1>2, <1>3, CountsUnique
<1>5. n + 1 \in 0..(n + 1) /\ n + 1 # 0 /\ (n + 1) - 1 = n
  BY <1>1
<1>6. g[n + 1] = g[n] + t[n + 1].size
  BY <1>3, <1>5 DEF Counts
<1> QED
  BY <1>1, <1>2, <1>3, <1>4, <1>6 DEF t

\* Bytes are counted in numbers.
LEMMA SizeType == ASSUME NEW fs \in Seq(Packets) PROVE SizeOf(fs) \in Nat
<1> DEFINE T == {t \in Seq(Packets) : SizeOf(t) \in Nat}
<1>1. <<>> \in T
  BY SizeEmpty, EmptySeq
<1>2. ASSUME NEW t \in Seq(Packets), NEW p \in Packets, t \in T PROVE Append(t, p) \in T
  <2>1. p.size \in Nat
    BY PacketsAssumption DEF PacketType
  <2> QED
    BY <1>2, <2>1, SizeAppend, AppendProperties
<1>3. Seq(Packets) \subseteq T
  <2> HIDE DEF T
  <2> QED
    BY <1>1, <1>2, SequenceInduction
<1> QED
  BY <1>3

\* No fragment has no head.
LEMMA HeadEmpty == HeadOf(<<>>) = <<>>
  BY OnlyEmpty DEF HeadOf

\* One more fragment is the head if it is the first with one: setdefault.
LEMMA HeadAppend ==
  ASSUME NEW fs \in Seq(Packets), NEW p \in Packets
  PROVE  HeadOf(Append(fs, p)) = IF p.head > 0 /\ HeadOf(fs) = <<>> THEN <<p>> ELSE HeadOf(fs)
<1> DEFINE K == {q \in Packets : q.head > 0}
           r == Only(fs, K)
           t == Only(Append(fs, p), K)
<1>1. r \in Seq(Packets)
  BY OnlyType
<1>2. t = IF p \in K THEN Append(r, p) ELSE r
  BY OnlyAppend
<1>3. /\ HeadOf(fs) = IF r = <<>> THEN <<>> ELSE <<r[1]>>
      /\ HeadOf(Append(fs, p)) = IF t = <<>> THEN <<>> ELSE <<t[1]>>
  BY DEF HeadOf
<1>4. p \in K <=> p.head > 0
  OBVIOUS
<1>5. Append(r, p) # <<>> /\ Append(r, p)[1] = IF r = <<>> THEN p ELSE r[1]
  <2> HIDE DEF r
  <2>1. /\ Len(r) \in Nat /\ Len(Append(r, p)) = Len(r) + 1 /\ Append(r, p)[Len(r) + 1] = p
        /\ \A i \in 1..Len(r) : Append(r, p)[i] = r[i]
    BY <1>1, AppendProperties, LenProperties
  <2>2. r = <<>> => Len(r) = 0
    BY EmptySeq
  <2>3. r # <<>> => 1 \in 1..Len(r)
    BY <1>1, EmptySeq
  <2>4. Append(r, p) # <<>>
    BY <1>1
  <2> QED
    BY <2>1, <2>2, <2>3, <2>4
<1> HIDE DEF r, t, K
<1>6. <<r[1]>> # <<>>
  OBVIOUS
<1>7. CASE p \in K
  BY <1>2, <1>3, <1>4, <1>5, <1>6, <1>7
<1>8. CASE p \notin K
  BY <1>2, <1>3, <1>4, <1>8
<1> QED
  BY <1>7, <1>8

\* The tails of a longer sequence are the tails, and no fragment, with the new one.
LEMMA TailsAppend ==
  ASSUME NEW fs \in Seq(Packets), NEW p \in Packets
  PROVE  Tails(Append(fs, p)) = {Append(u, p) : u \in Tails(fs) \union {<<>>}}
<1> DEFINE t == Append(fs, p)
           n == Len(fs)
<1>1. /\ t \in Seq(Packets) /\ n \in Nat /\ Len(t) = n + 1 /\ t[n + 1] = p
      /\ \A i \in 1..n : t[i] = fs[i] /\ fs[i] \in Packets
  BY AppendProperties, LenProperties, ElementOfSeq
<1> HIDE DEF t, n
<1>2. SubSeq(fs, n + 1, n) = <<>>
  BY <1>1, SubSeqEmpty
<1>3. ASSUME NEW i \in 1..(n + 1) PROVE SubSeq(t, i, n + 1) = Append(SubSeq(fs, i, n), p)
  <2> DEFINE u == SubSeq(fs, i, n)
             v == SubSeq(t, i, n + 1)
             k == n - i + 1
  <2>0. k \in Nat /\ i \in Int /\ n \in Int /\ n + 1 \in Int /\ i <= n + 1
        /\ (i <= n \/ k = 0) /\ (n + 1) - i + 1 = k + 1
    BY <1>1
  <2>1. u \in Seq(Packets) /\ Len(u) = k /\ \A j \in 1..k : u[j] = fs[i + j - 1]
    <3>1. \A j \in i..n : fs[j] \in Packets
      BY <1>1
    <3> QED
      BY <2>0, <3>1, SubSeqProperties
  <2>2. v \in Seq(Packets) /\ Len(v) = k + 1 /\ \A j \in 1..(k + 1) : v[j] = t[i + j - 1]
    <3>1. \A j \in i..(n + 1) : t[j] \in Packets
      BY <1>1
    <3> QED
      BY <2>0, <3>1, SubSeqProperties
  <2> HIDE DEF u, v
  <2>3. /\ Append(u, p) \in Seq(Packets) /\ Len(Append(u, p)) = k + 1
        /\ Append(u, p)[k + 1] = p /\ \A j \in 1..k : Append(u, p)[j] = u[j]
    BY <2>1, AppendProperties
  <2>4. ASSUME NEW j \in 1..(k + 1) PROVE v[j] = Append(u, p)[j]
    <3>1. CASE j = k + 1
      <4>1. i + j - 1 = n + 1
        BY <2>0, <3>1
      <4> QED
        BY <1>1, <2>2, <2>3, <3>1, <4>1
    <3>2. CASE j # k + 1
      <4>1. j \in 1..k /\ i + j - 1 \in 1..n
        BY <1>1, <2>0, <3>2
      <4> QED
        BY <1>1, <2>1, <2>2, <2>3, <4>1
    <3> QED
      BY <3>1, <3>2
  <2>5. v = Append(u, p)
    BY <2>2, <2>3, <2>4, SeqEqual
  <2> QED
    BY <2>5 DEF u, v
<1>4. Tails(t) = {SubSeq(t, i, n + 1) : i \in 1..(n + 1)}
  BY <1>1 DEF Tails
<1>5. Tails(fs) = {SubSeq(fs, i, n) : i \in 1..n}
  BY DEF Tails, n
<1>6. 1..(n + 1) = 1..n \union {n + 1}
  BY <1>1
<1>7. Tails(t) = {Append(u, p) : u \in Tails(fs) \union {<<>>}}
  <2> HIDE DEF t, n
  <2>1. Tails(fs) \union {<<>>} = {SubSeq(fs, i, n) : i \in 1..(n + 1)}
    <3> DEFINE U(i) == SubSeq(fs, i, n)
    <3>1. Tails(fs) = {U(i) : i \in 1..n} /\ U(n + 1) = <<>>
      BY <1>2, <1>5
    <3> HIDE DEF U
    <3>2. {U(i) : i \in 1..n} \union {U(n + 1)} = {U(i) : i \in 1..(n + 1)}
      BY ONLY <1>6
    <3>3. Tails(fs) \union {<<>>} = {U(i) : i \in 1..(n + 1)}
      BY <3>1, <3>2
    <3> QED
      BY <3>3 DEF U
  <2> QED
    BY <1>3, <1>4, <2>1, ZenonT(60)
<1> QED
  BY <1>7 DEF t

\* A tail is not empty, and a sequence of packets.
LEMMA TailsType ==
  ASSUME NEW fs \in Seq(Packets), NEW u \in Tails(fs)
  PROVE  u \in Seq(Packets) /\ u # <<>>
<1>1. PICK i \in 1..Len(fs) : u = SubSeq(fs, i, Len(fs))
  BY DEF Tails
<1>2. Len(fs) \in Nat /\ i \in Int /\ Len(fs) \in Int /\ i <= Len(fs)
  BY LenProperties
<1>3. \A j \in i..Len(fs) : fs[j] \in Packets
  BY <1>2, ElementOfSeq
<1>4. u \in Seq(Packets) /\ Len(u) = Len(fs) - i + 1
  BY <1>1, <1>2, <1>3, SubSeqProperties
<1> QED
  BY <1>2, <1>4, EmptySeq

-----------------------------------------------------------------------------
(* What is held is what has arrived of the frame since its index 1.        *)

\* Fragments that a last one may follow: 1, 2, ... within the limit.
Begun(fs) ==
  /\ \A j \in 1..Len(fs) : fs[j].wellFormed /\ fs[j].index = j /\ j # FinalIndex
  /\ SizeOf(fs) <= MaxFrameSize

\* The fragments of frame s that have arrived.
Since(s) == Only(log, FragmentsOf(s))

\* The only beginning of s there is to complete is the one that is held, with its
\* bytes and its head.
Open(s) ==
  /\ \A fs \in Tails(Since(s)) : Begun(fs) => expected[s] # 0 /\ fs = fragments[s]
  /\ expected[s] # 0 =>
       /\ fragments[s] \in Tails(Since(s)) /\ Begun(fragments[s])
       /\ sizes[s] = SizeOf(fragments[s]) /\ metadata[s] = HeadOf(fragments[s])

OpenInv == (\A s \in FrameNumbers : Open(s)) /\ ReturnsWhatArrived

\* No fragment at all is a beginning.
LEMMA BegunEmpty == Begun(<<>>)
<1>1. 0 <= MaxFrameSize /\ Len(<<>>) = 0
  BY PacketsAssumption
<1> QED
  BY <1>1, SizeEmpty DEF Begun

\* One more fragment makes a longer beginning if it is the one due.
LEMMA BegunAppend ==
  ASSUME NEW u \in Seq(Packets), NEW p \in Packets
  PROVE  Begun(Append(u, p)) <=>
           /\ Begun(u)
           /\ p.wellFormed /\ p.index = Len(u) + 1 /\ p.index # FinalIndex
           /\ SizeOf(u) + p.size <= MaxFrameSize
<1> DEFINE t == Append(u, p)
           n == Len(u)
<1>1. /\ n \in Nat /\ Len(t) = n + 1 /\ t[n + 1] = p /\ \A i \in 1..n : t[i] = u[i]
  BY AppendProperties, LenProperties
<1>2. SizeOf(t) = SizeOf(u) + p.size
  BY SizeAppend
<1>3. SizeOf(u) \in Nat /\ p.size \in Nat /\ MaxFrameSize \in Nat
  BY SizeType, PacketsAssumption DEF PacketType
<1> HIDE DEF t, n
<1>4. SizeOf(t) <= MaxFrameSize => SizeOf(u) <= MaxFrameSize
  BY <1>2, <1>3
<1>5. (\A j \in 1..(n + 1) : t[j].wellFormed /\ t[j].index = j /\ j # FinalIndex)
      <=> /\ \A j \in 1..n : u[j].wellFormed /\ u[j].index = j /\ j # FinalIndex
          /\ p.wellFormed /\ p.index = n + 1 /\ n + 1 # FinalIndex
  <2>1. n + 1 \in 1..(n + 1) /\ \A j \in 1..(n + 1) : j = n + 1 \/ j \in 1..n
    BY <1>1
  <2>2. \A j \in 1..n : j \in 1..(n + 1)
    BY <1>1
  <2> QED
    BY <1>1, <2>1, <2>2
<1>6. Begun(t) <=> /\ \A j \in 1..(n + 1) : t[j].wellFormed /\ t[j].index = j /\ j # FinalIndex
                   /\ SizeOf(t) <= MaxFrameSize
  BY <1>1 DEF Begun
<1>7. Begun(u) <=> /\ \A j \in 1..n : u[j].wellFormed /\ u[j].index = j /\ j # FinalIndex
                   /\ SizeOf(u) <= MaxFrameSize
  BY DEF Begun, n
<1>8. Begun(t) <=> /\ Begun(u)
                   /\ p.wellFormed /\ p.index = n + 1 /\ p.index # FinalIndex
                   /\ SizeOf(t) <= MaxFrameSize
  BY <1>4, <1>5, <1>6, <1>7
<1> QED
  BY <1>2, <1>8 DEF t, n

\* A frame is a beginning with a last fragment.
LEMMA FrameAppend ==
  ASSUME NEW u \in Seq(Packets), NEW p \in Packets
  PROVE  IsFrame(Append(u, p)) <=>
           /\ u # <<>> /\ Begun(u)
           /\ p.wellFormed /\ p.index = FinalIndex
           /\ SizeOf(u) + p.size <= MaxFrameSize
           /\ HeadOf(Append(u, p)) # <<>>
           /\ HeadOf(Append(u, p))[1].head <= SizeOf(u) + p.size
           /\ HeadOf(Append(u, p))[1].head % Block = 0
           /\ IsImage(Append(u, p))
<1> DEFINE t == Append(u, p)
           n == Len(u)
           Rest == /\ HeadOf(t) # <<>>
                   /\ HeadOf(t)[1].head <= SizeOf(t) /\ HeadOf(t)[1].head % Block = 0
                   /\ IsImage(t)
<1>1. /\ n \in Nat /\ Len(t) = n + 1 /\ t[n + 1] = p /\ \A i \in 1..n : t[i] = u[i]
  BY AppendProperties, LenProperties
<1>2. SizeOf(t) = SizeOf(u) + p.size
  BY SizeAppend
<1>3. SizeOf(u) \in Nat /\ p.size \in Nat /\ MaxFrameSize \in Nat /\ FinalIndex \in Nat
      /\ FinalIndex > 1
  BY SizeType, PacketsAssumption DEF PacketType
<1>4. u # <<>> <=> n # 0
  BY EmptySeq
<1> HIDE DEF t, n
<1>5. SizeOf(t) <= MaxFrameSize => SizeOf(u) <= MaxFrameSize
  BY <1>2, <1>3
<1>6. IsFrame(t) <=>
        /\ n + 1 \in 2..FinalIndex
        /\ \A j \in 1..(n + 1) :
             t[j].wellFormed /\ t[j].index = IF j = n + 1 THEN FinalIndex ELSE j
        /\ SizeOf(t) <= MaxFrameSize /\ Rest
  BY <1>1 DEF IsFrame
<1>7. Begun(u) <=> /\ \A j \in 1..n : u[j].wellFormed /\ u[j].index = j /\ j # FinalIndex
                   /\ SizeOf(u) <= MaxFrameSize
  BY DEF Begun, n
<1>8. (\A j \in 1..(n + 1) :
         t[j].wellFormed /\ t[j].index = IF j = n + 1 THEN FinalIndex ELSE j)
      <=> /\ \A j \in 1..n : u[j].wellFormed /\ u[j].index = j
          /\ p.wellFormed /\ p.index = FinalIndex
  <2>1. n + 1 \in 1..(n + 1) /\ \A j \in 1..(n + 1) : j = n + 1 \/ j \in 1..n
    BY <1>1
  <2>2. \A j \in 1..n : j \in 1..(n + 1) /\ j # n + 1
    BY <1>1
  <2> QED
    BY <1>1, <2>1, <2>2
<1>9. n + 1 \in 2..FinalIndex <=> n # 0 /\ \A j \in 1..n : j # FinalIndex
  <2>1. n + 1 \in 2..FinalIndex <=> n # 0 /\ n < FinalIndex
    BY <1>1, <1>3
  <2>2. n < FinalIndex => \A j \in 1..n : j # FinalIndex
    BY <1>1, <1>3
  <2>3. ~(n < FinalIndex) => FinalIndex \in 1..n
    BY <1>1, <1>3
  <2> QED
    BY <2>1, <2>2, <2>3
<1> HIDE DEF Rest
<1>10. IsFrame(t) <=>
         /\ u # <<>> /\ Begun(u) /\ p.wellFormed /\ p.index = FinalIndex
         /\ SizeOf(t) <= MaxFrameSize /\ Rest
  BY <1>4, <1>5, <1>6, <1>7, <1>8, <1>9
<1> QED
  BY <1>2, <1>10 DEF t, Rest

\* p is the next fragment, or the last one, behind u.
Continues(p, u) ==
  Begun(u) /\ (p.index = Len(u) + 1 \/ (p.index = FinalIndex /\ u # <<>>))

\* What push holds of the frame of p is the only thing p could continue.
LEMMA HeldIsOpen ==
  ASSUME IInv, OpenInv, NEW p \in Packets
  PROVE  /\ Due(p) # 0 =>
              /\ Held(p) \in Tails(Since(p.seq)) \union {<<>>} /\ Begun(Held(p))
              /\ HeldSize(p) = SizeOf(Held(p)) /\ HeldMetadata(p) = HeadOf(Held(p))
              /\ p.index = FinalIndex => Held(p) # <<>>
         /\ \A u \in Tails(Since(p.seq)) \union {<<>>} :
              Continues(p, u) => Due(p) # 0 /\ u = Held(p)
<1>0. p.seq \in FrameNumbers /\ Open(p.seq) /\ 1 # FinalIndex /\ Len(<<>>) = 0
  BY HeldFacts, PacketsAssumption DEF OpenInv
<1>1. log \in Seq(Packets) /\ Since(p.seq) \in Seq(Packets)
  BY OnlyType DEF IInv, TypeOK, Since
<1>2. CASE p.index = 1
  <2>1. Held(p) = <<>> /\ HeldSize(p) = 0 /\ HeldMetadata(p) = <<>> /\ Due(p) = 1
    BY <1>2 DEF Held, HeldSize, HeldMetadata, Due
  <2>2. ASSUME NEW u \in Tails(Since(p.seq)) \union {<<>>}, Continues(p, u) PROVE u = <<>>
    <3>1. u \in Seq(Packets)
      BY <1>1, TailsType, EmptySeq
    <3>2. Len(u) \in Nat /\ 1 = Len(u) + 1
      BY <1>0, <1>2, <2>2, <3>1, LenProperties DEF Continues
    <3> QED
      BY <3>1, <3>2, EmptySeq
  <2> QED
    BY <1>0, <1>2, <2>1, <2>2, BegunEmpty, SizeEmpty, HeadEmpty
<1>3. CASE p.index # 1
  <2>1. /\ Held(p) = fragments[p.seq] /\ HeldSize(p) = sizes[p.seq]
        /\ HeldMetadata(p) = metadata[p.seq] /\ Due(p) = expected[p.seq]
    BY <1>3 DEF Held, HeldSize, HeldMetadata, Due
  <2>2. Due(p) # 0 => Held(p) # <<>>
    <3>1. Due(p) # 0 => Due(p) = Len(Held(p)) + 1 /\ Due(p) # 1
      BY <1>0, <2>1 DEF IInv, HeldInv
    <3> QED
      BY <1>0, <3>1
  <2>3. ASSUME NEW u \in Tails(Since(p.seq)) \union {<<>>}, Continues(p, u)
        PROVE  Due(p) # 0 /\ u = Held(p)
    <3>1. u # <<>>
      <4>1. u = <<>> => p.index = Len(u) + 1 /\ Len(u) = 0
        BY <1>0, <2>3 DEF Continues
      <4> QED
        BY <1>3, <4>1
    <3>2. u \in Tails(Since(p.seq)) /\ Begun(u)
      BY <2>3, <3>1 DEF Continues
    <3> QED
      BY <1>0, <2>1, <3>2 DEF Open
  <2> QED
    BY <1>0, <2>1, <2>2, <2>3 DEF Open
<1> QED
  BY <1>2, <1>3

\* The part of push behind the checks: p continues what is held, within the limit.
Within(p) == Fits(p) /\ HeldSize(p) + p.size <= MaxFrameSize

\* With another fragment of its frame the log has one more beginning, or frame, if
\* push keeps it, or completes the frame, and no other.
LEMMA Arrives ==
  ASSUME IInv, OpenInv, NEW p \in Packets, p.video, log' = Append(log, p)
  PROVE  /\ \A fs \in Tails(Since(p.seq)') :
              Begun(fs) <=> /\ Within(p) /\ p.index # FinalIndex
                            /\ fs = Append(Held(p), p)
         /\ \A fs \in Tails(Since(p.seq)') :
              IsFrame(fs) <=> /\ Within(p) /\ p.index = FinalIndex
                              /\ HasHead(p) /\ IsImage(Append(Held(p), p))
                              /\ fs = Append(Held(p), p)
         /\ Within(p) =>
              /\ Append(Held(p), p) \in Tails(Since(p.seq)')
              /\ SizeOf(Append(Held(p), p)) = HeldSize(p) + p.size
              /\ HeadOf(Append(Held(p), p)) = MetadataWith(p)
<1> DEFINE t == Since(p.seq)
           H == Held(p)
<1>0. log \in Seq(Packets) /\ t \in Seq(Packets) /\ H \in Seq(Packets)
  BY OnlyType, HeldFacts DEF IInv, TypeOK, Since
<1>1. /\ Due(p) # 0 =>
           /\ H \in Tails(t) \union {<<>>} /\ Begun(H)
           /\ HeldSize(p) = SizeOf(H) /\ HeldMetadata(p) = HeadOf(H)
           /\ p.index = FinalIndex => H # <<>>
           /\ Due(p) = Len(H) + 1
      /\ \A u \in Tails(t) \union {<<>>} : Continues(p, u) => Due(p) # 0 /\ u = H
  BY HeldIsOpen, HeldFacts
<1>2. Tails(Since(p.seq)') = {Append(u, p) : u \in Tails(t) \union {<<>>}}
  <2>1. Since(p.seq)' = Append(t, p)
    <3>1. p \in FragmentsOf(p.seq)
      BY DEF FragmentsOf
    <3> QED
      BY <1>0, <3>1, OnlyAppend DEF Since
  <2> QED
    BY <1>0, <2>1, TailsAppend
<1> HIDE DEF t, H
<1>3. ASSUME NEW u \in Tails(t) \union {<<>>}, NEW v \in Tails(t) \union {<<>>},
             Append(u, p) = Append(v, p)
      PROVE  u = v
  <2>1. u \in Seq(Packets) /\ v \in Seq(Packets)
    BY <1>0, TailsType, EmptySeq
  <2> QED
    BY <1>3, <2>1
<1>4. ASSUME NEW u \in Tails(t) \union {<<>>}
      PROVE  Begun(Append(u, p)) <=> Within(p) /\ p.index # FinalIndex /\ u = H
  <2>1. u \in Seq(Packets)
    BY <1>0, TailsType, EmptySeq
  <2>2. Begun(Append(u, p)) <=>
           /\ Begun(u)
           /\ p.wellFormed /\ p.index = Len(u) + 1 /\ p.index # FinalIndex
           /\ SizeOf(u) + p.size <= MaxFrameSize
    BY <2>1, BegunAppend
  <2>3. Begun(u) /\ p.index = Len(u) + 1 => Due(p) # 0 /\ u = H
    BY <1>1 DEF Continues
  <2> QED
    BY <1>1, <2>2, <2>3 DEF Within, Fits
<1>5. ASSUME NEW u \in Tails(t) \union {<<>>}
      PROVE  IsFrame(Append(u, p)) <=>
               /\ Within(p) /\ p.index = FinalIndex
               /\ HasHead(p) /\ IsImage(Append(H, p)) /\ u = H
  <2>1. u \in Seq(Packets)
    BY <1>0, TailsType, EmptySeq
  <2>2. IsFrame(Append(u, p)) <=>
           /\ u # <<>> /\ Begun(u)
           /\ p.wellFormed /\ p.index = FinalIndex
           /\ SizeOf(u) + p.size <= MaxFrameSize
           /\ HeadOf(Append(u, p)) # <<>>
           /\ HeadOf(Append(u, p))[1].head <= SizeOf(u) + p.size
           /\ HeadOf(Append(u, p))[1].head % Block = 0
           /\ IsImage(Append(u, p))
    BY <2>1, FrameAppend
  <2>3. u # <<>> /\ Begun(u) /\ p.index = FinalIndex => Due(p) # 0 /\ u = H
    BY <1>1 DEF Continues
  <2>4. Due(p) # 0 => HeadOf(Append(H, p)) = MetadataWith(p)
    BY <1>0, <1>1, HeadAppend DEF MetadataWith
  <2>5. Due(p) # 0 =>
          (HasHead(p) <=> /\ HeadOf(Append(H, p)) # <<>>
                          /\ HeadOf(Append(H, p))[1].head <= SizeOf(H) + p.size
                          /\ HeadOf(Append(H, p))[1].head % Block = 0)
    BY <1>1, <2>4 DEF HasHead
  <2>6. Within(p) /\ p.index = FinalIndex <=>
          /\ Due(p) # 0 /\ p.wellFormed /\ p.index = FinalIndex
          /\ SizeOf(H) + p.size <= MaxFrameSize
    BY <1>1 DEF Within, Fits
  <2>7. CASE Due(p) # 0 /\ u = H
    BY <1>1, <2>2, <2>5, <2>6, <2>7
  <2>8. CASE ~(Due(p) # 0 /\ u = H)
    BY <2>2, <2>3, <2>6, <2>8
  <2> QED
    BY <2>7, <2>8
<1>6. Within(p) => H \in Tails(t) \union {<<>>}
  BY <1>1 DEF Within, Fits
<1>7. ASSUME NEW fs \in Tails(Since(p.seq)')
      PROVE  /\ Begun(fs) <=> Within(p) /\ p.index # FinalIndex /\ fs = Append(H, p)
             /\ IsFrame(fs) <=> /\ Within(p) /\ p.index = FinalIndex
                                /\ HasHead(p) /\ IsImage(Append(H, p))
                                /\ fs = Append(H, p)
  <2>1. PICK u \in Tails(t) \union {<<>>} : fs = Append(u, p)
    BY <1>2
  <2>2. Within(p) => (fs = Append(H, p) <=> u = H)
    BY <1>3, <1>6, <2>1
  <2>3. Begun(fs) <=> Within(p) /\ p.index # FinalIndex /\ u = H
    BY <1>4, <2>1
  <2>4. IsFrame(fs) <=> /\ Within(p) /\ p.index = FinalIndex
                        /\ HasHead(p) /\ IsImage(Append(H, p)) /\ u = H
    BY <1>5, <2>1
  <2> QED
    BY <2>2, <2>3, <2>4
<1>8. Within(p) => /\ Append(H, p) \in Tails(Since(p.seq)')
                   /\ SizeOf(Append(H, p)) = HeldSize(p) + p.size
                   /\ HeadOf(Append(H, p)) = MetadataWith(p)
  <2> SUFFICES ASSUME Within(p)
               PROVE  /\ Append(H, p) \in Tails(Since(p.seq)')
                      /\ SizeOf(Append(H, p)) = HeldSize(p) + p.size
                      /\ HeadOf(Append(H, p)) = MetadataWith(p)
    OBVIOUS
  <2>1. Due(p) # 0
    BY DEF Within, Fits
  <2> QED
    BY <1>0, <1>1, <1>2, <1>6, <2>1, SizeAppend, HeadAppend DEF MetadataWith
<1> QED
  BY <1>7, <1>8 DEF H

\* What ends with a fragment is looked for among the fragments of its frame.
LEMMA EndedBy ==
  ASSUME IInv, NEW p \in Packets, log' = Append(log, p)
  PROVE  FramesEndedBy(log') =
           IF p.video THEN {fs \in Tails(Since(p.seq)') : IsFrame(fs)} ELSE {}
<1>1. log \in Seq(Packets)
  BY DEF IInv, TypeOK
<1>2. log' # <<>> /\ log'[Len(log')] = p
  <2>1. /\ Len(log) \in Nat /\ Len(log') = Len(log) + 1 /\ log'[Len(log) + 1] = p
    BY <1>1, AppendProperties, LenProperties
  <2>2. Len(log') # 0
    BY <2>1
  <2> QED
    BY <2>1, <2>2, EmptySeq
<1> QED
  BY <1>2 DEF FramesEndedBy, Since

\* Nothing changes for a frame that p is no fragment of.
LEMMA Elsewhere ==
  ASSUME IInv, OpenInv, NEW p \in Packets, log' = Append(log, p),
         NEW s \in FrameNumbers, ~p.video \/ s # p.seq,
         fragments'[s] = fragments[s], sizes'[s] = sizes[s],
         metadata'[s] = metadata[s], expected'[s] = expected[s]
  PROVE  Open(s)'
<1>1. Since(s)' = Since(s)
  <2>1. p \notin FragmentsOf(s) /\ log \in Seq(Packets)
    BY DEF FragmentsOf, IInv, TypeOK
  <2> QED
    BY <2>1, OnlyAppend DEF Since
<1>2. Open(s)
  BY DEF OpenInv
<1> QED
  BY <1>1, <1>2 DEF Open

-----------------------------------------------------------------------------
(* The second invariant holds at first, and every push keeps it.           *)

\* Nothing has arrived at first.
LEMMA InitOpen == Init => OpenInv
<1> SUFFICES ASSUME Init PROVE OpenInv
  OBVIOUS
<1>1. ASSUME NEW s \in FrameNumbers PROVE Open(s)
  <2>1. expected[s] = 0 /\ Since(s) = <<>>
    BY OnlyEmpty DEF Init, Since
  <2>2. Tails(<<>>) = {}
    BY EmptySeq DEF Tails
  <2> QED
    BY <2>1, <2>2 DEF Open
<1>2. ReturnsWhatArrived
  BY DEF Init, ReturnsWhatArrived, FramesEndedBy
<1> QED
  BY <1>1, <1>2 DEF OpenInv

\* A push that ends the frame of p, and returns it if it can be completed.
LEMMA EndsFrame ==
  ASSUME IInv, OpenInv, NEW p \in Packets, p.video, log' = Append(log, p), Drop(p.seq),
         ~(Within(p) /\ p.index # FinalIndex),
         frame' = IF Within(p) /\ HasHead(p) /\ IsImage(Append(Held(p), p))
                  THEN Append(Held(p), p) ELSE <<>>
  PROVE  OpenInv'
<1>1. p.seq \in FrameNumbers
  BY HeldFacts
<1>2. ASSUME NEW s \in FrameNumbers PROVE Open(s)'
  <2>1. CASE s = p.seq
    <3>1. expected'[s] = 0
      BY <1>1, <2>1 DEF Drop, IInv, TypeOK
    <3>2. \A fs \in Tails(Since(s)') : ~Begun(fs)
      BY <2>1, Arrives
    <3> QED
      BY <3>1, <3>2 DEF Open
  <2>2. CASE s # p.seq
    <3>1. /\ fragments'[s] = fragments[s] /\ sizes'[s] = sizes[s]
          /\ metadata'[s] = metadata[s] /\ expected'[s] = expected[s]
      BY <1>1, <2>2 DEF Drop, IInv, TypeOK
    <3> QED
      BY <2>2, <3>1, Elsewhere
  <2> QED
    BY <2>1, <2>2
<1>3. ReturnsWhatArrived'
  <2> DEFINE new == Append(Held(p), p)
             ended == {fs \in Tails(Since(p.seq)') : IsFrame(fs)}
  <2>1. FramesEndedBy(log') = ended
    BY EndedBy
  <2>2. /\ \A fs \in Tails(Since(p.seq)') :
              IsFrame(fs) <=> /\ Within(p) /\ p.index = FinalIndex
                              /\ HasHead(p) /\ IsImage(new) /\ fs = new
        /\ Within(p) => new \in Tails(Since(p.seq)')
    BY Arrives
  <2>3. new # <<>>
    <3>1. Held(p) \in Seq(Packets) /\ BeginsFrame(Held(p), p.seq)
      BY HeldFacts
    <3> QED
      BY <3>1, Extend
  <2> HIDE DEF new
  <2>4. CASE Within(p) /\ HasHead(p) /\ IsImage(new)
    <3>1. ended = {new} /\ frame' = new
      BY <2>2, <2>4 DEF new
    <3> QED
      BY <2>1, <2>3, <3>1 DEF ReturnsWhatArrived
  <2>5. CASE ~(Within(p) /\ HasHead(p) /\ IsImage(new))
    <3>1. ended = {}
      BY <2>2, <2>5
    <3>2. frame' = <<>>
      BY <2>5 DEF new
    <3> QED
      BY <2>1, <3>1, <3>2 DEF ReturnsWhatArrived
  <2> QED
    BY <2>4, <2>5
<1> QED
  BY <1>2, <1>3 DEF OpenInv

\* A fragment that is kept makes the beginning longer.
LEMMA KeepsFragment ==
  ASSUME IInv, OpenInv, NEW p \in Packets, log' = Append(log, p), Keep(p)
  PROVE  OpenInv'
<1>1. /\ p.seq \in FrameNumbers /\ p.video /\ Within(p) /\ p.index # FinalIndex
      /\ Due(p) \in Nat /\ frame' = <<>>
  BY HeldFacts DEF Keep, Fits, Within
<1> DEFINE new == Append(Held(p), p)
<1>2. /\ \A fs \in Tails(Since(p.seq)') : Begun(fs) <=> fs = new
      /\ \A fs \in Tails(Since(p.seq)') : ~IsFrame(fs)
      /\ new \in Tails(Since(p.seq)')
      /\ SizeOf(new) = HeldSize(p) + p.size /\ HeadOf(new) = MetadataWith(p)
  BY <1>1, Arrives
<1>3. ASSUME NEW s \in FrameNumbers PROVE Open(s)'
  <2>1. CASE s = p.seq
    <3>1. /\ fragments'[s] = new /\ sizes'[s] = SizeOf(new)
          /\ metadata'[s] = HeadOf(new) /\ expected'[s] = Due(p) + 1
      BY <1>1, <1>2, <2>1 DEF Keep, IInv, TypeOK
    <3>2. expected'[s] # 0
      BY <1>1, <3>1
    <3> HIDE DEF new
    <3> QED
      BY <1>2, <2>1, <3>1, <3>2 DEF Open
  <2>2. CASE s # p.seq
    <3>1. /\ fragments'[s] = fragments[s] /\ sizes'[s] = sizes[s]
          /\ metadata'[s] = metadata[s] /\ expected'[s] = expected[s]
      BY <1>1, <2>2 DEF Keep, IInv, TypeOK
    <3> QED
      BY <2>2, <3>1, Elsewhere
  <2> QED
    BY <2>1, <2>2
<1>4. ReturnsWhatArrived'
  <2>1. FramesEndedBy(log') = {}
    BY <1>1, <1>2, EndedBy
  <2> QED
    BY <1>1, <2>1 DEF ReturnsWhatArrived
<1> QED
  BY <1>3, <1>4 DEF OpenInv

\* A packet that is ignored is no fragment, or continues nothing.
LEMMA IgnoresPacket ==
  ASSUME IInv, OpenInv, NEW p \in Packets, log' = Append(log, p), Ignore(p)
  PROVE  OpenInv'
<1>1. frame' = <<>> /\ UNCHANGED heldVars
  BY DEF Ignore
<1>2. CASE ~p.video
  <2>1. ASSUME NEW s \in FrameNumbers PROVE Open(s)'
    BY <1>1, <1>2, Elsewhere DEF heldVars
  <2>2. FramesEndedBy(log') = {}
    BY <1>2, EndedBy
  <2> QED
    BY <1>1, <2>1, <2>2 DEF OpenInv, ReturnsWhatArrived
<1>3. CASE p.video
  <2>1. Due(p) = 0 /\ ~Within(p)
    BY <1>3 DEF Ignore, Within, Fits
  <2>2. expected[p.seq] = 0
    BY <2>1 DEF Due
  <2>3. /\ \A fs \in Tails(Since(p.seq)') : ~Begun(fs)
        /\ \A fs \in Tails(Since(p.seq)') : ~IsFrame(fs)
    BY <1>3, <2>1, Arrives
  <2>4. ASSUME NEW s \in FrameNumbers PROVE Open(s)'
    <3>1. CASE s = p.seq
      BY <1>1, <2>2, <2>3, <3>1 DEF Open, heldVars
    <3>2. CASE s # p.seq
      BY <1>1, <3>2, Elsewhere DEF heldVars
    <3> QED
      BY <3>1, <3>2
  <2>5. FramesEndedBy(log') = {}
    BY <1>3, <2>3, EndedBy
  <2> QED
    BY <1>1, <2>4, <2>5 DEF OpenInv, ReturnsWhatArrived
<1> QED
  BY <1>2, <1>3

\* Every push keeps it.
LEMMA StepOpen == IInv /\ OpenInv /\ [Next]_vars => OpenInv'
<1> SUFFICES ASSUME IInv, OpenInv, [Next]_vars PROVE OpenInv'
  OBVIOUS
<1>1. ASSUME NEW p \in Packets, Push(p) PROVE OpenInv'
  <2>0. log' = Append(log, p)
    BY <1>1 DEF Push
  <2>1. CASE Ignore(p)
    BY <2>0, <2>1, IgnoresPacket
  <2>2. CASE DropMalformed(p)
    BY <2>0, <2>2, EndsFrame DEF DropMalformed, Within, Fits
  <2>3. CASE DropAtGap(p)
    BY <2>0, <2>3, EndsFrame DEF DropAtGap, Within
  <2>4. CASE DropOversized(p)
    <3>1. /\ HeldSize(p) \in Nat /\ p.size \in Nat /\ MaxFrameSize \in Nat
          /\ HeldSize(p) + p.size > MaxFrameSize
      BY <2>4, HeldFacts, PacketsAssumption DEF DropOversized, PacketType
    <3>2. ~(HeldSize(p) + p.size <= MaxFrameSize)
      BY <3>1
    <3>3. ~Within(p) /\ p.video /\ Drop(p.seq) /\ frame' = <<>>
      BY <2>4, <3>2 DEF DropOversized, Within, Fits
    <3> QED
      BY <2>0, <3>3, EndsFrame
  <2>5. CASE Keep(p)
    BY <2>0, <2>5, KeepsFragment
  <2>6. CASE Complete(p)
    <3>1. Within(p) /\ p.video /\ p.index = FinalIndex /\ Drop(p.seq)
      BY <2>6 DEF Complete, Within, Fits
    <3>2. frame' = IF HasHead(p) /\ IsImage(Append(Held(p), p))
                   THEN Append(Held(p), p) ELSE <<>>
      BY <2>6 DEF Complete
    <3> QED
      BY <2>0, <3>1, <3>2, EndsFrame
  <2> QED
    BY <1>1, <2>1, <2>2, <2>3, <2>4, <2>5, <2>6 DEF Push
<1>2. CASE UNCHANGED vars
  <2>1. ASSUME NEW s \in FrameNumbers PROVE Open(s)'
    BY <1>2 DEF OpenInv, Open, Since, vars, heldVars
  <2>2. ReturnsWhatArrived'
    BY <1>2 DEF OpenInv, ReturnsWhatArrived, vars
  <2> QED
    BY <2>1, <2>2 DEF OpenInv
<1> QED
  BY <1>1, <1>2 DEF Next

\* Whatever packets arrive, in whatever order, push returns a frame exactly when the
\* packets so far end with one, and then that one: the counters, the head and the
\* fragments kept from push to push say of the log what looking back at it says.
THEOREM ReturnsTheFrame == Spec => []ReturnsWhatArrived
<1>1. OpenInv => ReturnsWhatArrived
  BY DEF OpenInv
<1>2. Spec => []OpenInv
  BY InitOpen, Invariance, StepOpen, PTL DEF Spec
<1> QED
  BY <1>1, <1>2, PTL
=============================================================================
