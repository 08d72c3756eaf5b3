----------------------------- MODULE WireProofs -----------------------------
(***************************************************************************)
(* The stream: Framing implements PacketChannel, holds no packet back and  *)
(* gives the stream up only for a packet at fault, for any packets whose   *)
(* header tells their length, any cuts and any number of connections.      *)
(*                                                                         *)
(* What is in it: for any numbers below 2^63, any lists of days and any    *)
(* minutes, the packets of the bridge are read back as they were written,  *)
(* accepted schedules stay accepted, no two settings are the same bytes,   *)
(* and fields are found behind others.  Varints, and the loops over fields,*)
(* are first shown to be what their recursion says.                        *)
(***************************************************************************)
EXTENDS Wire, SelectionProofs

-----------------------------------------------------------------------------
(* The header of a piece of a packet.                                      *)

\* d is the beginning of p, or begins with the whole of p.
Agree(d, p) == \A j \in 1..Len(d) : j <= Len(p) => d[j] = p[j]

\* A varint of decode_varint ends at its first byte below 128, and nowhere else.
LEMMA VarintIsUnique ==
  ASSUME NEW d \in Seq(Nat), NEW o \in Nat, NEW m \in 1..4, NEW n \in 1..4,
         IsVarint(d, o, m), IsVarint(d, o, n)
  PROVE  m = n
BY DEF IsVarint

\* decode_varint finds the varint that is there.
LEMMA VarintIsFound ==
  ASSUME NEW d \in Seq(Nat), NEW o \in Nat, NEW n \in 1..4, IsVarint(d, o, n)
  PROVE  decode_varint(d, o, 4)
           = [error |-> "none", offset |-> o + n,
              value |-> Number(SubSeq(d, o + 1, o + n))]
<1>1. \E k \in 1..4 : IsVarint(d, o, k)
  OBVIOUS
<1>2. (CHOOSE k \in 1..4 : IsVarint(d, o, k)) = n
  BY <1>1, VarintIsUnique
<1> QED
  BY <1>1, <1>2 DEF decode_varint

\* Without one, decode_varint raises.
LEMMA VarintIsMissed ==
  ASSUME NEW d \in Seq(Nat), NEW o \in Nat, \A n \in 1..4 : ~IsVarint(d, o, n)
  PROVE  decode_varint(d, o, 4) = Raised(IF o + 4 <= Len(d) THEN "oversized" ELSE "truncated")
BY DEF decode_varint

\* The first byte of a packet the parser takes: its type and its flags.
TypeIsSupported(byte) == byte \div 16 \in SupportedTypes /\ byte % 16 \in SupportedFlags

\* The header parse_fixed_header reads from a sequence, or what it raises.
LEMMA HeaderForms ==
  ASSUME NEW d \in Seq(Nat)
  PROVE  LET length == decode_varint(d, 1, 4)
             header == parse_fixed_header(d, "no")
         IN /\ Len(d) = 0 => header = Raised("missing")
            /\ Len(d) > 0 /\ ~TypeIsSupported(d[1]) => header = Raised("unsupported")
            /\ Len(d) > 0 /\ TypeIsSupported(d[1]) /\ length.error # "none" => header = length
            /\ Len(d) > 0 /\ TypeIsSupported(d[1]) /\ length.error = "none" =>
                 header = [error |-> "none", message_type |-> d[1] \div 16,
                           length |-> length.value, size |-> length.offset]
BY DEF parse_fixed_header, TypeIsSupported

\* The header of a packet of the camera is a type and a varint within the packet.
LEMMA PacketBegins ==
  ASSUME NEW p \in Packets
  PROVE  /\ p \in Seq(Nat) /\ Len(p) > 0 /\ TypeIsSupported(p[1])
         /\ \E n \in 1..4 : IsVarint(p, 1, n)
<1> DEFINE header == parse_fixed_header(p, "no")
           length == decode_varint(p, 1, 4)
<1>1. p \in Seq(Nat) /\ header.error = "none"
  BY PacketsAssumption
<1>2. Len(p) > 0 /\ TypeIsSupported(p[1]) /\ length.error = "none"
  <2>1. Raised("missing").error # "none" /\ Raised("unsupported").error # "none"
    BY DEF Raised
  <2>2. Len(p) \in Nat
    BY <1>1, LenProperties
  <2> HIDE DEF header, length
  <2>3. /\ Len(p) = 0 => header = Raised("missing")
        /\ Len(p) > 0 /\ ~TypeIsSupported(p[1]) => header = Raised("unsupported")
        /\ Len(p) > 0 /\ TypeIsSupported(p[1]) /\ length.error # "none" => header = length
    BY <1>1, HeaderForms DEF header, length
  <2> QED
    BY <1>1, <2>1, <2>2, <2>3
<1>3. \E n \in 1..4 : IsVarint(p, 1, n)
  <2>1. SUFFICES ASSUME \A n \in 1..4 : ~IsVarint(p, 1, n) PROVE FALSE
    OBVIOUS
  <2>2. length = Raised(IF 1 + 4 <= Len(p) THEN "oversized" ELSE "truncated")
    BY <1>1, <2>1, VarintIsMissed
  <2> QED
    BY <1>2, <2>2 DEF Raised
<1> QED
  BY <1>1, <1>2, <1>3

\* A piece of a packet that is too short for the header says so, any other tells
\* the length of the packet.
LEMMA HeaderOfPiece ==
  ASSUME NEW d \in Seq(Nat), NEW p \in Packets, Agree(d, p)
  PROVE  LET header == parse_fixed_header(d, "no")
         IN \/ header.error \in {"missing", "truncated"} /\ Len(d) < Len(p)
            \/ header.error = "none" /\ header.size + header.length = Len(p)
<1> DEFINE header == parse_fixed_header(d, "no")
           whole  == parse_fixed_header(p, "no")
<1>p. p \in Seq(Nat) /\ Len(p) > 0 /\ TypeIsSupported(p[1])
  BY PacketBegins
<1>n. PICK n \in 1..4 : IsVarint(p, 1, n)
  BY PacketBegins
<1>l. Len(p) \in Nat /\ Len(d) \in Nat /\ n \in Nat
  BY <1>p, LenProperties
<1>1. 1 + n <= Len(p)
  BY <1>n DEF IsVarint
<1>2. whole.size + whole.length = Len(p)
  BY PacketsAssumption
<1>3. CASE Len(d) = 0
  <2>1. header = Raised("missing")
    BY <1>3, HeaderForms
  <2> QED
    BY <1>3, <1>p, <2>1 DEF Raised
<1>4. CASE Len(d) > 0 /\ Len(d) < 1 + n
  <2>1. d[1] = p[1]
    BY <1>4, <1>l, <1>p DEF Agree
  <2>2. ASSUME NEW m \in 1..4, IsVarint(d, 1, m) PROVE FALSE
    <3>1. 1 + m <= Len(d) /\ m < n
      BY <1>4, <1>l, <2>2 DEF IsVarint
    <3>2. d[1 + m] = p[1 + m]
      BY <1>1, <1>l, <3>1 DEF Agree
    <3>3. p[1 + m] >= 128
      BY <1>n, <3>1 DEF IsVarint
    <3>4. d[1 + m] < 128
      BY <2>2 DEF IsVarint
    <3>5. p[1 + m] \in Nat
      BY <1>p, <1>1, <1>l, <3>1
    <3> QED
      BY <3>2, <3>3, <3>4, <3>5
  <2>3. decode_varint(d, 1, 4) = Raised("truncated")
    <3>1. ~(1 + 4 <= Len(d))
      BY <1>4, <1>l
    <3> QED
      BY <2>2, <3>1, VarintIsMissed
  <2>4. header = Raised("truncated")
    <3>1. Raised("truncated").error # "none"
      BY DEF Raised
    <3> QED
      BY <1>4, <1>p, <2>1, <2>3, <3>1, HeaderForms
  <2> QED
    BY <1>1, <1>4, <1>l, <2>4 DEF Raised
<1>5. CASE Len(d) >= 1 + n
  <2>1. d[1] = p[1]
    BY <1>5, <1>l, <1>p DEF Agree
  <2>2. \A i \in 1..n : d[1 + i] = p[1 + i]
    BY <1>1, <1>5, <1>l DEF Agree
  <2>3. IsVarint(d, 1, n)
    BY <1>n, <1>5, <1>l, <2>2 DEF IsVarint
  <2>4. SubSeq(d, 1 + 1, 1 + n) = SubSeq(p, 1 + 1, 1 + n)
    <3>1. SubSeq(d, 1 + 1, 1 + n) = [i \in 1..n |-> d[1 + i]]
      BY <1>5, <1>l
    <3>2. SubSeq(p, 1 + 1, 1 + n) = [i \in 1..n |-> p[1 + i]]
      BY <1>1, <1>l, <1>p
    <3> QED
      BY <2>2, <3>1, <3>2
  <2>5. decode_varint(d, 1, 4) = decode_varint(p, 1, 4)
    <3>1. decode_varint(d, 1, 4) = [error |-> "none", offset |-> 1 + n,
                                    value |-> Number(SubSeq(d, 1 + 1, 1 + n))]
      BY <2>3, VarintIsFound
    <3>2. decode_varint(p, 1, 4) = [error |-> "none", offset |-> 1 + n,
                                    value |-> Number(SubSeq(p, 1 + 1, 1 + n))]
      BY <1>n, <1>p, VarintIsFound
    <3> QED
      BY <2>4, <3>1, <3>2
  <2>6. decode_varint(p, 1, 4).error = "none"
    BY <1>n, <1>p, VarintIsFound
  <2>7. header = whole
    <3> DEFINE length == decode_varint(p, 1, 4)
               both == [error |-> "none", message_type |-> p[1] \div 16,
                        length |-> length.value, size |-> length.offset]
    <3> HIDE DEF length, both
    <3>1. whole = both
      BY <1>p, <2>6, HeaderForms DEF length, both
    <3>2. header = both
      <4>1. Len(d) > 0
        BY <1>5, <1>l
      <4> QED
        BY <1>p, <2>1, <2>5, <2>6, <4>1, HeaderForms DEF length, both
    <3> QED
      BY <3>1, <3>2
  <2>8. whole.error = "none"
    BY PacketsAssumption
  <2> QED
    BY <1>2, <2>7, <2>8
<1> QED
  BY <1>3, <1>4, <1>5, <1>l

-----------------------------------------------------------------------------
(* The inductive invariant.                                                *)

Meanings == {Meaning(p) : p \in Packets}

\* What is left of a sequence begins behind the position.
LEMMA RestAt ==
  ASSUME NEW s \in Seq(Nat), NEW o \in Nat, o <= Len(s), NEW k \in 1..(Len(s) - o)
  PROVE  Rest(s, o)[k] = s[o + k]
<1>1. o + 1 \in Nat /\ Len(s) \in Nat /\ k \in Nat /\ k >= 1 /\ k <= Len(s) - o
  OBVIOUS
<1>2. k + (o + 1) - 1 = o + k
  BY <1>1
<1>3. k \in 1..(Len(s) + 1 - (o + 1))
  BY <1>1
<1>4. SubSeq(s, o + 1, Len(s))[k] = s[k + (o + 1) - 1]
  BY <1>1, <1>3
<1> QED
  BY <1>2, <1>4 DEF Rest

\* Where the packet i begins; the next one will begin at the end of the stream.
Begins(i) == IF i > Len(sent) THEN Len(stream) ELSE starts[i]

\* How many packets have been taken out of the stream.
Taken == IF pc = "parse" THEN Len(handed) + Len(packets) ELSE Len(handed)

Types ==
  /\ sent \in Seq(Packets) /\ starts \in Seq(Nat) /\ stream \in Seq(Nat)
  /\ received \in 0..Len(stream)
  /\ pc \in {"receive", "parse", "refused", "lost"}
  /\ buffer \in Seq(Nat) /\ data \in Seq(Nat) /\ offset \in Nat
  /\ packets \in Seq(Meanings) /\ handed \in Seq(Meanings)

\* The packets lie in the stream one behind the other.
Layout ==
  /\ Len(starts) = Len(sent)
  /\ Begins(1) = 0
  /\ \A i \in 1..Len(sent) :
       /\ Begins(i + 1) = EndOf(i)
       /\ EndOf(i) <= Len(stream)
       /\ \A j \in (i + 1)..Len(sent) : EndOf(i) <= starts[j]
       /\ \A k \in 1..Len(sent[i]) : stream[starts[i] + k] = sent[i][k]

\* The bytes are those received behind the position.
Holds(bytes, position) ==
  /\ Len(bytes) = received - position
  /\ \A k \in 1..Len(bytes) : bytes[k] = stream[position + k]

HandedOver ==
  /\ Len(handed) <= Len(sent)
  /\ \A i \in 1..Len(handed) : handed[i] = Meaning(sent[i])

\* What has not been handed over is in the buffer, and is no whole packet.
Receiving ==
  pc = "receive" =>
    /\ Holds(buffer, Begins(Len(handed) + 1))
    /\ Len(handed) < Len(sent) => received < EndOf(Len(handed) + 1)

Parsing ==
  pc = "parse" =>
    /\ Holds(data, Begins(Len(handed) + 1))
    /\ Len(handed) + Len(packets) <= Len(sent)
    /\ \A i \in 1..Len(packets) : packets[i] = Meaning(sent[Len(handed) + i])
    /\ offset = Begins(Len(handed) + Len(packets) + 1) - Begins(Len(handed) + 1)
    /\ offset <= Len(data)

IInv == Types /\ Layout /\ HandedOver /\ Receiving /\ Parsing /\ RefusedForCause

\* Packets are not empty, and what they mean is in Meanings.
LEMMA MeaningIsTyped == \A p \in Packets : p \in Seq(Nat) /\ Len(p) > 0 /\ Meaning(p) \in Meanings
BY PacketBegins DEF Meanings

\* The places in the stream are numbers within it.
LEMMA PlacesAreTyped ==
  ASSUME Types, Layout
  PROVE  /\ Len(sent) \in Nat /\ Len(handed) \in Nat /\ Len(packets) \in Nat
         /\ Len(stream) \in Nat /\ Len(data) \in Nat /\ Len(buffer) \in Nat
         /\ \A i \in 1..Len(sent) :
              /\ sent[i] \in Packets /\ sent[i] \in Seq(Nat) /\ Len(sent[i]) \in Nat \ {0}
              /\ starts[i] \in Nat /\ Begins(i) = starts[i]
              /\ EndOf(i) \in Nat
         /\ \A i \in 1..(Len(sent) + 1) : Begins(i) \in 0..Len(stream)
<1>1. /\ Len(sent) \in Nat /\ Len(handed) \in Nat /\ Len(packets) \in Nat
      /\ Len(stream) \in Nat /\ Len(data) \in Nat /\ Len(buffer) \in Nat
  BY DEF Types
<1>2. ASSUME NEW i \in 1..Len(sent)
      PROVE  /\ sent[i] \in Packets /\ sent[i] \in Seq(Nat) /\ Len(sent[i]) \in Nat \ {0}
             /\ starts[i] \in Nat /\ Begins(i) = starts[i]
             /\ EndOf(i) \in Nat /\ Begins(i) <= Len(stream)
  <2>1. sent[i] \in Packets
    BY <1>1 DEF Types
  <2>2. sent[i] \in Seq(Nat) /\ Len(sent[i]) > 0
    BY <2>1, MeaningIsTyped
  <2>3. Len(sent[i]) \in Nat \ {0}
    BY <2>2, LenProperties
  <2>4. starts[i] \in Nat
    BY <1>1 DEF Types, Layout
  <2>5. Begins(i) = starts[i]
    BY <1>1 DEF Begins
  <2>6. EndOf(i) \in Nat /\ EndOf(i) >= starts[i]
    BY <2>3, <2>4 DEF EndOf
  <2>7. EndOf(i) <= Len(stream)
    BY DEF Layout
  <2> QED
    BY <1>1, <2>1, <2>2, <2>3, <2>4, <2>5, <2>6, <2>7
<1>3. ASSUME NEW i \in 1..(Len(sent) + 1) PROVE Begins(i) \in 0..Len(stream)
  <2>1. CASE i > Len(sent)
    BY <1>1, <2>1 DEF Begins
  <2>2. CASE ~(i > Len(sent))
    <3>1. i \in 1..Len(sent)
      BY <1>1, <2>2
    <3>2. Begins(i) \in Nat /\ Begins(i) <= Len(stream)
      BY <1>2, <3>1
    <3> QED
      BY <1>1, <3>2
  <2> QED
    BY <2>1, <2>2
<1> QED
  BY <1>1, <1>2, <1>3

\* While parsing, the bytes ahead are those of the stream behind the packets taken.
LEMMA BytesAhead ==
  ASSUME IInv, pc = "parse"
  PROVE  /\ Taken \in 0..Len(sent)
         /\ Ahead \in Seq(Nat) /\ Holds(Ahead, Begins(Taken + 1))
         /\ offset < Len(data) => Len(Ahead) > 0 /\ Taken < Len(sent)
<1>1. Types /\ Layout /\ Parsing
  BY DEF IInv
<1> DEFINE base == Begins(Len(handed) + 1)
           next == Begins(Taken + 1)
<1>2. Taken = Len(handed) + Len(packets) /\ Taken \in 0..Len(sent)
  BY <1>1, PlacesAreTyped DEF Parsing, Taken
<1>3. /\ next = Begins(Len(handed) + Len(packets) + 1)
      /\ base \in 0..Len(stream) /\ next \in 0..Len(stream)
  <2>1. Taken + 1 \in 1..(Len(sent) + 1) /\ Len(handed) + 1 \in 1..(Len(sent) + 1)
    BY <1>1, <1>2, PlacesAreTyped
  <2>2. base \in 0..Len(stream) /\ next \in 0..Len(stream)
    BY <1>1, <2>1, PlacesAreTyped
  <2> QED
    BY <1>2, <2>2
<1>4. /\ offset = next - base /\ offset \in Nat /\ offset <= Len(data)
      /\ Len(data) = received - base /\ received \in Nat /\ received <= Len(stream)
      /\ data \in Seq(Nat) /\ Len(data) \in Nat /\ Len(stream) \in Nat
  BY <1>1, <1>3, PlacesAreTyped DEF Parsing, Types, Holds
<1> HIDE DEF base, next
<1>5. \A k \in 1..(Len(data) - offset) : Ahead[k] = data[offset + k]
  BY <1>4, RestAt DEF Ahead
<1>6. Ahead \in Seq(Nat) /\ Len(Ahead) = received - next
  <2>1. Ahead \in Seq(Nat) /\ Len(Ahead) = Len(data) - offset
    BY <1>4 DEF Ahead, Rest
  <2> QED
    BY <1>3, <1>4, <2>1
<1>7. ASSUME NEW k \in 1..Len(Ahead) PROVE Ahead[k] = stream[next + k]
  <2>1. k \in 1..(Len(data) - offset)
    BY <1>3, <1>4, <1>6, <1>7
  <2>2. Ahead[k] = data[offset + k]
    BY <1>5, <2>1
  <2>3. offset + k \in 1..Len(data)
    BY <1>4, <2>1
  <2>4. data[offset + k] = stream[base + (offset + k)]
    BY <1>1, <2>3 DEF Parsing, Holds, base
  <2>5. base + (offset + k) = next + k
    <3>1. base \in Nat /\ next \in Nat /\ k \in Nat /\ offset = next - base
      BY <1>3, <1>4, <2>1
    <3> QED
      BY <3>1
  <2> QED
    BY <2>2, <2>4, <2>5
<1>8. ASSUME offset < Len(data) PROVE Len(Ahead) > 0 /\ Taken < Len(sent)
  <2>1. next < received
    BY <1>3, <1>4, <1>8
  <2>2. Len(Ahead) > 0
    BY <1>3, <1>4, <1>6, <2>1
  <2>3. Taken # Len(sent)
    <3>1. SUFFICES ASSUME Taken = Len(sent) PROVE FALSE
      OBVIOUS
    <3>2. Len(sent) \in Nat
      BY <1>1, PlacesAreTyped
    <3>3. next = Len(stream)
      BY <3>1, <3>2 DEF next, Begins
    <3> QED
      BY <1>4, <2>1, <3>3
  <2> QED
    BY <1>1, <1>2, <2>2, <2>3, PlacesAreTyped
<1> QED
  BY <1>2, <1>6, <1>7, <1>8 DEF Holds, next

\* ... and agree with the next packet.
LEMMA PacketAhead ==
  ASSUME IInv, pc = "parse", Taken < Len(sent)
  PROVE  LET p == sent[Taken + 1]
         IN /\ Taken + 1 \in 1..Len(sent) /\ p \in Packets
            /\ Len(Ahead) \in Nat /\ Len(p) \in Nat /\ Agree(Ahead, p)
            /\ EndOf(Taken + 1) - received = Len(p) - Len(Ahead)
<1> DEFINE p == sent[Taken + 1]
<1>1. Types /\ Layout
  BY DEF IInv
<1>2. Taken + 1 \in 1..Len(sent)
  BY <1>1, BytesAhead, PlacesAreTyped
<1>3. /\ p \in Packets /\ Len(p) \in Nat /\ Begins(Taken + 1) = starts[Taken + 1]
      /\ starts[Taken + 1] \in Nat
  BY <1>1, <1>2, PlacesAreTyped
<1>4. /\ Len(Ahead) \in Nat /\ Len(Ahead) = received - starts[Taken + 1]
      /\ \A k \in 1..Len(Ahead) : Ahead[k] = stream[starts[Taken + 1] + k]
  BY <1>3, BytesAhead DEF Holds
<1>5. \A k \in 1..Len(p) : stream[starts[Taken + 1] + k] = p[k]
  BY <1>1, <1>2 DEF Layout
<1>6. Agree(Ahead, p)
  <2>1. SUFFICES ASSUME NEW k \in 1..Len(Ahead), k <= Len(p) PROVE Ahead[k] = p[k]
    BY DEF Agree
  <2>2. k \in 1..Len(p)
    BY <1>3, <1>4, <2>1
  <2> QED
    BY <1>4, <1>5, <2>2
<1>7. received \in Nat
  BY <1>1, PlacesAreTyped DEF Types
<1>8. EndOf(Taken + 1) - received = Len(p) - Len(Ahead)
  <2>1. EndOf(Taken + 1) = starts[Taken + 1] + Len(p)
    BY DEF EndOf
  <2> HIDE DEF p
  <2> QED
    BY <1>3, <1>4, <1>7, <2>1
<1> QED
  BY <1>2, <1>3, <1>4, <1>6, <1>8

\* A loop that goes on has a whole packet before it ...
LEMMA WholePacketAhead ==
  ASSUME IInv, pc = "parse", ~Incomplete
  PROVE  /\ Taken < Len(sent) /\ Taken + 1 \in 1..Len(sent) /\ Header.error = "none"
         /\ Size = Len(sent[Taken + 1])
         /\ SubSeq(Ahead, 1, Size) = sent[Taken + 1]
         /\ EndOf(Taken + 1) <= received
<1> DEFINE p == sent[Taken + 1]
<1>1. /\ ~(offset >= Len(data)) /\ Header.error \notin {"truncated", "missing"}
      /\ Header.error = "none" => ~(Size > Len(Ahead))
  BY DEF Incomplete
<1>2. offset < Len(data)
  BY <1>1, PlacesAreTyped DEF IInv, Types
<1>3. Taken < Len(sent) /\ Ahead \in Seq(Nat)
  BY <1>2, BytesAhead
<1>4. /\ Taken + 1 \in 1..Len(sent) /\ p \in Packets
      /\ Len(Ahead) \in Nat /\ Len(p) \in Nat /\ Agree(Ahead, p)
      /\ EndOf(Taken + 1) - received = Len(p) - Len(Ahead)
  BY <1>3, PacketAhead
<1>5. /\ Header.error = "none" /\ Size = Len(p)
  BY <1>1, <1>3, <1>4, HeaderOfPiece DEF Header, Size
<1>6. Len(p) <= Len(Ahead)
  BY <1>1, <1>4, <1>5
<1>7. SubSeq(Ahead, 1, Size) = p
  <2>1. p \in Seq(Nat)
    BY <1>4, MeaningIsTyped
  <2>2. SubSeq(Ahead, 1, Len(p)) = [k \in 1..Len(p) |-> Ahead[k]]
    BY <1>3, <1>4, <1>6
  <2>3. \A k \in 1..Len(p) : Ahead[k] = p[k]
    BY <1>4, <1>6 DEF Agree
  <2>4. p = [k \in 1..Len(p) |-> p[k]]
    BY <1>4, <2>1
  <2> QED
    BY <1>5, <2>2, <2>3, <2>4
<1>8. EndOf(Taken + 1) \in Nat /\ received \in Nat
  BY <1>4, PlacesAreTyped DEF IInv, Types
<1> QED
  BY <1>3, <1>4, <1>5, <1>6, <1>7, <1>8

\* ... and one that ends has none.
LEMMA NoPacketAhead ==
  ASSUME IInv, pc = "parse", Incomplete, Taken < Len(sent)
  PROVE  received < EndOf(Taken + 1)
<1> DEFINE p == sent[Taken + 1]
<1>1. /\ Taken + 1 \in 1..Len(sent) /\ p \in Packets
      /\ Len(Ahead) \in Nat /\ Len(p) \in Nat /\ Agree(Ahead, p)
      /\ EndOf(Taken + 1) - received = Len(p) - Len(Ahead)
  BY PacketAhead
<1>2. Ahead \in Seq(Nat)
  BY BytesAhead
<1>3. EndOf(Taken + 1) \in Nat /\ received \in Nat /\ offset \in Nat /\ Len(data) \in Nat
  BY <1>1, PlacesAreTyped DEF IInv, Types
<1>4. Len(Ahead) < Len(p)
  <2>1. CASE offset >= Len(data)
    <3>1. Len(Ahead) = 0
      BY <1>2, <1>3, <2>1 DEF Ahead, Rest, IInv, Types
    <3>2. Len(p) > 0
      BY <1>1, MeaningIsTyped
    <3> QED
      BY <3>1, <3>2
  <2>2. CASE Header.error \in {"truncated", "missing"}
    <3>1. Header.error # "none"
      BY <2>2
    <3> QED
      BY <1>1, <1>2, <3>1, HeaderOfPiece DEF Header
  <2>3. CASE Header.error = "none" /\ Size > Len(Ahead)
    <3>1. Size = Len(p)
      BY <1>1, <1>2, <2>3, HeaderOfPiece DEF Header, Size
    <3> QED
      BY <1>1, <2>3, <3>1
  <2> QED
    BY <2>1, <2>2, <2>3 DEF Incomplete
<1> QED
  BY <1>1, <1>3, <1>4

-----------------------------------------------------------------------------
(* The invariant holds.                                                    *)

\* A bridge that starts has nothing in its buffer and nothing to account for.
LEMMA InitHolds == Init => IInv
<1> SUFFICES ASSUME Init PROVE IInv
  OBVIOUS
<1>1. Types
  BY DEF Init, Types
<1>2. Layout
  BY DEF Init, Layout, Begins
<1>3. HandedOver /\ Parsing /\ RefusedForCause
  BY DEF Init, HandedOver, Parsing, RefusedForCause
<1>4. Receiving
  BY DEF Init, Receiving, Holds, Begins
<1> QED
  BY <1>1, <1>2, <1>3, <1>4 DEF IInv

\* The layout depends on nothing but what the camera has written.
LEMMA LayoutKept ==
  ASSUME Layout, UNCHANGED cameraVars
  PROVE  Layout' /\ \A i : Begins(i)' = Begins(i) /\ EndOf(i)' = EndOf(i)
<1>1. sent' = sent /\ starts' = starts /\ stream' = stream
  BY DEF cameraVars
<1>2. \A i : Begins(i)' = Begins(i) /\ EndOf(i)' = EndOf(i)
  BY <1>1 DEF Begins, EndOf
<1>3. Layout'
  BY <1>1, <1>2 DEF Layout
<1> QED
  BY <1>2, <1>3

\* What a new packet leaves as it is, and where it lies.
LEMMA SendingAdds ==
  ASSUME Types, Layout, NEW n \in Nat, n = Len(sent), NEW p \in Packets, CameraSends(p)
  PROVE  /\ Len(sent') = n + 1 /\ Len(starts') = n + 1
         /\ p \in Seq(Nat) /\ Len(p) \in Nat \ {0}
         /\ Len(stream') = Len(stream) + Len(p)
         /\ sent'[n + 1] = p /\ starts'[n + 1] = Len(stream)
         /\ \A i \in 1..n : sent'[i] = sent[i] /\ starts'[i] = starts[i]
         /\ \A k \in 1..Len(stream) : stream'[k] = stream[k]
         /\ \A k \in 1..Len(p) : stream'[Len(stream) + k] = p[k]
         /\ \A i \in 1..n : EndOf(i)' = EndOf(i)
         /\ EndOf(n + 1)' = Len(stream')
         /\ \A i \in 1..(n + 1) : Begins(i)' = Begins(i)
         /\ Begins(n + 2)' = Len(stream')
<1>1. p \in Seq(Nat) /\ Len(p) \in Nat \ {0}
  BY MeaningIsTyped, LenProperties
<1>2. /\ sent' = Append(sent, p) /\ starts' = Append(starts, Len(stream))
      /\ stream' = stream \o p
  BY DEF CameraSends
<1>3. /\ sent \in Seq(Packets) /\ starts \in Seq(Nat) /\ stream \in Seq(Nat)
      /\ Len(starts) = n /\ Len(sent) = n /\ Len(stream) \in Nat
  BY PlacesAreTyped DEF Types, Layout
<1>4. /\ Len(sent') = n + 1 /\ sent'[n + 1] = p
      /\ \A i \in 1..n : sent'[i] = sent[i]
  BY <1>2, <1>3
<1>5. /\ Len(starts') = n + 1 /\ starts'[n + 1] = Len(stream)
      /\ \A i \in 1..n : starts'[i] = starts[i]
  BY <1>2, <1>3
<1>6. /\ Len(stream') = Len(stream) + Len(p)
      /\ \A k \in 1..Len(stream) : stream'[k] = stream[k]
      /\ \A k \in 1..Len(p) : stream'[Len(stream) + k] = p[k]
  BY <1>1, <1>2, <1>3
<1>7. /\ \A i \in 1..n : EndOf(i)' = EndOf(i)
      /\ EndOf(n + 1)' = Len(stream')
  <2>1. \A i \in 1..n : EndOf(i)' = EndOf(i)
    BY <1>4, <1>5 DEF EndOf
  <2>2. EndOf(n + 1)' = Len(stream')
    BY <1>4, <1>5, <1>6 DEF EndOf
  <2> QED
    BY <2>1, <2>2
<1>8. ASSUME NEW i \in 1..(n + 1) PROVE Begins(i)' = Begins(i)
  <2>1. Begins(i)' = starts'[i]
    BY <1>3, <1>4 DEF Begins
  <2>2. CASE i = n + 1
    BY <1>3, <1>5, <2>1, <2>2 DEF Begins
  <2>3. CASE i # n + 1
    <3>1. i \in 1..n
      BY <1>3, <2>3
    <3> QED
      BY <1>3, <1>5, <2>1, <3>1 DEF Begins
  <2> QED
    BY <2>2, <2>3
<1>9. Begins(n + 2)' = Len(stream')
  BY <1>3, <1>4 DEF Begins
<1> QED
  BY <1>1, <1>4, <1>5, <1>6, <1>7, <1>8, <1>9

\* A packet is written behind all others.
LEMMA SendingKeepsLayout ==
  ASSUME Types, Layout, NEW p \in Packets, CameraSends(p)
  PROVE  Layout'
<1>0. PICK n \in Nat : n = Len(sent)
  BY PlacesAreTyped
<1>1. Len(starts') = Len(sent')
  BY <1>0, SendingAdds DEF Layout
<1>2. Begins(1)' = 0
  <2>1. 1 \in 1..(n + 1)
    BY <1>0
  <2>2. Begins(1)' = Begins(1)
    BY <1>0, <2>1, SendingAdds
  <2> QED
    BY <2>2 DEF Layout
<1>3. ASSUME NEW i \in 1..Len(sent')
      PROVE  /\ Begins(i + 1)' = EndOf(i)'
             /\ EndOf(i)' <= Len(stream')
             /\ \A j \in (i + 1)..Len(sent') : EndOf(i)' <= starts'[j]
             /\ \A k \in 1..Len(sent'[i]) : stream'[starts'[i] + k] = sent'[i][k]
  <2>0. Len(sent) = n /\ Len(stream) \in Nat /\ Len(p) \in Nat
    BY <1>0, SendingAdds, PlacesAreTyped
  <2>1. CASE i = n + 1
    <3>1. Begins(i + 1)' = EndOf(i)'
      <4>1. i + 1 = n + 2
        BY <2>0, <2>1
      <4> QED
        BY <2>1, <4>1, <1>0, SendingAdds
    <3>2. EndOf(i)' <= Len(stream')
      BY <2>0, <2>1, <1>0, SendingAdds
    <3>3. \A j \in (i + 1)..Len(sent') : EndOf(i)' <= starts'[j]
      BY <2>0, <2>1, <1>0, SendingAdds
    <3>4. \A k \in 1..Len(sent'[i]) : stream'[starts'[i] + k] = sent'[i][k]
      <4>1. starts'[i] = Len(stream) /\ sent'[i] = p
        BY <1>0, <2>1, SendingAdds
      <4>2. \A k \in 1..Len(p) : stream'[Len(stream) + k] = p[k]
        BY <1>0, SendingAdds
      <4> QED
        BY <4>1, <4>2
    <3> QED
      BY <3>1, <3>2, <3>3, <3>4
  <2>2. CASE i # n + 1
    <3>1. i \in 1..n /\ i + 1 \in 1..(n + 1)
      BY <2>0, <2>2, <1>0, SendingAdds
    <3>2. /\ EndOf(i)' = EndOf(i) /\ EndOf(i) \in Nat /\ EndOf(i) <= Len(stream)
          /\ sent'[i] = sent[i] /\ starts'[i] = starts[i] /\ starts[i] \in Nat
          /\ Len(sent[i]) \in Nat
      BY <3>1, <1>0, SendingAdds, PlacesAreTyped DEF Layout
    <3>3. Begins(i + 1)' = EndOf(i)'
      BY <3>1, <3>2, <1>0, SendingAdds DEF Layout
    <3>4. EndOf(i)' <= Len(stream')
      BY <2>0, <3>2, <1>0, SendingAdds
    <3>5. ASSUME NEW j \in (i + 1)..Len(sent') PROVE EndOf(i)' <= starts'[j]
      <4>1. CASE j = n + 1
        BY <3>2, <4>1, <1>0, SendingAdds
      <4>2. CASE j # n + 1
        <5>1. j \in (i + 1)..n /\ j \in 1..n
          BY <2>0, <3>1, <4>2, <1>0, SendingAdds
        <5>2. EndOf(i) <= starts[j]
          BY <1>0, <3>1, <5>1 DEF Layout
        <5>3. starts'[j] = starts[j]
          BY <5>1, <1>0, SendingAdds
        <5> QED
          BY <3>2, <5>2, <5>3
      <4> QED
        BY <4>1, <4>2
    <3>6. ASSUME NEW k \in 1..Len(sent'[i]) PROVE stream'[starts'[i] + k] = sent'[i][k]
      <4>1. k \in 1..Len(sent[i])
        BY <3>2
      <4>2. stream[starts[i] + k] = sent[i][k]
        BY <1>0, <3>1, <4>1 DEF Layout
      <4>3. starts[i] + k \in 1..Len(stream)
        <5>1. EndOf(i) = starts[i] + Len(sent[i])
          BY DEF EndOf
        <5> QED
          BY <2>0, <3>2, <4>1, <5>1
      <4>4. stream'[starts[i] + k] = stream[starts[i] + k]
        BY <4>3, <1>0, SendingAdds
      <4> QED
        BY <3>2, <4>2, <4>4
    <3> QED
      BY <3>3, <3>4, <3>5, <3>6
  <2> QED
    BY <2>1, <2>2
<1> QED
  BY <1>1, <1>2, <1>3 DEF Layout

\* What the camera writes changes nothing for the reader before it is received.
LEMMA SendingKeepsIt ==
  ASSUME IInv, NEW p \in Packets, CameraSends(p)
  PROVE  IInv'
<1>0. Types /\ Layout /\ HandedOver /\ Receiving /\ Parsing /\ RefusedForCause
  BY DEF IInv
<1>n. PICK n \in Nat : n = Len(sent)
  BY <1>0, PlacesAreTyped
<1>a. /\ Len(sent') = n + 1 /\ Len(p) \in Nat \ {0} /\ Len(stream') = Len(stream) + Len(p)
      /\ \A i \in 1..n : sent'[i] = sent[i] /\ EndOf(i)' = EndOf(i)
      /\ \A k \in 1..Len(stream) : stream'[k] = stream[k]
      /\ EndOf(n + 1)' = Len(stream')
      /\ \A i \in 1..(n + 1) : Begins(i)' = Begins(i)
  BY <1>0, <1>n, SendingAdds
<1>b. /\ Len(stream) \in Nat /\ received \in Nat /\ received <= Len(stream)
      /\ Len(handed) \in Nat /\ Len(packets) \in Nat
      /\ \A i \in 1..(n + 1) : Begins(i) \in Nat
  BY <1>0, <1>n, PlacesAreTyped DEF Types
<1>c. UNCHANGED <<data, offset, packets, received, pc, buffer, handed, connections>>
  BY DEF CameraSends, parseVars
<1>1. Types'
  <2>1. sent' \in Seq(Packets) /\ starts' \in Seq(Nat) /\ stream' \in Seq(Nat)
    BY <1>0, <1>b, MeaningIsTyped DEF CameraSends, Types
  <2>2. received' \in 0..Len(stream')
    BY <1>a, <1>b, <1>c
  <2> QED
    BY <1>0, <1>c, <2>1, <2>2 DEF Types
<1>2. Layout'
  BY <1>0, SendingKeepsLayout
<1>3. HandedOver'
  <2>1. Len(handed) <= n /\ \A i \in 1..Len(handed) : handed[i] = Meaning(sent[i])
    BY <1>0, <1>n DEF HandedOver
  <2>2. \A i \in 1..Len(handed) : i \in 1..n
    BY <1>b, <2>1
  <2> QED
    BY <1>a, <1>b, <1>c, <2>1, <2>2 DEF HandedOver
<1>4. ASSUME NEW bytes \in Seq(Nat), NEW i \in 1..(n + 1), Holds(bytes, Begins(i))
      PROVE  Holds(bytes, Begins(i))'
  <2>1. Begins(i)' = Begins(i) /\ Begins(i) \in Nat
    BY <1>a, <1>b
  <2>2. Len(bytes) = received - Begins(i)
    BY <1>4 DEF Holds
  <2>3. ASSUME NEW k \in 1..Len(bytes) PROVE bytes[k] = stream'[Begins(i) + k]
    <3>1. Begins(i) + k \in 1..Len(stream)
      BY <1>b, <2>1, <2>2
    <3> QED
      BY <1>4, <1>a, <3>1 DEF Holds
  <2> QED
    BY <1>c, <2>1, <2>2, <2>3 DEF Holds
<1>5. Receiving'
  <2>1. SUFFICES ASSUME pc = "receive"
                 PROVE  /\ Holds(buffer, Begins(Len(handed) + 1))'
                        /\ (Len(handed) < Len(sent) => received < EndOf(Len(handed) + 1))'
    BY <1>c DEF Receiving
  <2>2. PICK h \in Nat : h = Len(handed) /\ h <= n
    BY <1>0, <1>b, <1>n DEF HandedOver
  <2>3. Holds(buffer, Begins(h + 1)) /\ (h < n => received < EndOf(h + 1))
    BY <1>0, <1>n, <2>1, <2>2 DEF Receiving
  <2>4. h' = Len(handed') /\ h + 1 \in 1..(n + 1)
    BY <1>c, <2>2
  <2>5. Holds(buffer, Begins(h + 1))'
    <3>1. PICK bytes \in Seq(Nat) : bytes = buffer
      BY <1>0 DEF Types
    <3>2. Holds(bytes, Begins(h + 1))'
      BY <1>4, <2>3, <2>4, <3>1
    <3> QED
      BY <1>c, <3>1, <3>2
  <2>6. received < EndOf(h + 1)'
    <3>1. CASE h < n
      <4>1. h + 1 \in 1..n
        BY <1>n, <2>2, <3>1
      <4> QED
        BY <1>a, <2>3, <3>1, <4>1
    <3>2. CASE h = n
      BY <1>a, <1>b, <3>2
    <3> QED
      BY <2>2, <3>1, <3>2
  <2> QED
    BY <1>c, <2>2, <2>5, <2>6
<1>6. Parsing'
  <2>1. SUFFICES ASSUME pc = "parse" PROVE Parsing'
    BY <1>c DEF Parsing
  <2>2. PICK h \in Nat, t \in Nat : h = Len(handed) /\ t = h + Len(packets)
    BY <1>b
  <2>3. /\ Holds(data, Begins(h + 1)) /\ t <= n
        /\ \A i \in 1..Len(packets) : packets[i] = Meaning(sent[h + i])
        /\ offset = Begins(t + 1) - Begins(h + 1) /\ offset <= Len(data)
    BY <1>0, <1>n, <2>1, <2>2 DEF Parsing
  <2>4. h + 1 \in 1..(n + 1) /\ t + 1 \in 1..(n + 1)
    BY <1>b, <1>n, <2>2, <2>3
  <2>5. Holds(data, Begins(h + 1))'
    <3>1. PICK bytes \in Seq(Nat) : bytes = data
      BY <1>0 DEF Types
    <3>2. Holds(bytes, Begins(h + 1))'
      BY <1>4, <2>3, <2>4, <3>1
    <3> QED
      BY <1>c, <3>1, <3>2
  <2>6. \A i \in 1..Len(packets) : packets[i] = Meaning(sent'[h + i])
    <3>1. \A i \in 1..Len(packets) : h + i \in 1..n
      BY <1>b, <1>n, <2>2, <2>3
    <3> QED
      BY <1>a, <2>3, <3>1
  <2>7. offset = Begins(t + 1)' - Begins(h + 1)' /\ offset <= Len(data)
    BY <1>a, <2>3, <2>4
  <2>8. Len(handed') = h /\ Len(handed') + Len(packets') = t /\ t <= Len(sent')
    BY <1>a, <1>c, <1>n, <2>2, <2>3
  <2> QED
    BY <1>c, <2>5, <2>6, <2>7, <2>8 DEF Parsing
<1>7. RefusedForCause'
  <2>1. SUFFICES ASSUME pc = "refused"
                 PROVE  \E i \in 1..Len(sent') :
                          EndOf(i)' <= received' /\ Meaning(sent'[i]).error # "none"
    BY <1>c DEF RefusedForCause
  <2>2. PICK i \in 1..n : EndOf(i) <= received /\ Meaning(sent[i]).error # "none"
    BY <1>0, <1>n, <2>1 DEF RefusedForCause
  <2>3. EndOf(i)' = EndOf(i) /\ sent'[i] = sent[i] /\ i \in 1..Len(sent')
    BY <1>a
  <2> QED
    BY <1>c, <2>2, <2>3
<1> QED
  BY <1>1, <1>2, <1>3, <1>5, <1>6, <1>7 DEF IInv

\* The rest of a connection's steps leave what was sent.
LEMMA ReceivingKeepsIt == IInv /\ Receive => IInv'
<1> SUFFICES ASSUME IInv, Receive PROVE IInv'
  OBVIOUS
<1>0. Types /\ Layout /\ HandedOver /\ Receiving
  BY DEF IInv
<1>1. PICK n \in 1..(Len(stream) - received) :
        /\ received' = received + n
        /\ data' = buffer \o SubSeq(stream, received + 1, received + n)
  BY DEF Receive
<1>2. /\ pc = "receive" /\ pc' = "parse" /\ offset' = 0 /\ packets' = <<>>
      /\ UNCHANGED <<sent, starts, stream, buffer, handed>> /\ UNCHANGED cameraVars
  BY DEF Receive, cameraVars
<1>3. /\ stream \in Seq(Nat) /\ buffer \in Seq(Nat) /\ Len(stream) \in Nat
      /\ Len(buffer) \in Nat /\ received \in Nat /\ n \in Nat /\ n >= 1
      /\ received + n <= Len(stream) /\ Len(handed) \in Nat /\ Len(sent) \in Nat
  BY <1>0, <1>1, PlacesAreTyped DEF Types
<1>4. PICK base \in Nat : base = Begins(Len(handed) + 1)
  <2>1. Len(handed) + 1 \in 1..(Len(sent) + 1)
    BY <1>0, <1>3 DEF HandedOver
  <2> QED
    BY <1>0, <2>1, PlacesAreTyped
<1>5. Len(buffer) = received - base /\ \A k \in 1..Len(buffer) : buffer[k] = stream[base + k]
  BY <1>0, <1>2, <1>4 DEF Receiving, Holds
<1>6. PICK more \in Seq(Nat) :
        /\ more = SubSeq(stream, received + 1, received + n) /\ Len(more) = n
        /\ \A k \in 1..n : more[k] = stream[received + k]
  <2> DEFINE more == SubSeq(stream, received + 1, received + n)
  <2>1. more \in Seq(Nat) /\ Len(more) = n
    BY <1>3
  <2>2. \A k \in 1..n : more[k] = stream[received + k]
    BY <1>3
  <2> QED
    BY <2>1, <2>2
<1>7. /\ data' \in Seq(Nat) /\ Len(data') = received' - base
      /\ \A k \in 1..Len(data') : data'[k] = stream[base + k]
  <2>1. data' \in Seq(Nat) /\ Len(data') = Len(buffer) + n
    BY <1>1, <1>3, <1>6
  <2>2. ASSUME NEW k \in 1..Len(data') PROVE data'[k] = stream[base + k]
    <3>1. CASE k <= Len(buffer)
      <4>1. k \in 1..Len(buffer) /\ data'[k] = buffer[k]
        BY <1>1, <1>3, <1>6, <3>1
      <4> QED
        BY <1>5, <4>1
    <3>2. CASE ~(k <= Len(buffer))
      <4>1. k - Len(buffer) \in 1..n /\ data'[k] = more[k - Len(buffer)]
        <5>1. data' = buffer \o more /\ buffer \in Seq(Nat) /\ Len(more) = n
          BY <1>1, <1>3, <1>6
        <5> DEFINE m == Len(buffer)
        <5>2. m \in Nat
          BY <5>1, LenProperties
        <5>3. k \in 1..(m + n) /\ ~(k <= m)
          BY <2>1, <3>2
        <5>4. data'[k] = IF k <= m THEN buffer[k] ELSE more[k - m]
          BY <5>1, <5>3, ConcatProperties
        <5> HIDE DEF m
        <5>5. k - m \in 1..n
          BY <5>2, <5>3
        <5> QED
          BY <5>3, <5>4, <5>5 DEF m
      <4>2. received + (k - Len(buffer)) = base + k
        <5>1. k \in Int /\ received \in Int /\ base \in Int /\ Len(buffer) = received - base
          BY <1>3, <1>5, <2>1
        <5> QED
          BY <5>1
      <4> QED
        BY <1>6, <4>1, <4>2
    <3> QED
      BY <3>1, <3>2
  <2>3. Len(data') = received' - base
    BY <1>1, <1>3, <1>4, <1>5, <2>1
  <2> QED
    BY <2>1, <2>2, <2>3
<1>8. Types'
  <2>1. received' \in 0..Len(stream') /\ packets' \in Seq(Meanings)
    BY <1>1, <1>2, <1>3
  <2> QED
    BY <1>0, <1>2, <1>7, <2>1 DEF Types
<1>9. Layout' /\ HandedOver' /\ Receiving' /\ RefusedForCause'
  BY <1>0, <1>2, LayoutKept DEF HandedOver, Receiving, RefusedForCause
<1>10. Parsing'
  <2>1. Begins(Len(handed) + 1)' = base
    BY <1>2, <1>4 DEF Begins
  <2>2. Holds(data, Begins(Len(handed) + 1))'
    BY <1>2, <1>7, <2>1 DEF Holds
  <2>3. Len(packets') = 0 /\ Len(data') \in Nat
    BY <1>2, <1>7
  <2>4. (Len(handed) + Len(packets) <= Len(sent))'
    BY <1>0, <1>2, <1>3, <2>3 DEF HandedOver
  <2>5. (offset = Begins(Len(handed) + Len(packets) + 1) - Begins(Len(handed) + 1))'
    <3>1. Len(handed') + Len(packets') + 1 = Len(handed') + 1
      BY <1>2, <1>3, <2>3
    <3> QED
      BY <1>2, <1>4, <2>1, <3>1
  <2>6. offset' <= Len(data')
    BY <1>2, <2>3
  <2> QED
    BY <2>2, <2>3, <2>4, <2>5, <2>6 DEF Parsing
<1> QED
  BY <1>8, <1>9, <1>10 DEF IInv

\* A packet that is taken is the next one of the stream.
LEMMA TakingKeepsIt == IInv /\ TakePacket => IInv'
<1> SUFFICES ASSUME IInv, TakePacket PROVE IInv'
  OBVIOUS
<1>0. Types /\ Layout /\ HandedOver /\ Parsing
  BY DEF IInv
<1>1. /\ pc = "parse" /\ ~Incomplete /\ pc' = "parse"
      /\ packets' = Append(packets, Meaning(SubSeq(Ahead, 1, Size)))
      /\ offset' = offset + Size
      /\ UNCHANGED <<sent, starts, stream, received, data, buffer, handed>>
      /\ UNCHANGED cameraVars
  BY DEF TakePacket, cameraVars
<1>2. PICK h \in Nat, t \in Nat :
        h = Len(handed) /\ t = Taken /\ t = h + Len(packets) /\ t < Len(sent)
  BY <1>0, <1>1, PlacesAreTyped, WholePacketAhead DEF Taken
<1>3. PICK p \in Packets :
        /\ p = sent[t + 1] /\ t + 1 \in 1..Len(sent)
        /\ Size = Len(p) /\ SubSeq(Ahead, 1, Size) = p /\ EndOf(t + 1) <= received
  BY <1>0, <1>1, <1>2, WholePacketAhead, PlacesAreTyped
<1>4. packets' = Append(packets, Meaning(p)) /\ Meaning(p) \in Meanings
  BY <1>1, <1>3, MeaningIsTyped
<1>5. packets' \in Seq(Meanings) /\ Len(packets') = Len(packets) + 1
  BY <1>0, <1>4 DEF Types
<1>6. /\ Len(p) \in Nat /\ starts[t + 1] \in Nat /\ Begins(t + 1) = starts[t + 1]
      /\ Begins(t + 2) = EndOf(t + 1) /\ EndOf(t + 1) = starts[t + 1] + Len(p)
      /\ Begins(h + 1) \in Nat /\ Len(packets) \in Nat /\ Len(sent) \in Nat
      /\ received \in Nat
  <2>1. /\ Len(p) \in Nat /\ starts[t + 1] \in Nat /\ Begins(t + 1) = starts[t + 1]
        /\ Len(packets) \in Nat /\ Len(sent) \in Nat
    BY <1>0, <1>3, PlacesAreTyped
  <2>2. Begins((t + 1) + 1) = EndOf(t + 1) /\ (t + 1) + 1 = t + 2
    BY <1>0, <1>3 DEF Layout
  <2>3. EndOf(t + 1) = starts[t + 1] + Len(p)
    BY <1>3 DEF EndOf
  <2>4. h + 1 \in 1..(Len(sent) + 1)
    BY <1>2, <2>1
  <2>5. Begins(h + 1) \in Nat
    BY <1>0, <2>4, PlacesAreTyped
  <2>6. received \in Nat
    BY <1>0, PlacesAreTyped DEF Types
  <2> QED
    BY <2>1, <2>2, <2>3, <2>5, <2>6
<1>7. /\ offset = Begins(t + 1) - Begins(h + 1) /\ Len(data) = received - Begins(h + 1)
      /\ \A i \in 1..Len(packets) : packets[i] = Meaning(sent[h + i])
  BY <1>0, <1>1, <1>2 DEF Parsing, Holds
<1>8. offset' = Begins(t + 2) - Begins(h + 1) /\ offset' <= Len(data)
  <2>1. offset' = (starts[t + 1] - Begins(h + 1)) + Len(p)
    BY <1>1, <1>3, <1>6, <1>7
  <2>2. offset' = EndOf(t + 1) - Begins(h + 1)
    BY <1>6, <2>1
  <2>3. EndOf(t + 1) \in Int
    BY <1>6
  <2>4. EndOf(t + 1) - Begins(h + 1) <= received - Begins(h + 1)
    BY <1>3, <1>6, <2>3
  <2> QED
    BY <1>6, <1>7, <2>2, <2>4
<1>9. Types'
  <2>1. offset' \in Nat
    <3>1. offset \in Nat
      BY <1>0 DEF Types
    <3> QED
      BY <1>1, <1>3, <1>6, <3>1
  <2> QED
    BY <1>0, <1>1, <1>5, <2>1 DEF Types
<1>10. Layout' /\ HandedOver' /\ Receiving' /\ RefusedForCause'
  BY <1>0, <1>1, LayoutKept DEF HandedOver, Receiving, RefusedForCause
<1>11. Parsing'
  <2>1. \A i : Begins(i)' = Begins(i)
    BY <1>1 DEF Begins
  <2>2. Len(handed') = h /\ Len(handed') + Len(packets') = t + 1 /\ t + 1 <= Len(sent')
    BY <1>1, <1>2, <1>5, <1>6
  <2>3. Holds(data, Begins(h + 1))'
    BY <1>0, <1>1, <1>2, <2>1 DEF Parsing, Holds
  <2>4. ASSUME NEW i \in 1..Len(packets') PROVE packets'[i] = Meaning(sent'[h + i])
    <3>1. CASE i = Len(packets) + 1
      <4>1. packets'[i] = Meaning(p)
        BY <1>0, <1>4, <3>1 DEF Types
      <4>2. h + i = t + 1
        BY <1>2, <1>6, <3>1
      <4> QED
        BY <1>1, <1>3, <4>1, <4>2
    <3>2. CASE i # Len(packets) + 1
      <4>1. i \in 1..Len(packets)
        BY <1>5, <1>6, <3>2
      <4>2. packets'[i] = packets[i]
        BY <1>0, <1>4, <4>1 DEF Types
      <4> QED
        BY <1>1, <1>7, <4>1, <4>2
    <3> QED
      BY <3>1, <3>2
  <2>5. offset' = Begins((t + 1) + 1)' - Begins(h + 1)' /\ offset' <= Len(data')
    <3>1. (t + 1) + 1 = t + 2
      BY <1>2
    <3> QED
      BY <1>1, <1>8, <2>1, <3>1
  <2> QED
    BY <2>2, <2>3, <2>4, <2>5 DEF Parsing
<1> QED
  BY <1>9, <1>10, <1>11 DEF IInv

\* What raises is a whole packet whose body is at fault.
LEMMA RefusingKeepsIt == IInv /\ Refuse => IInv'
<1> SUFFICES ASSUME IInv, Refuse PROVE IInv'
  OBVIOUS
<1>0. Types /\ Layout /\ HandedOver
  BY DEF IInv
<1>1. /\ pc = "parse" /\ ~Incomplete /\ pc' = "refused"
      /\ Header.error # "none" \/ Meaning(SubSeq(Ahead, 1, Size)).error # "none"
      /\ UNCHANGED <<sent, starts, stream, received, data, offset, packets, buffer, handed>>
      /\ UNCHANGED cameraVars
  BY DEF Refuse, cameraVars, parseVars
<1>2. RefusedForCause'
  <2>1. PICK i \in 1..Len(sent) : EndOf(i) <= received /\ Meaning(sent[i]).error # "none"
    BY <1>1, WholePacketAhead
  <2>2. EndOf(i)' = EndOf(i)
    BY <1>1 DEF EndOf
  <2> QED
    BY <1>1, <2>1, <2>2 DEF RefusedForCause
<1>3. Types' /\ Layout' /\ HandedOver' /\ Receiving' /\ Parsing'
  BY <1>0, <1>1, LayoutKept DEF Types, HandedOver, Receiving, Parsing
<1> QED
  BY <1>2, <1>3 DEF IInv

\* What Return hands over are the meanings of the packets taken.
LEMMA ReturnHandsOver ==
  ASSUME IInv, Return
  PROVE  /\ Taken \in 0..Len(sent) /\ Len(handed) <= Taken
         /\ handed' \in Seq(Meanings) /\ Len(handed') = Taken
         /\ \A i \in 1..Taken : handed'[i] = Meaning(sent[i])
<1>0. Types /\ Layout /\ HandedOver /\ Parsing
  BY DEF IInv
<1>1. pc = "parse" /\ handed' = handed \o packets
  BY DEF Return
<1>2. /\ Taken = Len(handed) + Len(packets) /\ Taken \in 0..Len(sent)
      /\ Len(handed) \in Nat /\ Len(packets) \in Nat
  BY <1>0, <1>1, PlacesAreTyped, BytesAhead DEF Taken
<1>3. handed' \in Seq(Meanings) /\ Len(handed') = Taken
  BY <1>0, <1>1, <1>2 DEF Types
<1>4. ASSUME NEW i \in 1..Taken PROVE handed'[i] = Meaning(sent[i])
  <2>1. CASE i <= Len(handed)
    <3>1. i \in 1..Len(handed)
      BY <1>2, <2>1
    <3>2. handed'[i] = handed[i]
      BY <1>0, <1>1, <3>1 DEF Types
    <3> QED
      BY <1>0, <3>1, <3>2 DEF HandedOver
  <2>2. CASE ~(i <= Len(handed))
    <3>1. PICK k \in 1..Len(packets) : i = Len(handed) + k
      <4>1. i - Len(handed) \in 1..Len(packets) /\ i = Len(handed) + (i - Len(handed))
        BY <1>2, <2>2
      <4> QED
        BY <4>1
    <3>2. handed'[i] = packets[k]
      BY <1>0, <1>1, <1>2, <3>1 DEF Types
    <3> QED
      BY <1>0, <1>1, <3>1, <3>2 DEF Parsing
  <2> QED
    BY <2>1, <2>2
<1> QED
  BY <1>2, <1>3, <1>4

\* The bytes that become the buffer are those behind the packets handed over.
LEMMA ReturningKeepsIt == IInv /\ Return => IInv'
<1> SUFFICES ASSUME IInv, Return PROVE IInv'
  OBVIOUS
<1>0. Types /\ Layout
  BY DEF IInv
<1>1. /\ pc = "parse" /\ Incomplete /\ pc' = "receive" /\ buffer' = Ahead
      /\ UNCHANGED <<sent, starts, stream, received, data, offset, packets>>
      /\ UNCHANGED cameraVars
  BY DEF Return, cameraVars, parseVars
<1>2. PICK t \in Nat : t = Taken /\ t <= Len(sent) /\ Len(handed') = t
  BY <1>0, PlacesAreTyped, ReturnHandsOver
<1>3. Types'
  BY <1>0, <1>1, BytesAhead, ReturnHandsOver DEF Types
<1>4. HandedOver'
  BY <1>1, <1>2, ReturnHandsOver DEF HandedOver
<1>5. Receiving'
  <2>1. \A i : Begins(i)' = Begins(i) /\ EndOf(i)' = EndOf(i)
    BY <1>0, <1>1, LayoutKept
  <2>2. Holds(buffer', Begins(t + 1))
    BY <1>1, <1>2, BytesAhead
  <2>3. Holds(buffer, Begins(t + 1))'
    BY <1>1, <2>1, <2>2 DEF Holds
  <2>4. t < Len(sent) => received < EndOf(t + 1)
    BY <1>1, <1>2, NoPacketAhead
  <2> QED
    BY <1>1, <1>2, <2>1, <2>3, <2>4 DEF Receiving
<1>6. Layout' /\ Parsing' /\ RefusedForCause'
  BY <1>0, <1>1, LayoutKept DEF Parsing, RefusedForCause
<1> QED
  BY <1>3, <1>4, <1>5, <1>6 DEF IInv

\* A lost connection leaves nothing to hold to.
LEMMA LosingKeepsIt == IInv /\ Lose => IInv'
<1> SUFFICES ASSUME IInv, Lose PROVE IInv'
  OBVIOUS
<1>1. /\ pc' = "lost" /\ buffer' = <<>>
      /\ UNCHANGED <<sent, starts, stream, received, data, offset, packets, handed>>
      /\ UNCHANGED cameraVars
  BY DEF Lose, cameraVars, parseVars
<1>2. Types' /\ Layout' /\ HandedOver' /\ Receiving' /\ Parsing' /\ RefusedForCause'
  BY <1>1, LayoutKept
     DEF IInv, Types, HandedOver, Receiving, Parsing, RefusedForCause
<1> QED
  BY <1>2 DEF IInv

\* A new connection begins as the bridge does.
LEMMA ReconnectingKeepsIt == IInv /\ Reconnect => IInv'
<1> SUFFICES ASSUME IInv, Reconnect PROVE IInv'
  OBVIOUS
<1>1. /\ sent' = <<>> /\ starts' = <<>> /\ stream' = <<>> /\ received' = 0
      /\ buffer' = <<>> /\ handed' = <<>> /\ pc' = "receive"
      /\ UNCHANGED <<data, offset, packets>>
  BY DEF Reconnect, parseVars
<1>2. Types'
  BY <1>1 DEF IInv, Types
<1>3. Begins(1)' = 0
  BY <1>1 DEF Begins
<1>4. Layout' /\ HandedOver' /\ Parsing' /\ RefusedForCause'
  BY <1>1, <1>3 DEF Layout, HandedOver, Parsing, RefusedForCause
<1>5. Receiving'
  BY <1>1, <1>3 DEF Receiving, Holds
<1> QED
  BY <1>2, <1>4, <1>5 DEF IInv

\* Every step keeps the invariant.
LEMMA StepHolds == IInv /\ [Next]_vars => IInv'
<1> SUFFICES ASSUME IInv, [Next]_vars PROVE IInv'
  OBVIOUS
<1>1. CASE \E p \in Packets : CameraSends(p)
  BY <1>1, SendingKeepsIt
<1>2. CASE Receive
  BY <1>2, ReceivingKeepsIt
<1>3. CASE TakePacket
  BY <1>3, TakingKeepsIt
<1>4. CASE Refuse
  BY <1>4, RefusingKeepsIt
<1>5. CASE Return
  BY <1>5, ReturningKeepsIt
<1>6. CASE Lose
  BY <1>6, LosingKeepsIt
<1>7. CASE Reconnect
  BY <1>7, ReconnectingKeepsIt
<1>8. CASE UNCHANGED vars
  <2>1. /\ UNCHANGED <<sent, starts, stream, received, pc, buffer, data, offset, packets>>
        /\ UNCHANGED handed /\ UNCHANGED cameraVars
    BY <1>8 DEF vars, cameraVars, parseVars
  <2>2. Types /\ Layout /\ HandedOver /\ Receiving /\ Parsing /\ RefusedForCause
    BY DEF IInv
  <2>3. Layout' /\ \A i : Begins(i)' = Begins(i) /\ EndOf(i)' = EndOf(i)
    BY <2>1, <2>2, LayoutKept
  <2>4. Types' /\ HandedOver'
    BY <2>1, <2>2 DEF Types, HandedOver
  <2>5. Receiving' /\ Parsing' /\ RefusedForCause'
    BY <2>1, <2>2, <2>3 DEF Receiving, Parsing, Holds, RefusedForCause
  <2> QED
    BY <2>3, <2>4, <2>5 DEF IInv
<1> QED
  BY <1>1, <1>2, <1>3, <1>4, <1>5, <1>6, <1>7, <1>8 DEF Next

-----------------------------------------------------------------------------
(* What the invariant shows.                                               *)

\* The stream is given up only for a packet at fault.
THEOREM RefusesForCause == Spec => []RefusedForCause
<1>1. IInv => RefusedForCause
  BY DEF IInv
<1> QED
  BY <1>1, InitHolds, StepHolds, PTL DEF Spec

\* No packet that has arrived waits in the buffer while the reader waits for more.
THEOREM HoldsNothingBack == Spec => []NothingHeldBack
<1>1. IInv => NothingHeldBack
  <2>1. SUFFICES ASSUME IInv, pc = "receive", NEW i \in 1..Len(sent), EndOf(i) <= received,
                        ~(i <= Len(handed))
                 PROVE  FALSE
    BY DEF NothingHeldBack
  <2>2. Types /\ Layout /\ HandedOver /\ Receiving
    BY <2>1 DEF IInv
  <2>3. Len(handed) \in Nat /\ Len(sent) \in Nat /\ received \in Nat
    BY <2>2, PlacesAreTyped DEF Types
  <2>4. PICK h \in 1..Len(sent) : h = Len(handed) + 1
    BY <2>1, <2>3
  <2>5. received < EndOf(h)
    BY <2>1, <2>2, <2>3, <2>4 DEF Receiving
  <2>6. /\ EndOf(h) \in Nat /\ EndOf(i) \in Nat /\ starts[i] \in Nat
        /\ Len(sent[i]) \in Nat
    BY <2>2, PlacesAreTyped
  <2>7. CASE i = h
    BY <2>1, <2>3, <2>5, <2>6, <2>7
  <2>8. CASE i # h
    <3>1. i \in (h + 1)..Len(sent)
      BY <2>1, <2>3, <2>4, <2>8
    <3>2. EndOf(h) <= starts[i]
      BY <2>2, <3>1 DEF Layout
    <3>3. EndOf(i) = starts[i] + Len(sent[i])
      BY DEF EndOf
    <3> QED
      BY <2>1, <2>3, <2>5, <2>6, <3>2, <3>3
  <2> QED
    BY <2>7, <2>8
<1> QED
  BY <1>1, InitHolds, StepHolds, PTL DEF Spec

\* Every step of the reader and the camera is one of the channel, or none: the
\* packets arrive once each, in order, and none of an earlier connection.
THEOREM ImplementsChannel == Spec => KeepsPackets
<1>1. Init => Channel!Init
  BY DEF Init, Channel!Init
<1>2. ASSUME IInv, [Next]_vars PROVE [Channel!Next]_(Channel!vars)
  <2>1. CASE \E p \in Packets : CameraSends(p)
    <3>1. PICK p \in Packets : CameraSends(p)
      BY <2>1
    <3>2. Channel!Send(p)
      BY <3>1 DEF CameraSends, Channel!Send
    <3> QED
      BY <3>2 DEF Channel!Next
  <2>2. CASE Return
    <3>1. PICK t \in Nat : t = Taken /\ t <= Len(sent) /\ Len(handed) <= t
      BY <1>2, <2>2, ReturnHandsOver, PlacesAreTyped DEF IInv
    <3>2. sent' = sent /\ handed' = handed \o packets
      BY <2>2 DEF Return, cameraVars
    <3>3. /\ Len(handed) \in Nat /\ Len(packets) \in Nat /\ Len(sent) \in Nat
          /\ handed \in Seq(Meanings) /\ packets \in Seq(Meanings)
          /\ t = Len(handed) + Len(packets)
      BY <1>2, <2>2, <3>1, PlacesAreTyped DEF IInv, Types, Return, Taken
    <3>4. CASE Len(packets) = 0
      <4>1. packets = <<>>
        BY <3>3, <3>4
      <4>2. handed' = handed
        BY <3>2, <3>3, <4>1
      <4> QED
        BY <3>2, <4>2 DEF Channel!vars
    <3>5. CASE Len(packets) # 0
      <4>1. t \in (Len(handed) + 1)..Len(sent)
        BY <3>1, <3>3, <3>5
      <4>2. /\ handed' \in Seq(Meanings) /\ Len(handed') = t
            /\ \A i \in 1..t : handed'[i] = Meaning(sent[i])
        BY <1>2, <2>2, <3>1, ReturnHandsOver
      <4>3. handed' = [i \in 1..t |-> Meaning(sent[i])]
        BY <3>1, <4>2
      <4>4. Channel!Hand
        BY <3>2, <4>1, <4>3 DEF Channel!Hand
      <4> QED
        BY <4>4 DEF Channel!Next
    <3> QED
      BY <3>4, <3>5
  <2>3. CASE Reconnect
    <3>1. Channel!Reconnect
      BY <2>3 DEF Reconnect, Channel!Reconnect
    <3> QED
      BY <3>1 DEF Channel!Next
  <2>4. CASE Receive \/ TakePacket \/ Refuse \/ Lose \/ UNCHANGED vars
    BY <2>4 DEF Receive, TakePacket, Refuse, Lose, vars, cameraVars, Channel!vars
  <2> QED
    BY <1>2, <2>1, <2>2, <2>3, <2>4 DEF Next
<1>3. Spec => Channel!Spec
  BY <1>1, <1>2, InitHolds, StepHolds, PTL DEF Spec, Channel!Spec
<1> QED
  BY <1>3 DEF KeepsPackets

-----------------------------------------------------------------------------
(* encode_varint is well defined.                                          *)

\* The bytes of v, given those of v \div 128.
Bytes(v, rest) == IF v < 128 THEN <<v>> ELSE <<128 + (v % 128)>> \o rest

\* f encodes the numbers up to n.
Encodes(f, n) == f = [v \in 0..n |-> Bytes(v, f[v \div 128])]

\* A number of more than one byte has fewer bits behind its first seven.
LEMMA Sevens ==
  ASSUME NEW v \in Nat
  PROVE  /\ v = 128 * (v \div 128) + (v % 128) /\ v % 128 \in 0..127 /\ v \div 128 \in Nat
         /\ v >= 128 => v \div 128 < v
  OBVIOUS

\* What Encodes says of each number.
LEMMA EncodesEach ==
  ASSUME NEW f, NEW n \in Nat, Encodes(f, n), NEW v \in Nat, v <= n
  PROVE  f[v] = Bytes(v, f[v \div 128])
BY DEF Encodes

\* There is such a function for each n.
LEMMA EncodesExists == ASSUME NEW n \in Nat PROVE \E f : Encodes(f, n)
<1> DEFINE T == {m \in Nat : \E f : Encodes(f, m)}
<1>1. 0 \in T
  <2> DEFINE f == [v \in 0..0 |-> <<0>>]
  <2>1. Bytes(0, f[0 \div 128]) = <<0>>
    BY DEF Bytes
  <2>2. Encodes(f, 0)
    BY <2>1 DEF Encodes
  <2> QED
    BY <2>2
<1>2. ASSUME NEW m \in Nat, m \in T PROVE m + 1 \in T
  <2>1. PICK f : Encodes(f, m)
    BY <1>2
  <2> DEFINE k == m + 1
             g == [v \in 0..k |-> IF v = k THEN Bytes(k, f[k \div 128]) ELSE f[v]]
  <2>2. ASSUME NEW v \in 0..k PROVE g[v] = Bytes(v, g[v \div 128])
    <3>1. CASE v = k
      <4> DEFINE d == k \div 128
      <4>1. d \in 0..k /\ d # k
        <5>1. k \in Nat /\ k > 0
          OBVIOUS
        <5> HIDE DEF k
        <5> QED
          BY <5>1
      <4>2. g[d] = f[d]
        BY <4>1
      <4>3. g[k] = Bytes(k, f[d])
        OBVIOUS
      <4> QED
        BY <3>1, <4>2, <4>3
    <3>2. CASE v # k
      <4> DEFINE d == v \div 128
      <4>1. v \in Nat /\ v <= m /\ v \in 0..k
        BY <3>2
      <4>2. d \in 0..k /\ d # k
        BY <4>1
      <4>3. g[v] = f[v] /\ g[d] = f[d]
        BY <3>2, <4>1, <4>2
      <4>4. f[v] = Bytes(v, f[d])
        BY <2>1, <4>1, EncodesEach
      <4> QED
        BY <4>3, <4>4
    <3> QED
      BY <3>1, <3>2
  <2>3. g = [v \in 0..k |-> g[v]]
    OBVIOUS
  <2> HIDE DEF g
  <2>4. Encodes(g, k)
    BY <2>2, <2>3 DEF Encodes
  <2> QED
    BY <2>4
<1>3. Nat \subseteq T
  <2> HIDE DEF T
  <2> QED
    BY <1>1, <1>2, NumberInduction
<1> QED
  BY <1>3

\* Two of them agree where they are both defined.
LEMMA EncodesUnique ==
  ASSUME NEW m \in Nat, NEW n \in Nat, NEW f, NEW g, Encodes(f, m), Encodes(g, n),
         NEW k \in Nat, k <= m, k <= n
  PROVE  f[k] = g[k]
<1> DEFINE T == {i \in Nat : \A j \in 0..i : j <= m /\ j <= n => f[j] = g[j]}
<1>1. \A j \in Nat : j <= m /\ j <= n =>
        f[j] = Bytes(j, f[j \div 128]) /\ g[j] = Bytes(j, g[j \div 128])
  BY EncodesEach
<1>2. 0 \in T
  <2>1. f[0] = <<0>> /\ g[0] = <<0>>
    <3>1. \A r : Bytes(0, r) = <<0>>
      BY DEF Bytes
    <3>2. f[0] = Bytes(0, f[0 \div 128]) /\ g[0] = Bytes(0, g[0 \div 128])
      BY <1>1
    <3> QED
      BY <3>1, <3>2
  <2> QED
    BY <2>1
<1>3. ASSUME NEW i \in Nat, i \in T PROVE i + 1 \in T
  <2> DEFINE d == (i + 1) \div 128
  <2> SUFFICES ASSUME i + 1 <= m, i + 1 <= n PROVE f[i + 1] = g[i + 1]
    BY <1>3
  <2>1. d \in 0..i /\ d <= m /\ d <= n
    OBVIOUS
  <2>2. f[d] = g[d]
    BY <1>3, <2>1
  <2>3. f[i + 1] = Bytes(i + 1, f[d]) /\ g[i + 1] = Bytes(i + 1, g[d])
    BY <1>1
  <2> QED
    BY <2>2, <2>3
<1>4. Nat \subseteq T
  <2> HIDE DEF T
  <2> QED
    BY <1>2, <1>3, NumberInduction
<1> QED
  BY <1>4

\* encode_varint satisfies its definition.
LEMMA EncodeIs ==
  ASSUME NEW v \in Nat
  PROVE  encode_varint[v] = Bytes(v, encode_varint[v \div 128])
<1> DEFINE up(n) == CHOOSE f : Encodes(f, n)
           F == [n \in Nat |-> up(n)[n]]
           Good(f) == f = [w \in Nat |-> Bytes(w, f[w \div 128])]
<1>1. \A n \in Nat : Encodes(up(n), n)
  BY EncodesExists
<1> HIDE DEF up
<1>2. ASSUME NEW n \in Nat PROVE F[n] = Bytes(n, F[n \div 128])
  <2> DEFINE d == n \div 128
  <2>1. d \in Nat /\ d <= n /\ d <= d
    OBVIOUS
  <2>2. up(n)[n] = Bytes(n, up(n)[d])
    BY <1>1, EncodesEach
  <2>3. up(n)[d] = up(d)[d]
    BY <1>1, <2>1, EncodesUnique
  <2> HIDE DEF d
  <2> QED
    BY <2>1, <2>2, <2>3 DEF d
<1>3. F = [n \in Nat |-> F[n]]
  OBVIOUS
<1> HIDE DEF F
<1>4. Good(F)
  BY <1>2, <1>3
<1>5. Good(encode_varint)
  <2>1. encode_varint = CHOOSE f : Good(f)
    BY DEF encode_varint, Bytes
  <2> HIDE DEF Good
  <2> QED
    BY <1>4, <2>1
<1> QED
  BY <1>5

-----------------------------------------------------------------------------
(* What the bytes of a number look like.                                   *)

\* Only the last byte of a varint is below 128.
Varint(e) ==
  /\ e \in Seq(Nat) /\ Len(e) > 0 /\ e[Len(e)] < 128
  /\ \A i \in 1..(Len(e) - 1) : e[i] >= 128

\* With a byte of 128 or more in front a varint is one byte longer.
LEMMA VarintCons ==
  ASSUME NEW t, Varint(t), NEW b \in Nat, b >= 128
  PROVE  Varint(<<b>> \o t) /\ Len(<<b>> \o t) = Len(t) + 1
<1> DEFINE e == <<b>> \o t
<1>1. t \in Seq(Nat) /\ Len(t) \in Nat /\ Len(t) > 0 /\ <<b>> \in Seq(Nat) /\ Len(<<b>>) = 1
  BY LenProperties DEF Varint
<1>2. /\ e \in Seq(Nat) /\ Len(e) = Len(t) + 1
      /\ \A i \in 1..(Len(t) + 1) : e[i] = IF i <= 1 THEN <<b>>[i] ELSE t[i - 1]
  BY <1>1, ConcatProperties
<1> HIDE DEF e
<1>3. ASSUME NEW i \in 1..Len(t) PROVE e[i] >= 128
  <2>1. CASE i = 1
    BY <1>2, <2>1
  <2>2. CASE i # 1
    <3>1. i - 1 \in 1..(Len(t) - 1) /\ ~(i <= 1) /\ i \in 1..(Len(t) + 1)
      BY <1>1, <2>2
    <3>2. e[i] = t[i - 1]
      BY <1>2, <3>1
    <3> QED
      BY <3>1, <3>2 DEF Varint
  <2> QED
    BY <2>1, <2>2
<1>4. e[Len(e)] < 128
  <2>1. Len(t) + 1 \in 1..(Len(t) + 1) /\ ~(Len(t) + 1 <= 1) /\ (Len(t) + 1) - 1 = Len(t)
    BY <1>1
  <2>2. e[Len(t) + 1] = t[Len(t)]
    BY <1>2, <2>1
  <2> QED
    BY <1>2, <2>2 DEF Varint
<1>5. Len(e) - 1 = Len(t) /\ Len(e) > 0
  BY <1>1, <1>2
<1>6. Varint(e)
  BY <1>2, <1>3, <1>4, <1>5 DEF Varint
<1> QED
  BY <1>2, <1>6 DEF e

\* A number is encoded as a varint, of one byte for each seven bits.
LEMMA EncodeShape ==
  ASSUME NEW v \in Nat
  PROVE  /\ Varint(encode_varint[v])
         /\ v < 128 => encode_varint[v] = <<v>>
         /\ v >= 128 => /\ encode_varint[v] = <<128 + (v % 128)>> \o encode_varint[v \div 128]
                        /\ Len(encode_varint[v]) = Len(encode_varint[v \div 128]) + 1
<1> DEFINE T == {n \in Nat : Varint(encode_varint[n])}
<1>1. ASSUME NEW n \in Nat
      PROVE  /\ n < 128 => encode_varint[n] = <<n>> /\ Varint(<<n>>)
             /\ n >= 128 =>
                  /\ encode_varint[n] = <<128 + (n % 128)>> \o encode_varint[n \div 128]
                  /\ n \div 128 \in Nat /\ n \div 128 < n
                  /\ 128 + (n % 128) \in Nat /\ 128 + (n % 128) >= 128
  <2>1. n < 128 => encode_varint[n] = <<n>>
    BY EncodeIs DEF Bytes
  <2>2. n < 128 => Varint(<<n>>)
    BY DEF Varint
  <2>3. n >= 128 => ~(n < 128) /\ n \div 128 \in Nat /\ n \div 128 < n
                    /\ 128 + (n % 128) \in Nat /\ 128 + (n % 128) >= 128
    OBVIOUS
  <2>4. n >= 128 => encode_varint[n] = <<128 + (n % 128)>> \o encode_varint[n \div 128]
    BY <2>3, EncodeIs DEF Bytes
  <2> QED
    BY <2>1, <2>2, <2>3, <2>4
<1>2. ASSUME NEW n \in Nat, \A m \in Nat : m < n => m \in T PROVE n \in T
  <2>1. CASE n < 128
    BY <1>1, <2>1
  <2>2. CASE n >= 128
    <3> DEFINE d == n \div 128
               b == 128 + (n % 128)
               r == encode_varint[d]
    <3>1. d \in T /\ b \in Nat /\ b >= 128 /\ encode_varint[n] = <<b>> \o r
      BY <1>1, <1>2, <2>2, ZenonT(60)
    <3>2. Varint(r)
      BY <3>1
    <3> HIDE DEF d, b, r
    <3> QED
      BY <3>1, <3>2, VarintCons
  <2> QED
    BY <2>1, <2>2
<1>3. Nat \subseteq T
  <2> HIDE DEF T
  <2> QED
    BY <1>2, LessInduction
<1>4. \A n \in Nat : Varint(encode_varint[n])
  BY <1>3
<1>5. ASSUME v >= 128 PROVE Len(encode_varint[v]) = Len(encode_varint[v \div 128]) + 1
  <2> DEFINE d == v \div 128
             b == 128 + (v % 128)
             r == encode_varint[d]
  <2>1. d \in Nat /\ b \in Nat /\ b >= 128 /\ encode_varint[v] = <<b>> \o r
    BY <1>1, <1>5, ZenonT(60)
  <2>2. Varint(r)
    BY <1>4, <2>1
  <2> HIDE DEF d, b, r
  <2>3. Len(<<b>> \o r) = Len(r) + 1
    BY <2>1, <2>2, VarintCons
  <2> QED
    BY <2>1, <2>3 DEF d, r
<1> QED
  BY <1>1, <1>4, <1>5

\* Up to four bytes, 28 bits.
LEMMA FourBytes ==
  ASSUME NEW v \in Nat
  PROVE  v < 2^28 <=> Len(encode_varint[v]) <= 4
<1>0. \A n \in Nat : Len(encode_varint[n]) \in Nat /\ Len(encode_varint[n]) > 0
  BY EncodeShape, LenProperties DEF Varint
<1> DEFINE l(n) == Len(encode_varint[n])
<1>1. ASSUME NEW n \in Nat
      PROVE  (n < 128 => l(n) = 1) /\ (n >= 128 => l(n) = l(n \div 128) + 1)
  <2>1. n < 128 => encode_varint[n] = <<n>>
    BY EncodeShape
  <2>2. n >= 128 => Len(encode_varint[n]) = Len(encode_varint[n \div 128]) + 1
    BY EncodeShape
  <2>3. Len(<<n>>) = 1
    OBVIOUS
  <2> QED
    BY <2>1, <2>2, <2>3
<1> HIDE DEF l
<1>2. \A n \in Nat : l(n) \in Nat /\ l(n) > 0 /\ n \div 128 \in Nat
  BY <1>0 DEF l
<1>3. \A n \in Nat : n < 128 <=> l(n) <= 1
  BY <1>1, <1>2
<1>4. ASSUME NEW n \in Nat PROVE n < 16384 <=> l(n) <= 2
  <2>1. n >= 128 => (n < 16384 <=> n \div 128 < 128)
    OBVIOUS
  <2> QED
    BY <1>1, <1>2, <1>3, <2>1
<1>5. ASSUME NEW n \in Nat PROVE n < 2097152 <=> l(n) <= 3
  <2>1. n >= 128 => (n < 2097152 <=> n \div 128 < 16384)
    OBVIOUS
  <2> QED
    BY <1>1, <1>2, <1>4, <2>1
<1>6. v < 268435456 <=> l(v) <= 4
  <2>1. v >= 128 => (v < 268435456 <=> v \div 128 < 2097152)
    OBVIOUS
  <2> QED
    BY <1>1, <1>2, <1>5, <2>1
<1>7. 2^28 = 268435456
  OBVIOUS
<1> QED
  BY <1>6, <1>7 DEF l

-----------------------------------------------------------------------------
(* What Number reads is what encode_varint wrote.                          *)

\* The number from the byte i of b on, given that from the next one on.
Digit(b, i, rest) ==
  IF i > Len(b) THEN 0
  ELSE IF i = 10 THEN -b[i]
  ELSE (b[i] % 128) + 128 * rest

\* f reads b from its last k bytes to the position n behind them.
Reads(f, b, n, k) == f = [i \in (n - k)..n |-> Digit(b, i, f[i + 1])]

\* There is such a function for each k.
LEMMA ReadsExists ==
  ASSUME NEW b, Len(b) \in Nat, NEW n \in Nat, n - 1 = Len(b), NEW k \in Nat
  PROVE  \E f : Reads(f, b, n, k)
<1> DEFINE T == {m \in Nat : \E f : Reads(f, b, n, m)}
<1>1. 0 \in T
  <2> DEFINE f == [i \in n..n |-> 0]
  <2>1. Digit(b, n, f[n + 1]) = 0
    BY DEF Digit
  <2>2. \A i \in (n - 0)..n : i = n
    OBVIOUS
  <2>3. n - 0 = n
    OBVIOUS
  <2>4. f = [i \in (n - 0)..n |-> Digit(b, i, f[i + 1])]
    BY <2>1, <2>2, <2>3
  <2>5. Reads(f, b, n, 0)
    BY <2>4 DEF Reads
  <2> QED
    BY <2>5
<1>2. ASSUME NEW m \in Nat, m \in T PROVE m + 1 \in T
  <2>1. PICK f : Reads(f, b, n, m)
    BY <1>2
  <2> DEFINE j == n - (m + 1)
             g == [i \in j..n |-> IF i = j THEN Digit(b, j, f[j + 1]) ELSE f[i]]
  <2>2. ASSUME NEW i \in j..n PROVE g[i] = Digit(b, i, g[i + 1])
    <3>1. CASE i = j
      <4>1. j + 1 \in j..n /\ j + 1 # j
        BY <3>1
      <4> QED
        BY <3>1, <4>1
    <3>2. CASE i # j
      <4>1. i \in (n - m)..n /\ g[i] = f[i]
        BY <3>2
      <4>2. f[i] = Digit(b, i, f[i + 1])
        BY <2>1, <4>1 DEF Reads
      <4>3. CASE i = n
        <5>1. i > Len(b)
          BY <4>3
        <5> QED
          BY <4>1, <4>2, <5>1 DEF Digit
      <4>4. CASE i # n
        <5>1. i + 1 \in j..n /\ i + 1 # j
          BY <3>2, <4>4
        <5> QED
          BY <4>1, <4>2, <5>1
      <4> QED
        BY <4>3, <4>4
    <3> QED
      BY <3>1, <3>2
  <2>3. g = [i \in j..n |-> g[i]]
    OBVIOUS
  <2> HIDE DEF g
  <2>4. g = [i \in j..n |-> Digit(b, i, g[i + 1])]
    <3> HIDE DEF j
    <3> QED
      BY <2>2, <2>3
  <2>5. Reads(g, b, n, m + 1)
    BY <2>4 DEF Reads
  <2> QED
    BY <2>5
<1>3. Nat \subseteq T
  <2> HIDE DEF T
  <2> QED
    BY <1>1, <1>2, NumberInduction
<1> QED
  BY <1>3

\* What Number is, by the function that reads it.
LEMMA NumberIs ==
  ASSUME NEW b, Len(b) \in Nat
  PROVE  \E f : /\ Number(b) = f[1]
                /\ \A i \in 1..(Len(b) + 1) : f[i] = Digit(b, i, f[i + 1])
<1> DEFINE Good(f) == f = [i \in 1..(Len(b) + 1) |-> Digit(b, i, f[i + 1])]
           F == CHOOSE f : Good(f)
<1>1. Good(F)
  <2> DEFINE n == Len(b) + 1
  <2>0. n \in Nat /\ n - 1 = Len(b)
    OBVIOUS
  <2>1. PICK f : Reads(f, b, n, Len(b))
    BY <2>0, ReadsExists
  <2>2. n - Len(b) = 1
    OBVIOUS
  <2>3. Good(f)
    BY <2>1, <2>2 DEF Reads
  <2> HIDE DEF Good
  <2> QED
    BY <2>3
<1>2. Number(b) = F[1]
  BY DEF Number, Digit
<1> HIDE DEF F
<1>3. \A i \in 1..(Len(b) + 1) : F[i] = Digit(b, i, F[i + 1])
  BY <1>1
<1> QED
  BY <1>2, <1>3

\* A byte in front is worth its seven bits, and what follows is worth 128 times more.
LEMMA NumberCons ==
  ASSUME NEW b \in Nat, NEW t \in Seq(Nat), Len(t) <= 8
  PROVE  Number(<<b>> \o t) = (b % 128) + 128 * Number(t)
<1> DEFINE e == <<b>> \o t
           n == Len(t)
<1>1. n \in Nat /\ n <= 8 /\ <<b>> \in Seq(Nat) /\ Len(<<b>>) = 1
  BY LenProperties
<1>2. Len(e) = n + 1 /\ e[1] = b /\ \A i \in 1..n : e[i + 1] = t[i]
  <2>1. \A i \in 1..(1 + n) : e[i] = IF i <= 1 THEN <<b>>[i] ELSE t[i - 1]
    BY <1>1, ConcatProperties
  <2>2. Len(e) = 1 + n
    BY <1>1, ConcatProperties
  <2> HIDE DEF e, n
  <2>3. 1 \in 1..(1 + n)
    BY <1>1
  <2>4. ASSUME NEW i \in 1..n PROVE e[i + 1] = t[i]
    <3>1. i + 1 \in 1..(1 + n) /\ ~(i + 1 <= 1) /\ (i + 1) - 1 = i
      BY <1>1
    <3> QED
      BY <2>1, <3>1
  <2> QED
    BY <1>1, <2>1, <2>2, <2>3, <2>4
<1> HIDE DEF e
<1>3. PICK f : Number(e) = f[1] /\ \A i \in 1..(n + 2) : f[i] = Digit(e, i, f[i + 1])
  <2>1. Len(e) \in Nat /\ Len(e) + 1 = n + 2
    BY <1>1, <1>2
  <2> QED
    BY <2>1, NumberIs
<1>4. PICK g : Number(t) = g[1] /\ \A i \in 1..(n + 1) : g[i] = Digit(t, i, g[i + 1])
  BY <1>1, NumberIs
<1> DEFINE T == {k \in Nat : k <= n => f[(n + 2) - k] = g[(n + 1) - k]}
<1>5. 0 \in T
  <2>1. n + 2 \in 1..(n + 2) /\ n + 1 \in 1..(n + 1) /\ n + 2 > Len(e) /\ n + 1 > Len(t)
        /\ (n + 2) - 0 = n + 2 /\ (n + 1) - 0 = n + 1
    BY <1>1, <1>2
  <2>2. f[n + 2] = 0 /\ g[n + 1] = 0
    BY <1>3, <1>4, <2>1 DEF Digit
  <2> QED
    BY <2>1, <2>2
<1>6. ASSUME NEW k \in Nat, k \in T PROVE k + 1 \in T
  <2> SUFFICES ASSUME k + 1 <= n PROVE f[(n + 2) - (k + 1)] = g[(n + 1) - (k + 1)]
    OBVIOUS
  <2> DEFINE i == n - k
  <2>1. /\ (n + 2) - (k + 1) = i + 1 /\ (n + 1) - (k + 1) = i /\ (n + 2) - k = i + 2
        /\ (n + 1) - k = i + 1 /\ k <= n
        /\ i \in 1..n /\ i + 1 \in 1..(n + 2) /\ i \in 1..(n + 1) /\ (i + 1) + 1 = i + 2
        /\ ~(i + 1 > n + 1) /\ ~(i > n) /\ i # 10 /\ i + 1 # 10
    BY <1>1
  <2> HIDE DEF i
  <2>2. f[i + 2] = g[i + 1]
    BY <1>6, <2>1
  <2>3. f[i + 1] = Digit(e, i + 1, f[i + 2]) /\ g[i] = Digit(t, i, g[i + 1])
    BY <1>3, <1>4, <2>1
  <2>4. e[i + 1] = t[i] /\ ~(i + 1 > Len(e)) /\ ~(i > Len(t))
    BY <1>2, <2>1
  <2>5. f[i + 1] = g[i]
    BY <2>1, <2>2, <2>3, <2>4 DEF Digit
  <2> QED
    BY <2>1, <2>5
<1>7. Nat \subseteq T
  <2> HIDE DEF T
  <2> QED
    BY <1>5, <1>6, NumberInduction
<1>8. f[2] = g[1]
  <2>1. n \in T /\ (n + 2) - n = 2 /\ (n + 1) - n = 1 /\ n <= n
    BY <1>1, <1>7
  <2> QED
    BY <2>1
<1>9. f[1] = Digit(e, 1, f[2])
  <2>1. 1 \in 1..(n + 2) /\ 1 + 1 = 2
    BY <1>1
  <2> QED
    BY <1>3, <2>1
<1>10. ~(1 > Len(e))
  BY <1>1, <1>2
<1> QED
  BY <1>2, <1>3, <1>4, <1>8, <1>9, <1>10 DEF Digit, e

\* What is written is read back, up to nine bytes.
LEMMA NumberOfEncoding ==
  ASSUME NEW v \in Nat, Len(encode_varint[v]) <= 9
  PROVE  Number(encode_varint[v]) = v
<1> DEFINE T == {n \in Nat : Len(encode_varint[n]) <= 9 => Number(encode_varint[n]) = n}
<1>1. ASSUME NEW n \in Nat, \A m \in Nat : m < n => m \in T PROVE n \in T
  <2> SUFFICES ASSUME Len(encode_varint[n]) <= 9 PROVE Number(encode_varint[n]) = n
    OBVIOUS
  <2>1. CASE n < 128
    <3>1. encode_varint[n] = <<n>> \o <<>>
      <4>1. encode_varint[n] = <<n>>
        BY <2>1, EncodeShape
      <4>2. <<n>> \in Seq(Nat)
        OBVIOUS
      <4> QED
        BY <4>1, <4>2, ConcatEmptySeq
    <3>2. <<>> \in Seq(Nat) /\ Len(<<>>) = 0 /\ Number(<<>>) = 0
      <4>1. <<>> \in Seq(Nat) /\ Len(<<>>) = 0
        OBVIOUS
      <4>2. PICK f : /\ Number(<<>>) = f[1]
                     /\ \A i \in 1..(Len(<<>>) + 1) : f[i] = Digit(<<>>, i, f[i + 1])
        BY <4>1, NumberIs
      <4>3. 1 \in 1..(Len(<<>>) + 1) /\ 1 > Len(<<>>)
        BY <4>1
      <4> QED
        BY <4>1, <4>2, <4>3 DEF Digit
    <3>3. Number(<<n>> \o <<>>) = (n % 128) + 128 * Number(<<>>)
      <4>1. Len(<<>>) <= 8
        BY <3>2
      <4> QED
        BY ONLY <3>2, <4>1, n \in Nat, NumberCons
    <3>4. (n % 128) + 128 * 0 = n
      BY <2>1
    <3> QED
      BY <3>1, <3>2, <3>3, <3>4
  <2>2. CASE n >= 128
    <3> DEFINE d == n \div 128
               b == 128 + (n % 128)
               r == encode_varint[d]
    <3>1. d \in Nat /\ d < n /\ b \in Nat /\ (b % 128) + 128 * d = n
      BY <2>2
    <3>2. encode_varint[n] = <<b>> \o r /\ Len(encode_varint[n]) = Len(r) + 1
      BY <2>2, EncodeShape
    <3>3. r \in Seq(Nat) /\ Len(r) \in Nat
      BY <3>1, EncodeShape, LenProperties, ZenonT(60) DEF Varint
    <3>4. d \in T
      BY <1>1, <3>1
    <3> HIDE DEF b, r
    <3>5. Len(r) <= 8 /\ Len(r) <= 9
      BY <3>2, <3>3
    <3>6. Number(r) = d
      BY <3>4, <3>5 DEF r
    <3>7. Number(<<b>> \o r) = (b % 128) + 128 * Number(r)
      BY <3>1, <3>3, <3>5, NumberCons, ZenonT(60)
    <3> QED
      BY <3>1, <3>2, <3>6, <3>7
  <2> QED
    BY <2>1, <2>2
<1>2. Nat \subseteq T
  <2> HIDE DEF T
  <2> QED
    BY <1>1, LessInduction
<1> QED
  BY <1>2

-----------------------------------------------------------------------------
(* Reading what stands somewhere in a sequence.                            *)

\* e stands in d behind the first o elements.
At(d, o, e) == o + Len(e) <= Len(d) /\ \A i \in 1..Len(e) : d[o + i] = e[i]

\* A number is read back from where it was written, if it has no more bytes than are
\* looked at; the tenth byte of a varint is a sign.
LEMMA DecodeNumber ==
  ASSUME NEW S, Nat \subseteq S, NEW d \in Seq(S), NEW o \in Nat, NEW m \in 1..10,
         NEW v \in Nat, At(d, o, encode_varint[v]), m <= 9 \/ Len(encode_varint[v]) <= 9
  PROVE  decode_varint(d, o, m) =
           IF Len(encode_varint[v]) <= m
           THEN [error |-> "none", offset |-> o + Len(encode_varint[v]), value |-> v]
           ELSE Raised("oversized")
<1> DEFINE e == encode_varint[v]
           n == Len(e)
<1>1. Varint(e) /\ n \in Nat /\ n > 0 /\ e \in Seq(Nat)
  BY EncodeShape, LenProperties, ZenonT(60) DEF Varint
<1>0. m <= 9 \/ n <= 9
  OBVIOUS
<1>2. n <= 9 => Number(e) = v
  BY NumberOfEncoding
<1>3. At(d, o, e)
  OBVIOUS
<1> HIDE DEF e
<1>4. ASSUME NEW k \in 1..m PROVE IsVarint(d, o, k) <=> k = n
  <2>1. CASE k = n
    <3>1. o + k <= Len(d) /\ \A i \in 1..k : d[o + i] = e[i]
      BY <1>3, <2>1 DEF At
    <3>2. e[k] < 128 /\ \A i \in 1..(k - 1) : i \in 1..k /\ e[i] >= 128
      BY <1>1, <2>1 DEF Varint
    <3>3. d[o + k] < 128 /\ \A i \in 1..(k - 1) : d[o + i] >= 128
      <4>1. k \in 1..k
        OBVIOUS
      <4> QED
        BY <3>1, <3>2, <4>1
    <3> QED
      BY <2>1, <3>1, <3>3 DEF IsVarint
  <2>2. CASE k < n
    <3>1. k \in 1..(n - 1) /\ k \in 1..n
      BY <1>1, <2>2
    <3>2. d[o + k] = e[k] /\ e[k] >= 128 /\ e[k] \in Nat
      BY <1>1, <1>3, <3>1, ElementOfSeq DEF At, Varint
    <3>3. ~(d[o + k] < 128)
      BY <3>2
    <3> QED
      BY <2>2, <3>3 DEF IsVarint
  <2>3. CASE k > n
    <3>1. n \in 1..(k - 1) /\ n \in 1..n
      BY <1>1, <2>3
    <3>2. d[o + n] = e[n] /\ e[n] < 128 /\ e[n] \in Nat
      BY <1>1, <1>3, <3>1, ElementOfSeq DEF At, Varint
    <3>3. ~(d[o + n] >= 128)
      BY <3>2
    <3>4. IsVarint(d, o, k) => d[o + n] >= 128
      BY <3>1 DEF IsVarint
    <3> QED
      BY <2>3, <3>3, <3>4
  <2> QED
    BY <1>1, <2>1, <2>2, <2>3
<1>5. CASE n <= m
  <2>1. n \in 1..m /\ n <= 9
    BY <1>0, <1>1, <1>5
  <2>2. (CHOOSE k \in 1..m : IsVarint(d, o, k)) = n
    BY <1>4, <2>1
  <2>3. SubSeq(d, o + 1, o + n) = e
    <3> DEFINE s == SubSeq(d, o + 1, o + n)
    <3>1. Len(d) \in Nat /\ o + n <= Len(d)
      BY <1>3, LenProperties DEF At
    <3>2. o + 1 \in Int /\ o + n \in Int /\ o + 1 <= o + n /\ (o + n) - (o + 1) + 1 = n
      BY <1>1
    <3>3. ASSUME NEW i \in (o + 1)..(o + n) PROVE d[i] \in S
      <4>1. i \in 1..Len(d)
        BY <1>1, <3>1
      <4> QED
        BY <4>1, ElementOfSeq
    <3>4. s \in Seq(S) /\ Len(s) = n /\ \A i \in 1..n : s[i] = d[o + i]
      <4> DEFINE a == o + 1
                 z == o + n
      <4>1. a \in Int /\ z \in Int /\ (\A i \in a..z : d[i] \in S) /\ a <= z /\ z - a + 1 = n
        BY <3>2, <3>3
      <4>2. \A i \in 1..n : a + i - 1 = o + i
        BY <1>1
      <4> HIDE DEF a, z
      <4>3. /\ SubSeq(d, a, z) \in Seq(S) /\ Len(SubSeq(d, a, z)) = n
            /\ \A i \in 1..n : SubSeq(d, a, z)[i] = d[a + i - 1]
        <5>1. /\ SubSeq(d, a, z) \in Seq(S)
              /\ Len(SubSeq(d, a, z)) = IF a <= z THEN z - a + 1 ELSE 0
              /\ \A i \in 1..(z - a + 1) : SubSeq(d, a, z)[i] = d[a + i - 1]
          BY <4>1, SubSeqProperties
        <5> HIDE DEF n
        <5> QED
          BY ONLY <4>1, <5>1
      <4> QED
        BY <4>2, <4>3 DEF a, z
    <3> HIDE DEF s
    <3>5. ASSUME NEW i \in 1..n PROVE s[i] = e[i]
      BY <1>3, <3>4 DEF At
    <3>6. e \in Seq(S)
      BY <1>1, SeqMonotonic
    <3>7. s = e
      BY <3>4, <3>5, <3>6, SeqEqual
    <3> QED
      BY <3>7 DEF s
  <2>4. decode_varint(d, o, m) = [error |-> "none", offset |-> o + n, value |-> Number(e)]
    BY <1>4, <2>1, <2>2, <2>3 DEF decode_varint
  <2> QED
    BY <1>2, <1>5, <2>1, <2>4 DEF e
<1>6. CASE ~(n <= m)
  <2>1. \A k \in 1..m : ~IsVarint(d, o, k)
    BY <1>1, <1>4, <1>6
  <2>2. o + m <= Len(d)
    <3>1. Len(d) \in Nat /\ o + n <= Len(d)
      BY <1>3, LenProperties DEF At
    <3> QED
      BY <1>1, <1>6, <3>1
  <2>3. decode_varint(d, o, m) = Raised("oversized")
    BY <2>1, <2>2 DEF decode_varint
  <2> QED
    BY <1>6, <2>3 DEF e
<1> QED
  BY <1>5, <1>6

\* So it is where fewer than ten bytes are looked at.
LEMMA DecodeEncoding ==
  ASSUME NEW S, Nat \subseteq S, NEW d \in Seq(S), NEW o \in Nat, NEW m \in 1..9,
         NEW v \in Nat, At(d, o, encode_varint[v])
  PROVE  decode_varint(d, o, m) =
           IF Len(encode_varint[v]) <= m
           THEN [error |-> "none", offset |-> o + Len(encode_varint[v]), value |-> v]
           ELSE Raised("oversized")
<1>1. m \in 1..10 /\ m <= 9
  OBVIOUS
<1> QED
  BY <1>1, DecodeNumber

\* A varint behind those that have been read.
Next1(d, before, m) ==
  LET next == decode_varint(d, before.offset, m)
  IN IF before.error # "none" THEN before
     ELSE IF next.error # "none" THEN next
     ELSE [error |-> "none", offset |-> next.offset,
           values |-> Append(before.values, next.value)]

\* Two varints are read one behind the other.
LEMMA DecodeTwo ==
  ASSUME NEW d
  PROVE  DecodeVarints(d, 0, <<4, 4>>)
           = Next1(d, Next1(d, [error |-> "none", offset |-> 0, values |-> <<>>], 4), 4)
<1> DEFINE zero == [error |-> "none", offset |-> 0, values |-> <<>>]
           limits == <<4, 4>>
           Good(f) == f = [i \in 0..Len(limits) |->
                             IF i = 0 THEN zero ELSE Next1(d, f[i - 1], limits[i])]
           one == Next1(d, zero, 4)
           two == Next1(d, one, 4)
           F == CHOOSE f : Good(f)
           f2 == [i \in 0..2 |-> IF i = 0 THEN zero ELSE IF i = 1 THEN one ELSE two]
<1>1. Len(limits) = 2 /\ limits[1] = 4 /\ limits[2] = 4
  OBVIOUS
<1>2. DecodeVarints(d, 0, limits) = F[Len(limits)]
  BY DEF DecodeVarints, Next1
<1> HIDE DEF one, two, zero
<1>3. f2[0] = zero /\ f2[1] = one /\ f2[2] = two
  OBVIOUS
<1> HIDE DEF limits
<1>4. Good(f2)
  <2>1. \A i \in 0..2 : i = 0 \/ i = 1 \/ i = 2
    OBVIOUS
  <2>2. ASSUME NEW i \in 0..2
        PROVE  f2[i] = IF i = 0 THEN zero ELSE Next1(d, f2[i - 1], limits[i])
    <3>1. CASE i = 0
      BY <1>3, <3>1
    <3>2. CASE i = 1
      <4>1. i # 0 /\ i - 1 = 0
        BY <3>2
      <4> QED
        BY <1>1, <1>3, <3>2, <4>1 DEF one
    <3>3. CASE i = 2
      <4>1. i # 0 /\ i - 1 = 1
        BY <3>3
      <4> QED
        BY <1>1, <1>3, <3>3, <4>1 DEF two
    <3> QED
      BY <2>1, <3>1, <3>2, <3>3
  <2>3. f2 = [i \in 0..2 |-> f2[i]]
    OBVIOUS
  <2> HIDE DEF f2
  <2> QED
    BY <1>1, <2>2, <2>3
<1>5. Good(F)
  <2> HIDE DEF Good
  <2> QED
    BY <1>4
<1> HIDE DEF F, f2
<1>6. F[0] = zero /\ F[1] = one /\ F[2] = two
  <2>1. F[0] = zero
    BY <1>1, <1>5
  <2>2. F[1] = Next1(d, F[0], 4)
    <3>1. 1 \in 0..2 /\ 1 # 0 /\ 1 - 1 = 0
      OBVIOUS
    <3>2. F[1] = Next1(d, F[1 - 1], limits[1])
      BY <1>1, <1>5, <3>1
    <3> QED
      BY <1>1, <3>1, <3>2
  <2>3. F[2] = Next1(d, F[1], 4)
    <3>1. 2 \in 0..2 /\ 2 # 0 /\ 2 - 1 = 1
      OBVIOUS
    <3>2. F[2] = Next1(d, F[2 - 1], limits[2])
      BY <1>1, <1>5, <3>1
    <3> QED
      BY <1>1, <3>1, <3>2
  <2> QED
    BY <2>1, <2>2, <2>3 DEF one, two
<1> QED
  BY <1>1, <1>2, <1>6 DEF one, two, zero, limits

-----------------------------------------------------------------------------
(* Packets.                                                                *)

\* The second of two sequences stands behind the first, and what stands in the first
\* stays where it is.
LEMMA AtConcat ==
  ASSUME NEW S, NEW x \in Seq(S), NEW y \in Seq(S)
  PROVE  /\ At(x \o y, Len(x), y)
         /\ \A e : \A o \in Nat : Len(e) \in Nat /\ At(x, o, e) => At(x \o y, o, e)
         /\ Rest(x \o y, Len(x)) = y
<1> DEFINE z == x \o y
           m == Len(x)
           n == Len(y)
<1>1. m \in Nat /\ n \in Nat
  BY LenProperties
<1>2. /\ z \in Seq(S) /\ Len(z) = m + n
      /\ \A i \in 1..(m + n) : z[i] = IF i <= m THEN x[i] ELSE y[i - m]
  BY ConcatProperties
<1> HIDE DEF z
<1>3. \A i \in 1..n : z[m + i] = y[i]
  <2> SUFFICES ASSUME NEW i \in 1..n PROVE z[m + i] = y[i]
    OBVIOUS
  <2> HIDE DEF m, n
  <2>1. m + i \in 1..(m + n) /\ ~(m + i <= m) /\ (m + i) - m = i
    BY <1>1
  <2> QED
    BY <1>2, <2>1
<1>4. \A i \in 1..m : z[i] = x[i]
  <2> HIDE DEF m, n
  <2>1. \A i \in 1..m : i \in 1..(m + n) /\ i <= m
    BY <1>1
  <2> QED
    BY <1>2, <2>1
<1>5. At(z, m, y)
  BY <1>1, <1>2, <1>3 DEF At
<1>6. ASSUME NEW o \in Nat, NEW e, Len(e) \in Nat, At(x, o, e) PROVE At(z, o, e)
  <2>1. o + Len(e) <= m /\ \A i \in 1..Len(e) : x[o + i] = e[i]
    BY <1>6 DEF At
  <2> HIDE DEF m, n
  <2>2. \A i \in 1..Len(e) : o + i \in 1..m
    BY <1>1, <1>6, <2>1
  <2>3. o + Len(e) <= Len(z)
    BY <1>1, <1>2, <1>6, <2>1
  <2> QED
    BY <1>4, <2>1, <2>2, <2>3 DEF At
<1>7. Rest(z, m) = y
  <2> DEFINE a == m + 1
             k == m + n
             r == SubSeq(z, a, k)
  <2> HIDE DEF m, n
  <2>1. a \in Int /\ k \in Int /\ k - a + 1 = n /\ (a <= k <=> n > 0)
        /\ \A i \in 1..n : a + i - 1 = m + i
    BY <1>1
  <2>2. ASSUME NEW i \in a..k PROVE z[i] \in S
    <3>1. i \in 1..Len(z)
      BY <1>1, <1>2
    <3> QED
      BY <1>2, <3>1, ElementOfSeq
  <2> HIDE DEF a, k
  <2>3. /\ r \in Seq(S) /\ Len(r) = IF a <= k THEN k - a + 1 ELSE 0
        /\ \A i \in 1..(k - a + 1) : r[i] = z[a + i - 1]
    BY <2>1, <2>2, SubSeqProperties
  <2> HIDE DEF r
  <2>4. Len(r) = n /\ \A i \in 1..n : r[i] = z[m + i]
    <3>1. Len(r) = n
      <4>1. Len(r) = IF n > 0 THEN n ELSE 0
        BY <2>1, <2>3
      <4> QED
        BY <1>1, <4>1
    <3>2. ASSUME NEW i \in 1..n PROVE r[i] = z[m + i]
      BY <2>1, <2>3
    <3> QED
      BY <3>1, <3>2
  <2>5. r = y
    BY <1>3, <2>3, <2>4, SeqEqual DEF n
  <2> QED
    BY <1>2, <2>5 DEF Rest, r, a, k
<1> QED
  BY <1>5, <1>6, <1>7 DEF z

\* A body, and where its parts stand.
Body(a, b, f, c, p) == a \o b \o <<f>> \o c \o p

Stands(body, a, b, f, c, p) ==
  /\ Len(body) = Len(a) + Len(b) + 1 + Len(c) + Len(p)
  /\ At(body, 0, a) /\ At(body, Len(a), b) /\ At(body, Len(a) + Len(b), <<f>>)
  /\ At(body, Len(a) + Len(b) + 1, c)
  /\ Rest(body, Len(a) + Len(b) + 1 + Len(c)) = p

\* The parts of a body stand where their lengths say.
LEMMA BodyParts ==
  ASSUME NEW S, NEW a \in Seq(S), NEW b \in Seq(S), NEW c \in Seq(S), NEW p \in Seq(S),
         NEW f \in S, NEW body, body = Body(a, b, f, c, p)
  PROVE  body \in Seq(S) /\ Stands(body, a, b, f, c, p)
<1> DEFINE ab == a \o b
           abf == ab \o <<f>>
           abfc == abf \o c
<1>0. /\ Len(a) \in Nat /\ Len(b) \in Nat /\ Len(c) \in Nat /\ Len(p) \in Nat
      /\ <<f>> \in Seq(S) /\ Len(<<f>>) = 1
  BY LenProperties
<1>1. ab \in Seq(S) /\ Len(ab) = Len(a) + Len(b)
  BY ConcatProperties
<1>2. At(a, 0, a)
  BY <1>0 DEF At
<1>3. At(ab, 0, a) /\ At(ab, Len(a), b)
  BY <1>0, <1>2, AtConcat
<1>4. body = abfc \o p
  BY DEF Body
<1> HIDE DEF ab
<1>5. abf \in Seq(S) /\ Len(abf) = Len(ab) + 1
  <2> DEFINE g == <<f>>
  <2>1. ab \in Seq(S) /\ g \in Seq(S) /\ Len(g) = 1
    BY <1>0, <1>1
  <2> HIDE DEF g
  <2>2. ab \o g \in Seq(S) /\ Len(ab \o g) = Len(ab) + Len(g)
    BY <2>1, ConcatProperties
  <2> QED
    BY <2>1, <2>2 DEF g
<1>6. At(abf, 0, a) /\ At(abf, Len(a), b) /\ At(abf, Len(ab), <<f>>)
  BY <1>0, <1>1, <1>3, AtConcat
<1> HIDE DEF abf
<1>7. abfc \in Seq(S) /\ Len(abfc) = Len(abf) + Len(c)
  BY <1>5, ConcatProperties
<1>8. /\ At(abfc, 0, a) /\ At(abfc, Len(a), b) /\ At(abfc, Len(ab), <<f>>)
      /\ At(abfc, Len(abf), c)
  <2>1. Len(ab) \in Nat
    BY <1>0, <1>1
  <2> QED
    BY <1>0, <1>5, <1>6, <2>1, AtConcat
<1> HIDE DEF abfc
<1>9. body \in Seq(S) /\ Len(body) = Len(abfc) + Len(p)
  BY <1>4, <1>7, ConcatProperties
<1>10. /\ At(body, 0, a) /\ At(body, Len(a), b) /\ At(body, Len(ab), <<f>>)
       /\ At(body, Len(abf), c) /\ Rest(body, Len(abfc)) = p
  <2>1. Len(ab) \in Nat /\ Len(abf) \in Nat
    BY <1>0, <1>1, <1>5
  <2> QED
    <3> HIDE DEF abfc
    <3>1. body = abfc \o p /\ abfc \in Seq(S) /\ p \in Seq(S)
      BY <1>4, <1>7
    <3>2. Rest(body, Len(abfc)) = p
      BY <3>1, AtConcat
    <3>3. \A e : \A q \in Nat : Len(e) \in Nat /\ At(abfc, q, e) => At(abfc \o p, q, e)
      BY <3>1, AtConcat
    <3> QED
      BY <1>0, <1>7, <1>8, <2>1, <3>1, <3>2, <3>3
<1>11. Len(abf) = Len(a) + Len(b) + 1 /\ Len(abfc) = Len(a) + Len(b) + 1 + Len(c)
  BY <1>1, <1>5, <1>7
<1>12. Len(body) = Len(a) + Len(b) + 1 + Len(c) + Len(p)
  BY <1>9, <1>11
<1> QED
  BY <1>1, <1>9, <1>10, <1>11, <1>12 DEF Stands

\* An element behind o others.
LEMMA AtOne == ASSUME NEW d, NEW o, NEW f, At(d, o, <<f>>) PROVE d[o + 1] = f /\ o + 1 <= Len(d)
<1>1. Len(<<f>>) = 1 /\ <<f>>[1] = f /\ 1 \in 1..1
  OBVIOUS
<1> QED
  BY <1>1 DEF At

\* A second element.
LEMMA AppendTwo == ASSUME NEW s \in Nat, NEW c \in Nat PROVE Append(<<s>>, c) = <<s, c>>
<1> DEFINE q == <<s>>
           r == <<s, c>>
<1>1. q \in Seq(Nat) /\ Len(q) = 1 /\ q[1] = s
  OBVIOUS
<1>2. r \in Seq(Nat) /\ Len(r) = 2 /\ r[1] = s /\ r[2] = c
  OBVIOUS
<1> HIDE DEF q, r
<1> DEFINE t == Append(q, c)
<1>3. t \in Seq(Nat) /\ Len(t) = 2 /\ t[1] = s /\ t[2] = c
  <2>1. t \in Seq(Nat) /\ Len(t) = Len(q) + 1
    BY <1>1, AppendProperties
  <2>2. /\ \A i \in 1..Len(q) : t[i] = q[i]
        /\ t[Len(q) + 1] = c
    BY <1>1, AppendProperties, ZenonT(60)
  <2> HIDE DEF t
  <2> QED
    BY <1>1, <2>1, <2>2
<1> HIDE DEF t
<1>4. \A i \in 1..2 : i = 1 \/ i = 2
  OBVIOUS
<1>5. t = r
  BY <1>2, <1>3, <1>4, SeqEqual
<1> QED
  BY <1>5 DEF t, q, r

\* The two numbers of a body have been read, up to offset y.
HeadRead(d, y, s, c) ==
  DecodeVarints(d, 0, <<4, 4>>) = [error |-> "none", offset |-> y, values |-> <<s, c>>]

\* Two varints, one behind the other.
LEMMA ReadsTwo ==
  ASSUME NEW d, NEW x, NEW y, NEW s \in Nat, NEW c \in Nat,
         decode_varint(d, 0, 4) = [error |-> "none", offset |-> x, value |-> s],
         decode_varint(d, x, 4) = [error |-> "none", offset |-> y, value |-> c]
  PROVE  HeadRead(d, y, s, c)
<1> DEFINE zero == [error |-> "none", offset |-> 0, values |-> <<>>]
           one == [error |-> "none", offset |-> x, values |-> <<s>>]
<1>1. Next1(d, zero, 4) = one
  BY DEF Next1
<1>2. Append(<<s>>, c) = <<s, c>>
  BY AppendTwo
<1>3. Next1(d, one, 4) = [error |-> "none", offset |-> y, values |-> Append(<<s>>, c)]
  BY DEF Next1
<1> QED
  BY <1>1, <1>2, <1>3, DecodeTwo DEF HeadRead

\* A body that begins with a number of more than four bytes is refused.
LEMMA RpcRefused ==
  ASSUME NEW d, decode_varint(d, 0, 4) = Raised("oversized")
  PROVE  parse_rpc(d) = Raised("oversized")
<1> DEFINE zero == [error |-> "none", offset |-> 0, values |-> <<>>]
           head == DecodeVarints(d, 0, <<4, 4>>)
<1>1. Raised("oversized").error = "oversized"
  BY DEF Raised
<1>2. Next1(d, zero, 4) = Raised("oversized")
  BY <1>1 DEF Next1
<1>3. Next1(d, Raised("oversized"), 4) = Raised("oversized")
  BY <1>1 DEF Next1
<1>4. head = Raised("oversized")
  BY <1>2, <1>3, DecodeTwo
<1> HIDE DEF head
<1> QED
  BY <1>1, <1>4 DEF parse_rpc, head

\* What is read behind them, and the packet it makes.
CodeAt(d, y, f) ==
  IF f % 4 = 0 THEN [error |-> "none", offset |-> y + 1, value |-> NoCode]
  ELSE decode_varint(d, y + 1, 4)

Parsed(d, s, c, f, code) ==
  IF code.error # "none" THEN code
  ELSE [error |-> "none", sequence |-> s, command_id |-> c,
        encryption_type |-> f \div 4, rpc_type |-> f % 4,
        response_code |-> code.value, payload |-> Rest(d, code.offset)]

\* A body whose head has been read.
LEMMA RpcRead ==
  ASSUME NEW d, Len(d) \in Nat, NEW y \in Nat, NEW s, NEW c, HeadRead(d, y, s, c),
         y + 1 <= Len(d), NEW f, d[y + 1] = f, f % 4 \in RequestTypes
  PROVE  parse_rpc(d) = Parsed(d, s, c, f, CodeAt(d, y, f))
<1> DEFINE head == DecodeVarints(d, 0, <<4, 4>>)
<1>1. head.error = "none" /\ head.offset = y /\ head.values[1] = s /\ head.values[2] = c
  BY DEF HeadRead
<1>2. ~(y >= Len(d))
  OBVIOUS
<1> HIDE DEF head
<1> QED
  BY <1>1, <1>2 DEF parse_rpc, head, Parsed, CodeAt

\* The body of a request or an answer, and what it is parsed to.
CodeOf(type, answer) == IF type = 1 THEN encode_varint[answer] ELSE <<>>

RpcBody(sequence, command, type, answer, p) ==
  encode_varint[sequence] \o encode_varint[command] \o <<4 * Aes256Cbc + type>>
    \o CodeOf(type, answer) \o p

RpcOutcome(sequence, command, type, answer, p) ==
  IF Len(encode_varint[sequence]) > 4 \/ (type = 1 /\ Len(encode_varint[answer]) > 4)
  THEN Raised("oversized")
  ELSE [error |-> "none", sequence |-> sequence, command_id |-> command,
        encryption_type |-> Aes256Cbc, rpc_type |-> type,
        response_code |-> IF type = 1 THEN answer ELSE NoCode, payload |-> p]

Parts(S, sequence, command, type, answer, p) ==
  /\ Nat \subseteq S /\ p \in Seq(S) /\ sequence \in Nat /\ command \in Nat
  /\ Len(encode_varint[command]) <= 4 /\ type \in RequestTypes /\ answer \in Nat

BodyParses(S, sequence, command, type, answer, p) ==
  /\ RpcBody(sequence, command, type, answer, p) \in Seq(S)
  /\ Len(RpcBody(sequence, command, type, answer, p))
       = Len(encode_varint[sequence]) + Len(encode_varint[command]) + 1
           + Len(CodeOf(type, answer)) + Len(p)
  /\ parse_rpc(RpcBody(sequence, command, type, answer, p))
       = RpcOutcome(sequence, command, type, answer, p)

\* A body is parsed to what it was made of, unless a number takes more than four bytes.
LEMMA ParseBody ==
  ASSUME NEW S, NEW sequence, NEW command, NEW type, NEW answer, NEW p,
         Parts(S, sequence, command, type, answer, p)
  PROVE  BodyParses(S, sequence, command, type, answer, p)
<1> SUFFICES ASSUME Nat \subseteq S, p \in Seq(S), sequence \in Nat, command \in Nat,
                    Len(encode_varint[command]) <= 4, type \in RequestTypes, answer \in Nat
             PROVE  BodyParses(S, sequence, command, type, answer, p)
  BY DEF Parts
<1> DEFINE code == CodeOf(type, answer)
           body == RpcBody(sequence, command, type, answer, p)
<1>a. code = CodeOf(type, answer) /\ body = RpcBody(sequence, command, type, answer, p)
  OBVIOUS
<1> HIDE DEF code, body
<1> USE <1>a
<1> SUFFICES /\ body \in Seq(S)
             /\ Len(body) = Len(encode_varint[sequence]) + Len(encode_varint[command]) + 1
                              + Len(code) + Len(p)
             /\ parse_rpc(body) = RpcOutcome(sequence, command, type, answer, p)
  BY <1>a DEF BodyParses
<1> DEFINE a == encode_varint[sequence]
           b == encode_varint[command]
           r == encode_varint[answer]
           f == 4 * Aes256Cbc + type
           n == Len(a)
           o == Len(a) + Len(b)
           k == Len(r)
           read == CodeAt(body, o, f)
           Done(value) ==
             [error |-> "none", sequence |-> sequence, command_id |-> command,
              encryption_type |-> Aes256Cbc, rpc_type |-> type,
              response_code |-> value, payload |-> p]
<1>0. /\ a \in Seq(Nat) /\ b \in Seq(Nat) /\ r \in Seq(Nat)
      /\ n \in Nat /\ Len(b) \in Nat /\ k \in Nat /\ Len(p) \in Nat
  BY EncodeShape, LenProperties, ZenonT(60) DEF Varint
<1>1. type \in {0, 1} /\ f \in Nat /\ f % 4 = type /\ f \div 4 = Aes256Cbc
  BY DEF RequestTypes, Aes256Cbc
<1>2. code \in Seq(Nat) /\ Len(code) \in Nat /\ (type = 0 => Len(code) = 0)
      /\ (type = 1 => code = r)
  <2>1. CASE type = 0
    <3>1. code = <<>>
      BY <2>1 DEF CodeOf
    <3>2. <<>> \in Seq(Nat) /\ Len(<<>>) = 0
      OBVIOUS
    <3> HIDE DEF r
    <3> QED
      BY ONLY <2>1, <3>1, <3>2
  <2>2. CASE type = 1
    <3>1. code = r
      BY <2>2 DEF CodeOf
    <3> HIDE DEF r
    <3> QED
      BY <1>0, <2>2, <3>1
  <2> QED
    BY <1>1, <2>1, <2>2
<1>3. a \in Seq(S) /\ b \in Seq(S) /\ code \in Seq(S) /\ f \in S
  BY <1>0, <1>1, <1>2, SeqMonotonic
<1>4. body = Body(a, b, f, code, p)
  BY DEF Body, RpcBody
<1>5. /\ body \in Seq(S) /\ Len(body) = Len(a) + Len(b) + 1 + Len(code) + Len(p)
      /\ At(body, 0, a) /\ At(body, Len(a), b) /\ At(body, Len(a) + Len(b), <<f>>)
      /\ At(body, Len(a) + Len(b) + 1, code)
      /\ Rest(body, Len(a) + Len(b) + 1 + Len(code)) = p
  <2> HIDE DEF a, b, f
  <2>1. body \in Seq(S) /\ Stands(body, a, b, f, code, p)
    BY <1>3, <1>4, BodyParts
  <2> QED
    BY <2>1 DEF Stands
<1>6. body[o + 1] = f /\ o + 1 <= Len(body) /\ Len(body) \in Nat
  BY <1>5, AtOne, LenProperties
<1>7. decode_varint(body, 0, 4) =
        IF n <= 4 THEN [error |-> "none", offset |-> n, value |-> sequence]
                  ELSE Raised("oversized")
  <2>1. 4 \in 1..9 /\ 0 \in Nat /\ 0 + n = n
    BY <1>0
  <2> QED
    BY <1>0, <1>5, <2>1, DecodeEncoding
<1>8. decode_varint(body, n, 4) = [error |-> "none", offset |-> o, value |-> command]
  <2>1. 4 \in 1..9
    OBVIOUS
  <2> QED
    BY <1>0, <1>5, <2>1, DecodeEncoding
<1>9. type = 1 => decode_varint(body, o + 1, 4) =
                    IF k <= 4 THEN [error |-> "none", offset |-> o + 1 + k, value |-> answer]
                              ELSE Raised("oversized")
  <2> DEFINE q == o + 1
  <2>1. 4 \in 1..9 /\ q \in Nat
    <3> HIDE DEF a, b
    <3> QED
      BY <1>0
  <2>2. type = 1 => At(body, q, encode_varint[answer])
    BY <1>2, <1>5
  <2> HIDE DEF q
  <2>3. type = 1 => decode_varint(body, q, 4) =
                      IF Len(encode_varint[answer]) <= 4
                      THEN [error |-> "none", offset |-> q + Len(encode_varint[answer]),
                            value |-> answer]
                      ELSE Raised("oversized")
    BY <1>5, <2>1, <2>2, DecodeEncoding
  <2> QED
    BY <2>3 DEF q
<1>10. o \in Nat
  <2> HIDE DEF a, b
  <2> QED
    BY <1>0
<1> HIDE DEF a, b, r, f, o, n, k
<1>11. CASE n > 4
  <2>1. ~(n <= 4)
    BY <1>0, <1>11
  <2>2. parse_rpc(body) = Raised("oversized")
    BY <1>7, <2>1, RpcRefused
  <2> QED
    BY <1>5, <1>11, <2>2 DEF a, b, n, RpcOutcome
<1>12. CASE ~(n > 4)
  <2>1. n <= 4
    BY <1>0, <1>12
  <2>2. decode_varint(body, 0, 4) = [error |-> "none", offset |-> n, value |-> sequence]
    BY <1>7, <2>1
  <2>3. HeadRead(body, o, sequence, command)
    BY <1>8, <2>2, ReadsTwo
  <2>4. parse_rpc(body) = Parsed(body, sequence, command, f, read)
    <3>1. f % 4 \in RequestTypes
      BY <1>1
    <3> QED
      <4>1. Len(body) \in Nat /\ o + 1 <= Len(body) /\ body[o + 1] = f
        BY <1>6
      <4> HIDE DEF read
      <4>2. parse_rpc(body) = Parsed(body, sequence, command, f, CodeAt(body, o, f))
        BY ONLY <1>10, <2>3, <3>1, <4>1, RpcRead
      <4> QED
        BY <4>2 DEF read
  <2> HIDE DEF read
  <2>5. CASE type = 0
    <3>1. read = [error |-> "none", offset |-> o + 1, value |-> NoCode]
      BY <1>1, <2>5 DEF read, CodeAt
    <3>2. o + 1 + Len(code) = o + 1
      BY <1>2, <1>10, <2>5
    <3>3. Rest(body, o + 1) = p
      BY <1>5, <3>2 DEF o
    <3>4. read.error = "none" /\ read.value = NoCode /\ read.offset = o + 1
      BY <3>1
    <3>5. parse_rpc(body) = Done(NoCode)
      BY <1>1, <2>4, <3>3, <3>4 DEF Parsed
    <3> QED
      BY <1>5, <1>12, <2>5, <3>5 DEF a, b, n, RpcOutcome
  <2>6. CASE type = 1 /\ k <= 4
    <3>1. read = [error |-> "none", offset |-> o + 1 + k, value |-> answer]
      BY <1>1, <1>9, <2>6 DEF read, CodeAt
    <3>2. Rest(body, o + 1 + k) = p
      BY <1>2, <1>5, <2>6 DEF o, k
    <3>3. read.error = "none" /\ read.value = answer /\ read.offset = o + 1 + k
      BY <3>1
    <3>4. parse_rpc(body) = Done(answer)
      BY <1>1, <2>4, <3>2, <3>3 DEF Parsed
    <3>5. ~(k > 4)
      BY <1>0, <2>6
    <3> QED
      BY <1>5, <1>12, <2>6, <3>4, <3>5 DEF a, b, n, r, k, RpcOutcome
  <2>7. CASE type = 1 /\ ~(k <= 4)
    <3>1. read = Raised("oversized")
      BY <1>1, <1>9, <2>7 DEF read, CodeAt
    <3>2. Raised("oversized").error = "oversized"
      BY DEF Raised
    <3>3. parse_rpc(body) = Raised("oversized")
      BY <2>4, <3>1, <3>2 DEF Parsed
    <3>4. k > 4
      BY <1>0, <2>7
    <3> QED
      BY <1>5, <2>7, <3>3, <3>4 DEF a, b, r, k, RpcOutcome
  <2> QED
    BY <1>1, <2>5, <2>6, <2>7
<1> QED
  BY <1>11, <1>12

\* A packet with the fixed header of a request or an answer is parsed to what its body
\* is parsed to.
LEMMA ParseWhole ==
  ASSUME NEW S, Nat \subseteq S, NEW body \in Seq(S), Len(body) < 2^28
  PROVE  parse_packet(<<72>> \o encode_varint[Len(body)] \o body, "no") = parse_rpc(body)
<1> DEFINE h == <<72>>
           l == Len(body)
           e == encode_varint[l]
           n == Len(e)
           he == h \o e
           d == he \o body
<1>1. l \in Nat
  BY LenProperties
<1>2. e \in Seq(Nat) /\ n \in Nat /\ n <= 4
  BY <1>1, EncodeShape, FourBytes, LenProperties DEF Varint
<1>3. h \in Seq(Nat) /\ Len(h) = 1
  OBVIOUS
<1>4. h \in Seq(S) /\ e \in Seq(S)
  BY <1>2, <1>3, SeqMonotonic
<1> HIDE DEF h, e, l
<1>5. he \in Seq(S) /\ Len(he) = 1 + n /\ At(he, 1, e)
  <2>1. At(he, Len(h), e) /\ he \in Seq(S) /\ Len(he) = Len(h) + Len(e)
    BY <1>4, AtConcat, ConcatProperties
  <2> QED
    BY <1>3, <2>1
<1>6. At(he, 0, h)
  <2>1. Len(h) \in Nat /\ At(h, 0, h)
    BY <1>3 DEF At
  <2> QED
    BY <1>4, <2>1, AtConcat
<1> HIDE DEF n
<1> HIDE DEF he
<1>7. d \in Seq(S) /\ Len(d) = 1 + n + l /\ Rest(d, 1 + n) = body /\ At(d, 1, e) /\ At(d, 0, h)
  <2>1. d \in Seq(S) /\ Len(d) = Len(he) + Len(body) /\ Rest(d, Len(he)) = body
    BY <1>5, AtConcat, ConcatProperties
  <2>2. At(d, 1, e)
    BY <1>2, <1>5, AtConcat DEF n
  <2>3. At(d, 0, h)
    BY <1>3, <1>5, <1>6, AtConcat
  <2> QED
    BY <1>5, <2>1, <2>2, <2>3 DEF l
<1> HIDE DEF d
<1>8. d[1] = 72
  BY <1>7, AtOne DEF h
<1>9. decode_varint(d, 1, 4) = [error |-> "none", offset |-> 1 + n, value |-> l]
  <2>1. 4 \in 1..9 /\ 1 \in Nat
    OBVIOUS
  <2>2. At(d, 1, encode_varint[l])
    BY <1>7 DEF e
  <2>3. decode_varint(d, 1, 4) =
          IF Len(encode_varint[l]) <= 4
          THEN [error |-> "none", offset |-> 1 + Len(encode_varint[l]), value |-> l]
          ELSE Raised("oversized")
    BY <1>1, <1>7, <2>1, <2>2, DecodeEncoding
  <2> QED
    BY <1>2, <2>3 DEF n, e
<1> DEFINE header == parse_fixed_header(d, "no")
<1>10. header = [error |-> "none", message_type |-> 4, length |-> l, size |-> 1 + n]
  <2>1. 72 \div 16 = 4 /\ 4 \in SupportedTypes /\ 72 % 16 = 8 /\ 8 \in SupportedFlags
    BY DEF SupportedTypes, SupportedFlags
  <2>2. ~(Len(d) <= 0)
    BY <1>1, <1>2, <1>7
  <2> QED
    BY <1>8, <1>9, <2>1, <2>2 DEF parse_fixed_header
<1>11. parse_packet(d, "no") = parse_rpc(body)
  <2> HIDE DEF header
  <2>1. /\ header.error = "none" /\ header.size = 1 + n /\ header.length = l
        /\ header.message_type = 4
    BY <1>10
  <2>2. ~((1 + n) + l > Len(d)) /\ (1 + n) + l = Len(d)
    BY <1>1, <1>2, <1>7
  <2> QED
    BY <1>7, <2>1, <2>2 DEF parse_packet, header
<1> QED
  BY <1>11 DEF d, he, e, h, l

-----------------------------------------------------------------------------
(* Requests and answers.                                                   *)

\* The payload pack_rpc makes of a short text.
PayloadOf(text, key) == IF text = <<>> THEN <<>> ELSE Encrypted(text, key)

\* It is one block or none.
LEMMA PayloadIs ==
  ASSUME NEW key, NEW text \in {<<>>, <<8, 1>>}
  PROVE  LET r == [key |-> key, text |-> text]
             p == PayloadOf(text, key)
         IN /\ p \in Seq({r}) /\ Len(p) <= 16
            /\ text = <<>> => p = <<>>
            /\ text # <<>> => p # <<>> /\ p[1] = r
<1> DEFINE r == [key |-> key, text |-> text]
           p == PayloadOf(text, key)
<1>1. CASE text = <<>>
  BY <1>1 DEF PayloadOf
<1>2. CASE text = <<8, 1>>
  <2>1. text # <<>> /\ 16 * (Len(text) \div 16 + 1) = 16
    BY <1>2
  <2>2. p = [i \in 1..16 |-> r]
    BY <2>1 DEF PayloadOf, Encrypted
  <2> HIDE DEF r, p
  <2>3. p \in Seq({r}) /\ Len(p) = 16 /\ p[1] = r /\ p # <<>>
    BY <2>2
  <2> QED
    BY <2>1, <2>3 DEF r, p
<1> QED
  BY <1>1, <1>2

\* What pack_rpc is given, and what the packet is parsed to.
Given(sequence, command, type, answer, text) ==
  /\ sequence \in Nat /\ Len(encode_varint[sequence]) <= MaxVarintBytes
  /\ answer \in Nat /\ Len(encode_varint[answer]) <= MaxVarintBytes
  /\ command \in Nat /\ Len(encode_varint[command]) <= 4
  /\ type \in RequestTypes /\ text \in {<<>>, <<8, 1>>}

PacketOutcome(sequence, command, type, answer, text) ==
  IF sequence >= 2^28 \/ (type = 1 /\ answer >= 2^28) THEN Raised("oversized")
  ELSE [error |-> "none", sequence |-> sequence, command_id |-> command,
        encryption_type |-> Aes256Cbc, rpc_type |-> type,
        response_code |-> IF type = 1 THEN answer ELSE NoCode,
        payload |-> PayloadOf(text, derive_rpc_key(sequence, command, type))]

\* What pack_rpc writes is parsed to what it was given.
LEMMA PacketIsParsed ==
  ASSUME NEW sequence, NEW command, NEW type, NEW answer, NEW text,
         Given(sequence, command, type, answer, text)
  PROVE  parse_packet(pack_rpc(sequence, command, text, type, answer), "no")
           = PacketOutcome(sequence, command, type, answer, text)
<1> SUFFICES ASSUME sequence \in Nat, Len(encode_varint[sequence]) <= MaxVarintBytes,
                    answer \in Nat, Len(encode_varint[answer]) <= MaxVarintBytes,
                    command \in Nat, Len(encode_varint[command]) <= 4,
                    type \in RequestTypes, text \in {<<>>, <<8, 1>>}
             PROVE  parse_packet(pack_rpc(sequence, command, text, type, answer), "no")
                      = PacketOutcome(sequence, command, type, answer, text)
  BY DEF Given
<1> DEFINE key == derive_rpc_key(sequence, command, type)
           r == [key |-> key, text |-> text]
           p == PayloadOf(text, key)
           S == Nat \cup {r}
           a == encode_varint[sequence]
           b == encode_varint[command]
           k == encode_varint[answer]
           code == CodeOf(type, answer)
           body == RpcBody(sequence, command, type, answer, p)
<1>1. pack_rpc(sequence, command, text, type, answer) = <<72>> \o encode_varint[Len(body)] \o body
  BY DEF pack_rpc, PayloadOf, RpcBody, CodeOf
<1>2. p \in Seq(S) /\ Len(p) \in Nat /\ Len(p) <= 16
  <2> HIDE DEF p, r, key
  <2>1. p \in Seq({r}) /\ Len(p) <= 16
    BY PayloadIs DEF p, r
  <2> QED
    BY <2>1, SeqMonotonic, LenProperties
<1>3. Len(b) <= 4 /\ command \in Nat
  OBVIOUS
<1>4. Nat \subseteq S
  OBVIOUS
<1>5. /\ Len(a) \in Nat /\ Len(b) \in Nat /\ Len(k) \in Nat
      /\ Len(code) \in Nat /\ Len(code) <= 10 /\ Len(a) <= 10
  BY EncodeShape, LenProperties DEF Varint, MaxVarintBytes, CodeOf
<1> HIDE DEF p, r, key, S
<1>6. /\ body \in Seq(S)
      /\ Len(body) = Len(a) + Len(b) + 1 + Len(code) + Len(p)
      /\ parse_rpc(body) = RpcOutcome(sequence, command, type, answer, p)
  <2>1. body = RpcBody(sequence, command, type, answer, p) /\ code = CodeOf(type, answer)
    OBVIOUS
  <2>2. sequence \in Nat /\ answer \in Nat /\ type \in RequestTypes
    OBVIOUS
  <2>3. Len(encode_varint[command]) <= 4 /\ p \in Seq(S)
    BY <1>2, <1>3
  <2> HIDE DEF body, code
  <2>5. Parts(S, sequence, command, type, answer, p)
    BY <1>3, <1>4, <2>2, <2>3 DEF Parts
  <2>4. /\ body \in Seq(S)
        /\ Len(body) = Len(encode_varint[sequence]) + Len(encode_varint[command]) + 1
                         + Len(code) + Len(p)
        /\ parse_rpc(body) = RpcOutcome(sequence, command, type, answer, p)
    <3> HIDE DEF a, b, k
    <3>1. BodyParses(S, sequence, command, type, answer, p)
      BY ONLY <2>5, ParseBody
    <3> QED
      BY ONLY <2>1, <3>1 DEF BodyParses
  <2> QED
    BY <2>4
<1> HIDE DEF body, code, b
<1>7. Len(body) < 2^28
  <2> HIDE DEF a, k
  <2>1. Len(body) <= 41
    BY <1>2, <1>3, <1>5, <1>6
  <2>2. Len(body) \in Nat /\ 41 < 2^28
    BY <1>6, LenProperties
  <2> QED
    BY <2>1, <2>2
<1>8. parse_packet(<<72>> \o encode_varint[Len(body)] \o body, "no") = parse_rpc(body)
  BY ONLY <1>4, <1>6, <1>7, ParseWhole
<1>9. /\ Len(a) > 4 <=> sequence >= 2^28
      /\ Len(k) > 4 <=> answer >= 2^28
  <2>1. (sequence < 2^28 <=> Len(a) <= 4) /\ (answer < 2^28 <=> Len(k) <= 4)
    BY FourBytes
  <2>2. 2^28 \in Nat
    OBVIOUS
  <2> HIDE DEF a, k
  <2> QED
    BY <1>5, <2>1, <2>2
<1>10. RpcOutcome(sequence, command, type, answer, p) =
         IF sequence >= 2^28 \/ (type = 1 /\ answer >= 2^28) THEN Raised("oversized")
         ELSE [error |-> "none", sequence |-> sequence, command_id |-> command,
               encryption_type |-> Aes256Cbc, rpc_type |-> type,
               response_code |-> IF type = 1 THEN answer ELSE NoCode, payload |-> p]
  BY <1>9 DEF RpcOutcome
<1>11. parse_packet(pack_rpc(sequence, command, text, type, answer), "no")
         = RpcOutcome(sequence, command, type, answer, p)
  <2> DEFINE whole == <<72>> \o encode_varint[Len(body)] \o body
  <2>1. pack_rpc(sequence, command, text, type, answer) = whole
    BY <1>1
  <2>2. parse_packet(whole, "no") = parse_rpc(body)
    BY <1>8
  <2> HIDE DEF whole
  <2> QED
    BY <1>6, <2>1, <2>2
<1> QED
  BY <1>10, <1>11 DEF p, key, PacketOutcome

\* A payload opens under its own header and no other.
LEMMA PayloadOpens ==
  ASSUME NEW sequence \in Nat, NEW type, NEW text \in {<<>>, <<8, 1>>}, NEW packet,
         NEW code,
         packet = [error |-> "none", sequence |-> sequence, command_id |-> 2633,
                   encryption_type |-> Aes256Cbc, rpc_type |-> type, response_code |-> code,
                   payload |-> PayloadOf(text, derive_rpc_key(sequence, 2633, type))]
  PROVE  /\ decrypt_rpc_payload(packet).text = text
         /\ text # <<>> =>
              decrypt_rpc_payload([packet EXCEPT !.sequence = @ + 1]).error # "none"
<1> DEFINE key == derive_rpc_key(sequence, 2633, type)
           next == derive_rpc_key(sequence + 1, 2633, type)
           p == PayloadOf(text, key)
           other == [packet EXCEPT !.sequence = @ + 1]
<1>1. key # next
  BY DEF derive_rpc_key
<1>2. /\ text = <<>> => p = <<>>
      /\ text # <<>> => p # <<>> /\ p[1].key = key /\ p[1].text = text
  <2> DEFINE r == [key |-> key, text |-> text]
  <2> HIDE DEF key
  <2>1. (text = <<>> => p = <<>>) /\ (text # <<>> => p # <<>> /\ p[1] = r)
    BY PayloadIs
  <2>2. r.key = key /\ r.text = text
    OBVIOUS
  <2> HIDE DEF p, r
  <2> QED
    BY <2>1, <2>2
<1>3. /\ packet.payload = p /\ packet.encryption_type = Aes256Cbc
      /\ derive_rpc_key(packet.sequence, packet.command_id, packet.rpc_type) = key
  OBVIOUS
<1>4. /\ other.payload = p /\ other.encryption_type = Aes256Cbc
      /\ derive_rpc_key(other.sequence, other.command_id, other.rpc_type) = next
  <2> HIDE DEF p, key
  <2> QED
    BY DEF p, key
<1> HIDE DEF key, next, p, other
<1>5. decrypt_rpc_payload(packet).text = text
  BY <1>2, <1>3 DEF decrypt_rpc_payload
<1>6. text # <<>> => decrypt_rpc_payload(other).error # "none"
  BY <1>1, <1>2, <1>4 DEF decrypt_rpc_payload, Raised
<1> QED
  BY <1>5, <1>6 DEF other

\* One packet of the bridge is read back.
LEMMA OnePacketReadsBack ==
  ASSUME NEW sequence \in Numbers, NEW code \in Numbers, NEW type \in RequestTypes,
         NEW text \in {<<>>, <<8, 1>>}
  PROVE  ReadsBack(sequence, code, type, text)
<1> DEFINE packet == parse_packet(pack_rpc(sequence, 2633, text, type, code), "no")
           large == sequence >= 2^28 \/ (type = 1 /\ code >= 2^28)
           answer == IF type = 1 THEN code ELSE NoCode
           p == PayloadOf(text, derive_rpc_key(sequence, 2633, type))
<1>1. /\ sequence \in Nat /\ Len(encode_varint[sequence]) <= MaxVarintBytes
      /\ code \in Nat /\ Len(encode_varint[code]) <= MaxVarintBytes
  <2>1. \A v \in Nat : Len(encode_varint[v]) \in Nat
    BY EncodeShape, LenProperties DEF Varint
  <2> QED
    BY <2>1, NumbersAssumption DEF MaxVarintBytes
<1>2. 2633 \in Nat /\ Len(encode_varint[2633]) <= 4
  BY FourBytes
<1>3. packet = IF large THEN Raised("oversized")
               ELSE [error |-> "none", sequence |-> sequence, command_id |-> 2633,
                     encryption_type |-> Aes256Cbc, rpc_type |-> type,
                     response_code |-> answer, payload |-> p]
  <2>1. /\ sequence \in Nat /\ code \in Nat /\ type \in RequestTypes
        /\ text \in {<<>>, <<8, 1>>}
    BY <1>1
  <2> DEFINE command == 2633
  <2>2. command \in Nat /\ Len(encode_varint[command]) <= 4 /\ command = 2633
    BY <1>2
  <2> HIDE DEF command
  <2>3. Given(sequence, command, type, code, text)
    BY <1>1, <2>1, <2>2 DEF Given
  <2>4. parse_packet(pack_rpc(sequence, command, text, type, code), "no")
          = PacketOutcome(sequence, command, type, code, text)
    BY ONLY <2>3, PacketIsParsed
  <2> QED
    BY <2>2, <2>4 DEF PacketOutcome
<1> HIDE DEF packet, large
<1>4. CASE large
  <2>1. packet.error = "oversized"
    BY <1>3, <1>4 DEF Raised
  <2> QED
    BY <1>4, <2>1 DEF ReadsBack, packet, large
<1>5. CASE ~large
  <2>1. packet = [error |-> "none", sequence |-> sequence, command_id |-> 2633,
                  encryption_type |-> Aes256Cbc, rpc_type |-> type,
                  response_code |-> answer, payload |-> p]
    BY <1>3, <1>5
  <2>2. /\ packet.error = "none" /\ packet.sequence = sequence /\ packet.command_id = 2633
        /\ packet.rpc_type = type /\ packet.response_code = answer
    <3> HIDE DEF p, answer
    <3> QED
      BY <2>1
  <2>3. /\ decrypt_rpc_payload(packet).text = text
        /\ text # <<>> =>
             decrypt_rpc_payload([packet EXCEPT !.sequence = @ + 1]).error # "none"
    BY <1>1, <2>1, PayloadOpens
  <2> QED
    BY <1>5, <2>2, <2>3 DEF ReadsBack, packet, large, answer
<1> QED
  BY <1>4, <1>5

\* Whatever numbers below 2^63 the header carries: a packet that pack_rpc
\* writes is parsed to what was written and its payload opens under that header only, or
\* it is refused because a number takes more than four bytes.
THEOREM PacketsAreReadBack == Spec => []PacketsReadBack
<1>1. EveryPacketReadsBack
  BY OnePacketReadsBack DEF EveryPacketReadsBack
<1>2. PacketsReadBack
  BY <1>1 DEF PacketsReadBack
<1> QED
  BY <1>2, PTL

-----------------------------------------------------------------------------
(* Schedules.                                                              *)

\* What the service accepts, the control API accepts; what the API accepts, the switch
\* sends again, and so with the default: for any lists of days and any minutes.
THEOREM SchedulesAreAgreed == Spec => []SchedulesAgree
<1>1. ASSUME NEW days \in DayLists, NEW start \in Times, NEW end \in Times,
             service_accepts(days, start, end)
      PROVE  schedule_from_value([days |-> days, start |-> Text(start), end |-> Text(end)])
  BY <1>1 DEF service_accepts, schedule_from_value, IntrusionSchedule, Text, Times
<1>2. ASSUME NEW schedule \in Schedules, schedule_from_value(schedule), NEW enabled \in BOOLEAN
      PROVE  intrusion_payload(<<schedule>>, enabled)
               = <<[enabled |-> enabled, schedule |-> schedule]>>
  <2>1. validated_schedule(schedule)
    BY <1>2 DEF schedule_from_value, IntrusionSchedule, validated_schedule
  <2>2. <<schedule>> # <<>> /\ <<schedule>>[1] = schedule
    OBVIOUS
  <2> QED
    BY <2>1, <2>2 DEF intrusion_payload
<1>3. schedule_from_value(intrusion_payload(<<>>, FALSE)[1].schedule)
  <2>1. SortedDays(DefaultSchedule.days)
    <3> DEFINE days == [i \in 1..7 |-> i - 1]
    <3>1. DefaultSchedule.days = days
      BY DEF DefaultSchedule
    <3>2. Len(days) = 7 /\ days # <<>> /\ \A i \in 1..7 : days[i] = i - 1
      OBVIOUS
    <3> HIDE DEF days
    <3> QED
      BY <3>1, <3>2 DEF SortedDays
  <2>2. /\ DefaultSchedule.start = [minute |-> 0, form |-> "HH:MM"]
        /\ DefaultSchedule.end = [minute |-> 1439, form |-> "HH:MM"]
    BY DEF DefaultSchedule
  <2>3. validated_schedule(DefaultSchedule) /\ schedule_from_value(DefaultSchedule)
    BY <2>1, <2>2 DEF validated_schedule, schedule_from_value, IntrusionSchedule
  <2>4. intrusion_payload(<<>>, FALSE) = <<[enabled |-> FALSE, schedule |-> DefaultSchedule]>>
    BY <2>3 DEF intrusion_payload
  <2> DEFINE only == [enabled |-> FALSE, schedule |-> DefaultSchedule]
  <2>5. only.schedule = DefaultSchedule
    OBVIOUS
  <2>6. intrusion_payload(<<>>, FALSE) = <<only>>
    BY <2>4
  <2> HIDE DEF DefaultSchedule, only
  <2>7. <<only>>[1] = only
    OBVIOUS
  <2> QED
    BY <2>3, <2>5, <2>6, <2>7
<1>4. EveryScheduleAgrees
  BY <1>1, <1>2, <1>3 DEF EveryScheduleAgrees
<1>5. SchedulesAgree
  BY <1>4 DEF SchedulesAgree
<1> QED
  BY <1>5, PTL

-----------------------------------------------------------------------------
(* Different settings are different bytes.                                 *)

\* x, then y.  (The provers reason better about an operator of their own than about \o.)
Then(x, y) == x \o y

\* Two sequences of the same length in front are told apart from what follows.
LEMMA SameLengthSplits ==
  ASSUME NEW x \in Seq(Nat), NEW y \in Seq(Nat), NEW s \in Seq(Nat), NEW t \in Seq(Nat),
         Len(x) = Len(y), x \o s = y \o t
  PROVE  x = y /\ s = t
<1> DEFINE u == x \o s
           v == y \o t
           n == Len(x)
<1>1. n \in Nat /\ u = v /\ Len(y) = n /\ Len(u) = n + Len(s) /\ Len(s) \in Nat
  BY ConcatProperties, LenProperties
<1>2. \A i \in 1..(n + Len(s)) : u[i] = IF i <= n THEN x[i] ELSE s[i - n]
  BY ConcatProperties
<1>3. Len(v) = n + Len(t) /\ \A i \in 1..(n + Len(t)) : v[i] = IF i <= n THEN y[i] ELSE t[i - n]
  BY <1>1, ConcatProperties
<1> HIDE DEF u, v
<1>4. \A i \in 1..n : x[i] = y[i]
  <2> HIDE DEF n
  <2> SUFFICES ASSUME NEW i \in 1..n PROVE x[i] = y[i]
    OBVIOUS
  <2>1. n + Len(s) = n + Len(t)
    BY <1>1, <1>3
  <2>2. i \in 1..(n + Len(s)) /\ i <= n
    BY <1>1
  <2> QED
    BY <1>1, <1>2, <1>3, <2>1, <2>2
<1>5. x = y
  BY <1>1, <1>4, SeqEqual
<1> QED
  BY <1>5, ConcatSimplifications

\* So is a varint.
LEMMA VarintSplits ==
  ASSUME NEW x, NEW y, Varint(x), Varint(y), NEW s \in Seq(Nat), NEW t \in Seq(Nat),
         Then(x, s) = Then(y, t)
  PROVE  x = y /\ s = t
<1> DEFINE m == Len(x)
           n == Len(y)
<1>0. x \o s = y \o t
  BY Zenon DEF Then
<1>1. x \in Seq(Nat) /\ y \in Seq(Nat) /\ m \in Nat /\ n \in Nat /\ m > 0 /\ n > 0
  BY LenProperties DEF Varint
<1>2. ASSUME NEW a, NEW b, Varint(a), Varint(b), NEW c \in Seq(Nat), NEW d \in Seq(Nat),
             a \o c = b \o d
      PROVE  ~(Len(a) < Len(b))
  <2> SUFFICES ASSUME Len(a) < Len(b) PROVE FALSE
    OBVIOUS
  <2> DEFINE k == Len(a)
             l == Len(b)
             u == a \o c
             v == b \o d
  <2>1. a \in Seq(Nat) /\ b \in Seq(Nat) /\ k \in Nat /\ l \in Nat /\ k > 0 /\ k < l
        /\ Len(c) \in Nat /\ Len(d) \in Nat
    BY <1>2, LenProperties DEF Varint
  <2>2. \A i \in 1..(k + Len(c)) : u[i] = IF i <= k THEN a[i] ELSE c[i - k]
    BY <2>1, ConcatProperties
  <2>3. \A i \in 1..(l + Len(d)) : v[i] = IF i <= l THEN b[i] ELSE d[i - l]
    BY <2>1, ConcatProperties
  <2>4. u = v /\ a[k] < 128 /\ b[k] >= 128 /\ a[k] \in Nat /\ b[k] \in Nat
    <3>1. k \in 1..(l - 1)
      BY <2>1
    <3>2. b[k] >= 128 /\ a[k] < 128
      BY <1>2, <3>1 DEF Varint
    <3>3. k \in 1..l /\ k \in 1..k
      BY <2>1
    <3>4. a[k] \in Nat /\ b[k] \in Nat
      BY <2>1, <3>3, ElementOfSeq
    <3> QED
      BY <1>2, <3>2, <3>4
  <2> HIDE DEF u, v
  <2>5. u[k] = a[k]
    <3> HIDE DEF k
    <3>1. k \in 1..(k + Len(c)) /\ k <= k
      BY <2>1
    <3> QED
      BY <2>2, <3>1
  <2>6. v[k] = b[k]
    <3> HIDE DEF k, l
    <3>1. k \in 1..(l + Len(d)) /\ k <= l
      BY <2>1
    <3> QED
      BY <2>3, <3>1
  <2> HIDE DEF k
  <2> QED
    BY <2>4, <2>5, <2>6
<1>3. ~(m < n) /\ ~(n < m)
  BY <1>0, <1>2
<1>4. m = n
  <2> HIDE DEF m, n
  <2> QED
    BY <1>1, <1>3
<1> QED
  BY <1>0, <1>1, <1>4, SameLengthSplits

\* Different numbers are encoded as different bytes.
LEMMA EncodingIsInjective ==
  ASSUME NEW a \in Nat, NEW b \in Nat, encode_varint[a] = encode_varint[b]
  PROVE  a = b
<1> DEFINE e(n) == encode_varint[n]
           T == {n \in Nat : \A m \in Nat : e(n) = e(m) => n = m}
<1>1. ASSUME NEW n \in Nat
      PROVE  /\ e(n) \in Seq(Nat) /\ Len(e(n)) \in Nat /\ Len(e(n)) > 0
             /\ n < 128 => e(n) = <<n>> /\ Len(e(n)) = 1
             /\ n >= 128 => /\ e(n) = <<128 + (n % 128)>> \o e(n \div 128)
                            /\ Len(e(n)) = Len(e(n \div 128)) + 1
  <2>1. /\ Varint(e(n))
        /\ n < 128 => e(n) = <<n>>
        /\ n >= 128 => /\ e(n) = <<128 + (n % 128)>> \o e(n \div 128)
                       /\ Len(e(n)) = Len(e(n \div 128)) + 1
    BY EncodeShape
  <2>2. Len(<<n>>) = 1
    OBVIOUS
  <2> HIDE DEF e
  <2>3. e(n) \in Seq(Nat) /\ Len(e(n)) \in Nat /\ Len(e(n)) > 0
    BY <2>1, LenProperties DEF Varint
  <2>4. n < 128 => Len(e(n)) = 1
    BY <2>1, <2>2
  <2> QED
    BY <2>1, <2>3, <2>4
<1>2. ASSUME NEW n \in Nat, \A k \in Nat : k < n => k \in T PROVE n \in T
  <2> SUFFICES ASSUME NEW m \in Nat, e(n) = e(m) PROVE n = m
    OBVIOUS
  <2>1. n = 128 * (n \div 128) + (n % 128) /\ n % 128 \in 0..127 /\ n \div 128 \in Nat
        /\ m = 128 * (m \div 128) + (m % 128) /\ m % 128 \in 0..127 /\ m \div 128 \in Nat
        /\ (n >= 128 => n \div 128 < n)
    BY Sevens
  <2> DEFINE p == n \div 128
             q == m \div 128
             f == 128 + (n % 128)
             g == 128 + (m % 128)
  <2>2. Len(e(p)) \in Nat /\ Len(e(p)) > 0 /\ Len(e(q)) \in Nat /\ Len(e(q)) > 0
        /\ e(p) \in Seq(Nat) /\ e(q) \in Seq(Nat)
    BY <1>1, <2>1, ZenonT(60)
  <2>3. /\ n < 128 => e(n) = <<n>> /\ Len(e(n)) = 1
        /\ n >= 128 => e(n) = <<f>> \o e(p) /\ Len(e(n)) = Len(e(p)) + 1
        /\ m < 128 => e(m) = <<m>> /\ Len(e(m)) = 1
        /\ m >= 128 => e(m) = <<g>> \o e(q) /\ Len(e(m)) = Len(e(q)) + 1
    BY <1>1
  <2>4. n < 128 <=> m < 128
    <3> DEFINE l == Len(e(n))
    <3>1. l = Len(e(m))
      OBVIOUS
    <3>2. Len(e(p)) \in Nat /\ Len(e(p)) > 0 /\ Len(e(q)) \in Nat /\ Len(e(q)) > 0
      BY <2>2
    <3>3. /\ n < 128 => l = 1
          /\ n >= 128 => l = Len(e(p)) + 1
          /\ m < 128 => l = 1
          /\ m >= 128 => l = Len(e(q)) + 1
      BY <2>3, <3>1
    <3> HIDE DEF e, l, p, q
    <3> QED
      BY <3>2, <3>3
  <2>5. CASE n < 128
    <3>1. <<n>> = <<m>>
      BY <2>3, <2>4, <2>5
    <3> QED
      BY <3>1
  <2>6. CASE n >= 128
    <3>1. m >= 128
      BY <2>4, <2>6
    <3>2. f \in Nat /\ g \in Nat
      BY <2>1
    <3>3. <<f>> \o e(p) = <<g>> \o e(q)
      BY <2>3, <2>6, <3>1
    <3>4. <<f>> = <<g>> /\ e(p) = e(q)
      <4> HIDE DEF f, g, p, q, e
      <4>1. <<f>> \in Seq(Nat) /\ <<g>> \in Seq(Nat) /\ Len(<<f>>) = Len(<<g>>)
        BY <3>2
      <4> QED
        BY <2>2, <3>3, <4>1, SameLengthSplits
    <3>5. p = q
      BY <1>2, <2>1, <2>6, <3>4
    <3>6. f = g
      <4> HIDE DEF f, g
      <4> QED
        BY <3>4
    <3> QED
      BY <2>1, <3>5, <3>6
  <2> QED
    BY <2>5, <2>6
<1> HIDE DEF T
<1>3. Nat \subseteq T
  BY <1>2, LessInduction
<1> QED
  BY <1>3 DEF T

\* A number in front is told apart from what follows.
LEMMA NumberSplits ==
  ASSUME NEW a \in Nat, NEW b \in Nat, NEW s \in Seq(Nat), NEW t \in Seq(Nat),
         Then(encode_varint[a], s) = Then(encode_varint[b], t)
  PROVE  a = b /\ s = t
<1>1. Varint(encode_varint[a]) /\ Varint(encode_varint[b])
  BY EncodeShape
<1>2. encode_varint[a] = encode_varint[b] /\ s = t
  <2> DEFINE x == encode_varint[a]
             y == encode_varint[b]
  <2>1. Varint(x) /\ Varint(y) /\ Then(x, s) = Then(y, t)
    BY <1>1
  <2> HIDE DEF x, y
  <2>2. x = y /\ s = t
    BY <2>1, VarintSplits
  <2> QED
    BY <2>2 DEF x, y
<1> QED
  BY <1>2, EncodingIsInjective

\* What is needed of it: it is associative and has a neutral element, and it can be
\* taken apart behind a number, behind a length, and behind the same bytes.
LEMMA ThenIsBytes == \A x, y \in Seq(Nat) : Then(x, y) \in Seq(Nat)
BY ConcatProperties DEF Then

\* Then is associative.
LEMMA ThenAssociates ==
  \A x, y, z \in Seq(Nat) : Then(Then(x, y), z) = Then(x, Then(y, z))
<1>1. ASSUME NEW x \in Seq(Nat), NEW y \in Seq(Nat), NEW z \in Seq(Nat)
      PROVE  Then(Then(x, y), z) = Then(x, Then(y, z))
  <2>1. (x \o y) \o z = x \o (y \o z)
    BY ONLY ConcatAssociative, SMTT(60)
  <2>2. Then(Then(x, y), z) = (x \o y) \o z
    BY Zenon DEF Then
  <2>3. Then(x, Then(y, z)) = x \o (y \o z)
    BY Zenon DEF Then
  <2> QED
    BY <2>1, <2>2, <2>3, Zenon
<1> QED
  BY <1>1

Nothing == <<>>

\* Nothing is its neutral element.
LEMMA ThenNothing ==
  /\ Nothing \in Seq(Nat)
  /\ \A x \in Seq(Nat) : Then(x, Nothing) = x /\ Then(Nothing, x) = x
BY ConcatEmptySeq DEF Then, Nothing

\* What is in front is taken off: the same bytes, as many bytes, or a number.
LEMMA ThenSplits ==
  /\ \A x, s, t \in Seq(Nat) : Then(x, s) = Then(x, t) => s = t
  /\ \A x, y, s, t \in Seq(Nat) :
       Len(x) = Len(y) /\ Then(x, s) = Then(y, t) => x = y /\ s = t
  /\ \A a, b \in Nat : \A s, t \in Seq(Nat) :
       Then(encode_varint[a], s) = Then(encode_varint[b], t) => a = b /\ s = t
<1>1. ASSUME NEW x \in Seq(Nat), NEW y \in Seq(Nat), NEW s \in Seq(Nat), NEW t \in Seq(Nat),
             Len(x) = Len(y), Then(x, s) = Then(y, t)
      PROVE  x = y /\ s = t
  <2>1. x \o s = y \o t
    BY <1>1, Zenon DEF Then
  <2> QED
    BY <1>1, <2>1, SameLengthSplits, Zenon
<1>2. ASSUME NEW a \in Nat, NEW b \in Nat, NEW s \in Seq(Nat), NEW t \in Seq(Nat),
             Then(encode_varint[a], s) = Then(encode_varint[b], t)
      PROVE  a = b /\ s = t
  BY <1>2, NumberSplits
<1>3. ASSUME NEW x \in Seq(Nat), NEW s \in Seq(Nat), NEW t \in Seq(Nat), Then(x, s) = Then(x, t)
      PROVE  s = t
  BY <1>1, <1>3, Zenon
<1>4. /\ \A x, s, t \in Seq(Nat) : Then(x, s) = Then(x, t) => s = t
      /\ \A x, y, s, t \in Seq(Nat) :
           Len(x) = Len(y) /\ Then(x, s) = Then(y, t) => x = y /\ s = t
  BY <1>1, <1>3, Zenon
<1> QED
  BY <1>2, <1>4

\* A number is bytes.
LEMMA EncodingIsBytes == \A v \in Nat : encode_varint[v] \in Seq(Nat)
BY EncodeShape DEF Varint

\* What the fields are made of.
LEMMA FieldsAre ==
  /\ \A n, a \in Nat :
       /\ value_field(n, a) = Then(encode_varint[8 * n], encode_varint[a])
       /\ value_field(n, a) \in Seq(Nat)
       /\ \A s \in Seq(Nat) :
            /\ Then(value_field(n, a), s)
                 = Then(encode_varint[8 * n], Then(encode_varint[a], s))
            /\ Then(encode_varint[a], s) \in Seq(Nat)
  /\ \A n \in Nat, x \in Seq(Nat) :
       /\ bytes_field(n, x) \in Seq(Nat)
       /\ \A s \in Seq(Nat) :
            /\ Then(bytes_field(n, x), s)
                 = Then(encode_varint[8 * n + 2], Then(encode_varint[Len(x)], Then(x, s)))
            /\ Then(x, s) \in Seq(Nat)
            /\ Then(encode_varint[Len(x)], Then(x, s)) \in Seq(Nat)
<1>1. ASSUME NEW n \in Nat, NEW a \in Nat
      PROVE  /\ value_field(n, a) = Then(encode_varint[8 * n], encode_varint[a])
             /\ value_field(n, a) \in Seq(Nat)
             /\ \A s \in Seq(Nat) :
                  /\ Then(value_field(n, a), s)
                       = Then(encode_varint[8 * n], Then(encode_varint[a], s))
                  /\ Then(encode_varint[a], s) \in Seq(Nat)
  <2> DEFINE x == encode_varint[8 * n]
             u == encode_varint[a]
  <2>1. x \in Seq(Nat) /\ u \in Seq(Nat)
    BY EncodingIsBytes
  <2>2. value_field(n, a) = Then(x, u)
    BY Zenon DEF value_field, Then
  <2> HIDE DEF x, u
  <2>3. Then(x, u) \in Seq(Nat)
    BY <2>1, ThenIsBytes
  <2>4. ASSUME NEW s \in Seq(Nat)
        PROVE  Then(Then(x, u), s) = Then(x, Then(u, s)) /\ Then(u, s) \in Seq(Nat)
    BY <2>1, ThenAssociates, ThenIsBytes
  <2> QED
    BY <2>2, <2>3, <2>4 DEF x, u
<1>2. ASSUME NEW n \in Nat, NEW z \in Seq(Nat)
      PROVE  /\ bytes_field(n, z) \in Seq(Nat)
             /\ \A s \in Seq(Nat) :
                  /\ Then(bytes_field(n, z), s)
                       = Then(encode_varint[8 * n + 2], Then(encode_varint[Len(z)], Then(z, s)))
                  /\ Then(z, s) \in Seq(Nat)
                  /\ Then(encode_varint[Len(z)], Then(z, s)) \in Seq(Nat)
  <2> DEFINE x == encode_varint[8 * n + 2]
             u == encode_varint[Len(z)]
  <2>1. x \in Seq(Nat) /\ u \in Seq(Nat)
    BY EncodingIsBytes, LenProperties
  <2>2. bytes_field(n, z) = Then(Then(x, u), z)
    BY Zenon DEF bytes_field, Then
  <2> HIDE DEF x, u
  <2>3. Then(x, u) \in Seq(Nat) /\ Then(Then(x, u), z) \in Seq(Nat)
    BY <2>1, ThenIsBytes
  <2>4. ASSUME NEW s \in Seq(Nat)
        PROVE  /\ Then(Then(Then(x, u), z), s) = Then(x, Then(u, Then(z, s)))
               /\ Then(z, s) \in Seq(Nat) /\ Then(u, Then(z, s)) \in Seq(Nat)
    <3>1. Then(z, s) \in Seq(Nat) /\ Then(u, Then(z, s)) \in Seq(Nat)
      BY <2>1, ThenIsBytes
    <3>2. Then(Then(Then(x, u), z), s) = Then(Then(x, u), Then(z, s))
      BY <2>3, ThenAssociates
    <3>3. Then(Then(x, u), Then(z, s)) = Then(x, Then(u, Then(z, s)))
      BY <2>1, <3>1, ThenAssociates
    <3> QED
      BY <3>1, <3>2, <3>3
  <2> QED
    BY <2>2, <2>3, <2>4 DEF x, u
<1> QED
  BY <1>1, <1>2

\* A field of a number is told apart from what follows.
LEMMA ValueFieldSplits ==
  ASSUME NEW n \in Nat, NEW m \in Nat, NEW a \in Nat, NEW b \in Nat,
         NEW s \in Seq(Nat), NEW t \in Seq(Nat),
         Then(value_field(n, a), s) = Then(value_field(m, b), t)
  PROVE  n = m /\ a = b /\ s = t
<1> DEFINE i == 8 * n
           j == 8 * m
           us == Then(encode_varint[a], s)
           vt == Then(encode_varint[b], t)
<1>1. /\ i \in Nat /\ j \in Nat /\ us \in Seq(Nat) /\ vt \in Seq(Nat)
      /\ Then(encode_varint[i], us) = Then(encode_varint[j], vt)
  BY FieldsAre
<1>2. i = j /\ us = vt
  <2> HIDE DEF i, j, us, vt
  <2> QED
    BY <1>1, ThenSplits
<1>3. a = b /\ s = t
  BY <1>2, ThenSplits
<1> QED
  BY <1>2, <1>3

\* So is a field of bytes.
LEMMA BytesFieldSplits ==
  ASSUME NEW n \in Nat, NEW x \in Seq(Nat), NEW y \in Seq(Nat),
         NEW s \in Seq(Nat), NEW t \in Seq(Nat),
         Then(bytes_field(n, x), s) = Then(bytes_field(n, y), t)
  PROVE  x = y /\ s = t
<1> DEFINE k == 8 * n + 2
           i == Len(x)
           j == Len(y)
           xs == Then(x, s)
           yt == Then(y, t)
           uxs == Then(encode_varint[i], xs)
           vyt == Then(encode_varint[j], yt)
<1>1. /\ k \in Nat /\ i \in Nat /\ j \in Nat /\ xs \in Seq(Nat) /\ yt \in Seq(Nat)
      /\ uxs \in Seq(Nat) /\ vyt \in Seq(Nat)
  BY FieldsAre, LenProperties
<1>2. Then(encode_varint[k], uxs) = Then(encode_varint[k], vyt)
  BY FieldsAre
<1>3. uxs = vyt
  <2> HIDE DEF k, uxs, vyt
  <2> QED
    BY <1>1, <1>2, ThenSplits
<1>4. i = j /\ xs = yt
  <2> HIDE DEF i, j, xs, yt
  <2> QED
    BY <1>1, <1>3, ThenSplits
<1> QED
  BY <1>4, ThenSplits

\* No field of a number is one of bytes.
LEMMA FieldsDiffer ==
  ASSUME NEW n \in Nat, NEW m \in Nat, NEW a \in Nat, NEW y \in Seq(Nat),
         NEW s \in Seq(Nat), NEW t \in Seq(Nat)
  PROVE  Then(value_field(n, a), s) # Then(bytes_field(m, y), t)
<1> SUFFICES ASSUME Then(value_field(n, a), s) = Then(bytes_field(m, y), t) PROVE FALSE
  OBVIOUS
<1> DEFINE i == 8 * n
           j == 8 * m + 2
           us == Then(encode_varint[a], s)
           vyt == Then(encode_varint[Len(y)], Then(y, t))
<1>1. /\ i \in Nat /\ j \in Nat /\ i # j /\ us \in Seq(Nat) /\ vyt \in Seq(Nat)
      /\ Then(encode_varint[i], us) = Then(encode_varint[j], vyt)
  <2>1. i \in Nat /\ j \in Nat /\ i # j
    OBVIOUS
  <2>2. us \in Seq(Nat) /\ vyt \in Seq(Nat)
    BY FieldsAre
  <2>3. Then(encode_varint[i], us) = Then(encode_varint[j], vyt)
    BY FieldsAre
  <2> QED
    BY <2>1, <2>2, <2>3
<1> HIDE DEF i, j, us, vyt
<1> QED
  BY <1>1, ThenSplits

\* Numbers of minutes in a field, told apart.
LEMMA FieldIsInjective ==
  ASSUME NEW n \in Nat, NEW m \in Nat, NEW a \in Nat, NEW b \in Nat,
         value_field(n, a) = value_field(m, b)
  PROVE  n = m /\ a = b
<1>1. value_field(n, a) \in Seq(Nat) /\ value_field(m, b) \in Seq(Nat) /\ Nothing \in Seq(Nat)
  BY FieldsAre, ThenNothing
<1>2. Then(value_field(n, a), Nothing) = Then(value_field(m, b), Nothing)
  BY <1>1, ThenNothing
<1> QED
  BY <1>1, <1>2, ValueFieldSplits

\* The parts of an intrusion payload.
StartOf(m) == IF m = 0 THEN Nothing ELSE value_field(1, 60 * m)
RangeOf(m, e) == Then(StartOf(m), value_field(2, 60 * e))
NestedOf(days, m, e) ==
  Then(Then(bytes_field(2, days), bytes_field(3, RangeOf(m, e))), value_field(4, 1))
SettingOf(enabled, days, m, e) ==
  Then(IF enabled THEN value_field(2, 1) ELSE Nothing, bytes_field(3, NestedOf(days, m, e)))

\* The parts of a setting are bytes.
LEMMA PartsAreBytes ==
  ASSUME NEW days \in Seq(Nat), NEW m \in Nat, NEW e \in Nat
  PROVE  /\ StartOf(m) \in Seq(Nat) /\ RangeOf(m, e) \in Seq(Nat)
         /\ NestedOf(days, m, e) \in Seq(Nat)
<1>1. 60 * m \in Nat /\ 60 * e \in Nat /\ Nothing \in Seq(Nat)
  BY ThenNothing
<1>2. /\ StartOf(m) \in Seq(Nat) /\ value_field(2, 60 * e) \in Seq(Nat)
      /\ bytes_field(2, days) \in Seq(Nat) /\ value_field(4, 1) \in Seq(Nat)
  BY <1>1, FieldsAre DEF StartOf
<1>3. RangeOf(m, e) \in Seq(Nat)
  BY <1>2, ThenIsBytes DEF RangeOf
<1>4. bytes_field(3, RangeOf(m, e)) \in Seq(Nat)
  BY <1>3, FieldsAre
<1>5. Then(bytes_field(2, days), bytes_field(3, RangeOf(m, e))) \in Seq(Nat)
  BY <1>2, <1>4, ThenIsBytes
<1>6. NestedOf(days, m, e) \in Seq(Nat)
  BY <1>2, <1>5, ThenIsBytes DEF NestedOf
<1> QED
  BY <1>2, <1>3, <1>6

\* Different times are different bytes, with midnight left out.
LEMMA RangeIsInjective ==
  ASSUME NEW m \in Nat, NEW e \in Nat, NEW n \in Nat, NEW f \in Nat,
         RangeOf(m, e) = RangeOf(n, f)
  PROVE  m = n /\ e = f
<1> DEFINE me == 60 * e
           mf == 60 * f
           mm == 60 * m
           mn == 60 * n
           x == value_field(2, me)
           y == value_field(2, mf)
<1>1. me \in Nat /\ mf \in Nat /\ mm \in Nat /\ mn \in Nat
      /\ (me = mf => e = f) /\ (mm = mn => m = n)
  OBVIOUS
<1>2. x \in Seq(Nat) /\ y \in Seq(Nat) /\ Nothing \in Seq(Nat)
      /\ Then(x, Nothing) = x /\ Then(y, Nothing) = y
      /\ Then(Nothing, x) = x /\ Then(Nothing, y) = y
  <2>1. x \in Seq(Nat) /\ y \in Seq(Nat) /\ Nothing \in Seq(Nat)
    BY <1>1, FieldsAre, ThenNothing
  <2> HIDE DEF x, y
  <2> QED
    BY <2>1, ThenNothing
<1>3. Then(StartOf(m), x) = Then(StartOf(n), y)
  BY DEF RangeOf
<1>4. /\ m = 0 => StartOf(m) = Nothing
      /\ m # 0 => StartOf(m) = value_field(1, mm)
      /\ n = 0 => StartOf(n) = Nothing
      /\ n # 0 => StartOf(n) = value_field(1, mn)
  BY DEF StartOf
<1> HIDE DEF mm, mn, me, mf
<1>5. CASE m = 0 /\ n = 0
  <2>1. x = y
    BY <1>2, <1>3, <1>4, <1>5
  <2> QED
    BY <1>1, <1>5, <2>1, FieldIsInjective
<1>6. CASE m # 0 /\ n # 0
  <2>1. Then(value_field(1, mm), x) = Then(value_field(1, mn), y)
    BY <1>3, <1>4, <1>6
  <2>2. mm = mn /\ x = y
    <3> HIDE DEF x, y
    <3> QED
      BY <1>1, <1>2, <2>1, ValueFieldSplits
  <2> QED
    BY <1>1, <2>2, FieldIsInjective
<1>7. CASE m = 0 /\ n # 0
  <2>1. Then(value_field(2, me), Nothing) = Then(value_field(1, mn), y)
    BY <1>2, <1>3, <1>4, <1>7
  <2> HIDE DEF y
  <2> DEFINE two == 2
             one == 1
  <2>2. two \in Nat /\ one \in Nat /\ two # one
    OBVIOUS
  <2>3. Then(value_field(two, me), Nothing) = Then(value_field(one, mn), y)
    BY <2>1
  <2> HIDE DEF two, one
  <2> QED
    BY <1>1, <1>2, <2>2, <2>3, ValueFieldSplits, SMTT(60)
<1>8. CASE m # 0 /\ n = 0
  <2>1. Then(value_field(1, mm), x) = Then(value_field(2, mf), Nothing)
    BY <1>2, <1>3, <1>4, <1>8
  <2> HIDE DEF x
  <2> DEFINE two == 2
             one == 1
  <2>2. two \in Nat /\ one \in Nat /\ two # one
    OBVIOUS
  <2>3. Then(value_field(one, mm), x) = Then(value_field(two, mf), Nothing)
    BY <2>1
  <2> HIDE DEF two, one, y
  <2> QED
    BY <1>1, <1>2, <2>2, <2>3, ValueFieldSplits, SMTT(60)
<1> QED
  BY <1>5, <1>6, <1>7, <1>8

\* Different days and times are different bytes.
LEMMA NestedIsInjective ==
  ASSUME NEW days \in Seq(Nat), NEW m \in Nat, NEW e \in Nat,
         NEW others \in Seq(Nat), NEW n \in Nat, NEW f \in Nat,
         NestedOf(days, m, e) = NestedOf(others, n, f)
  PROVE  days = others /\ m = n /\ e = f
<1> DEFINE r == RangeOf(m, e)
           q == RangeOf(n, f)
           last == value_field(4, 1)
           br == bytes_field(3, r)
           bq == bytes_field(3, q)
           rest == Then(br, last)
           more == Then(bq, last)
<1>1. r \in Seq(Nat) /\ q \in Seq(Nat) /\ last \in Seq(Nat)
  BY PartsAreBytes, FieldsAre
<1>2. br \in Seq(Nat) /\ bq \in Seq(Nat) /\ bytes_field(2, days) \in Seq(Nat)
      /\ bytes_field(2, others) \in Seq(Nat)
  <2> HIDE DEF r, q
  <2> QED
    BY <1>1, FieldsAre
<1>3. Then(Then(bytes_field(2, days), br), last) = Then(Then(bytes_field(2, others), bq), last)
  BY DEF NestedOf
<1> HIDE DEF r, q, last, br, bq
<1>4. rest \in Seq(Nat) /\ more \in Seq(Nat)
      /\ Then(bytes_field(2, days), rest) = Then(bytes_field(2, others), more)
  <2>1. Then(Then(bytes_field(2, days), br), last) = Then(bytes_field(2, days), rest)
    BY <1>1, <1>2, ThenAssociates
  <2>2. Then(Then(bytes_field(2, others), bq), last) = Then(bytes_field(2, others), more)
    BY <1>1, <1>2, ThenAssociates
  <2>3. rest \in Seq(Nat) /\ more \in Seq(Nat)
    BY <1>1, <1>2, ThenIsBytes
  <2> QED
    BY <1>3, <2>1, <2>2, <2>3
<1>5. days = others /\ rest = more
  <2> HIDE DEF rest, more
  <2> QED
    BY <1>4, BytesFieldSplits
<1>6. r = q
  <2>1. Then(bytes_field(3, r), last) = Then(bytes_field(3, q), last)
    BY <1>5 DEF br, bq
  <2> QED
    BY <1>1, <2>1, BytesFieldSplits
<1> QED
  BY <1>5, <1>6, RangeIsInjective DEF r, q

\* Different settings are different bytes, with a disabled one left out.
LEMMA SettingIsInjective ==
  ASSUME NEW enabled \in BOOLEAN, NEW days \in Seq(Nat), NEW m \in Nat, NEW e \in Nat,
         NEW other \in BOOLEAN, NEW others \in Seq(Nat), NEW n \in Nat, NEW f \in Nat,
         SettingOf(enabled, days, m, e) = SettingOf(other, others, n, f)
  PROVE  enabled = other /\ days = others /\ m = n /\ e = f
<1> DEFINE x == NestedOf(days, m, e)
           y == NestedOf(others, n, f)
           bx == bytes_field(3, x)
           by == bytes_field(3, y)
           on == value_field(2, 1)
<1>1. x \in Seq(Nat) /\ y \in Seq(Nat) /\ on \in Seq(Nat) /\ Nothing \in Seq(Nat)
  <2>1. x \in Seq(Nat) /\ y \in Seq(Nat)
    BY PartsAreBytes
  <2>2. on \in Seq(Nat) /\ Nothing \in Seq(Nat)
    BY FieldsAre, ThenNothing
  <2> QED
    BY <2>1, <2>2
<1>2. /\ enabled => SettingOf(enabled, days, m, e) = Then(on, bx)
      /\ ~enabled => SettingOf(enabled, days, m, e) = Then(Nothing, bx)
      /\ other => SettingOf(other, others, n, f) = Then(on, by)
      /\ ~other => SettingOf(other, others, n, f) = Then(Nothing, by)
  BY DEF SettingOf
<1> HIDE DEF x, y
<1>3. bx \in Seq(Nat) /\ by \in Seq(Nat)
  BY <1>1, FieldsAre
<1>4. /\ Then(Nothing, bx) = bx /\ Then(bx, Nothing) = bx
      /\ Then(Nothing, by) = by /\ Then(by, Nothing) = by
  BY <1>3, ThenNothing
<1>5. enabled = other
  <2>1. Then(on, bx) # Then(by, Nothing)
    <3> HIDE DEF bx
    <3> QED
      BY <1>1, <1>3, FieldsDiffer
  <2>2. Then(on, by) # Then(bx, Nothing)
    <3> HIDE DEF by
    <3> QED
      BY <1>1, <1>3, FieldsDiffer
  <2> HIDE DEF on, bx, by
  <2>3. enabled => other
    BY <1>2, <1>4, <2>1
  <2>4. other => enabled
    BY <1>2, <1>4, <2>2
  <2> QED
    BY <2>3, <2>4
<1>6. bx = by
  <2> HIDE DEF on, bx, by
  <2>1. CASE enabled
    <3>1. Then(on, bx) = Then(on, by)
      BY <1>2, <1>5, <2>1
    <3> QED
      BY <1>1, <1>3, <3>1, ThenSplits
  <2>2. CASE ~enabled
    BY <1>2, <1>4, <1>5, <2>2
  <2> QED
    BY <2>1, <2>2
<1>7. x = y
  <2> DEFINE three == 3
  <2>1. three \in Nat
    OBVIOUS
  <2>2. Then(bytes_field(three, x), Nothing) = Then(bytes_field(three, y), Nothing)
    BY <1>6
  <2> HIDE DEF three
  <2> QED
    BY <1>1, <2>1, <2>2, BytesFieldSplits
<1> QED
  BY <1>5, <1>7, NestedIsInjective DEF x, y

\* build_intrusion_payload is made of these parts.
LEMMA PayloadHasParts ==
  ASSUME NEW enabled, NEW schedule
  PROVE  build_intrusion_payload(enabled, schedule)
           = SettingOf(enabled, schedule.days, schedule.start.minute, schedule.end.minute)
BY Zenon DEF build_intrusion_payload, SettingOf, NestedOf, RangeOf, StartOf, Then, Nothing

\* Different schedules, on or off, are different bytes.
LEMMA SchedulesAreDistinct ==
  ASSUME NEW enabled \in BOOLEAN, NEW other \in BOOLEAN,
         NEW schedule \in Schedules, schedule_from_value(schedule),
         NEW second \in Schedules, schedule_from_value(second),
         build_intrusion_payload(enabled, schedule) = build_intrusion_payload(other, second)
  PROVE  enabled = other /\ schedule = second
<1>1. ASSUME NEW s \in Schedules, schedule_from_value(s)
      PROVE  /\ s.days \in Seq(Nat) /\ s.start.minute \in Nat /\ s.end.minute \in Nat
             /\ s = [days |-> s.days, start |-> [minute |-> s.start.minute, form |-> "HH:MM"],
                     end |-> [minute |-> s.end.minute, form |-> "HH:MM"]]
  <2>1. PICK days \in DayLists, start \in Texts, end \in Texts :
          s = [days |-> days, start |-> start, end |-> end]
    BY DEF Schedules
  <2>2. s.days = days /\ s.start = start /\ s.end = end
    BY <2>1
  <2>3. start.form = "HH:MM" /\ end.form = "HH:MM"
    BY <1>1, <2>2 DEF schedule_from_value
  <2>4. /\ start.minute \in Minutes /\ end.minute \in Minutes
        /\ start = [minute |-> start.minute, form |-> start.form]
        /\ end = [minute |-> end.minute, form |-> end.form]
    <3> HIDE DEF Texts
    <3>1. \A t \in Texts : t.minute \in Minutes /\ t = [minute |-> t.minute, form |-> t.form]
      BY DEF Texts
    <3> QED
      BY <3>1
  <2>5. /\ days \in Seq(Nat) /\ start.minute \in Nat /\ end.minute \in Nat
    <3>1. \A k \in Minutes : k \in Nat
      BY SchedulesAssumption
    <3>2. days \in Seq(Nat)
      <4>1. days \in Seq(Int)
        BY SchedulesAssumption
      <4>2. \A i \in 1..Len(days) : days[i] \in Nat
        <5>1. \A i \in 1..Len(days) : days[i] \in 0..6
          BY <1>1, <2>2 DEF schedule_from_value, IntrusionSchedule, SortedDays
        <5> QED
          BY <5>1
      <4> QED
        BY <4>1, <4>2
    <3> QED
      BY <2>4, <3>1, <3>2
  <2>6. /\ start = [minute |-> start.minute, form |-> "HH:MM"]
        /\ end = [minute |-> end.minute, form |-> "HH:MM"]
    BY <2>3, <2>4
  <2> QED
    BY <2>1, <2>2, <2>5, <2>6
<1> DEFINE days == schedule.days
           m == schedule.start.minute
           e == schedule.end.minute
           others == second.days
           n == second.start.minute
           f == second.end.minute
<1>2. /\ days \in Seq(Nat) /\ m \in Nat /\ e \in Nat
      /\ others \in Seq(Nat) /\ n \in Nat /\ f \in Nat
      /\ schedule = [days |-> days, start |-> [minute |-> m, form |-> "HH:MM"],
                     end |-> [minute |-> e, form |-> "HH:MM"]]
      /\ second = [days |-> others, start |-> [minute |-> n, form |-> "HH:MM"],
                   end |-> [minute |-> f, form |-> "HH:MM"]]
  BY <1>1
<1>3. SettingOf(enabled, days, m, e) = SettingOf(other, others, n, f)
  BY PayloadHasParts
<1> HIDE DEF days, m, e, others, n, f
<1>4. enabled = other /\ days = others /\ m = n /\ e = f
  BY <1>2, <1>3, SettingIsInjective
<1> QED
  BY <1>2, <1>4

\* The values of an enumeration, told apart with a zero left out.
LEMMA NamesAreDistinct ==
  ASSUME NEW values, NEW name, NEW other, values[name] \in Nat, values[other] \in Nat,
         values[name] # values[other]
  PROVE  enum_payload(values, name) # enum_payload(values, other)
<1> DEFINE a == values[name]
           b == values[other]
<1>1. a \in Nat /\ b \in Nat /\ a # b
  OBVIOUS
<1>2. /\ enum_payload(values, name) = IF a = 0 THEN Nothing ELSE value_field(2, a)
      /\ enum_payload(values, other) = IF b = 0 THEN Nothing ELSE value_field(2, b)
  BY Zenon DEF enum_payload, Nothing
<1> HIDE DEF a, b
<1>3. value_field(2, a) # value_field(2, b)
  BY <1>1, FieldIsInjective
<1>4. ASSUME NEW c \in Nat PROVE value_field(2, c) # Nothing
  <2>1. value_field(2, c) = encode_varint[8 * 2] \o encode_varint[c]
    BY Zenon DEF value_field
  <2>2. ASSUME NEW x \in Seq(Nat), NEW y \in Seq(Nat), Len(x) > 0 PROVE x \o y # <<>>
    <3>1. x # <<>>
      BY <2>2
    <3>2. \A S : \A s, t \in Seq(S) : s \o t = <<>> => s = <<>>
      BY ConcatSimplifications, Zenon
    <3> QED
      BY <3>1, <3>2, Zenon
  <2>3. /\ encode_varint[8 * 2] \in Seq(Nat) /\ Len(encode_varint[8 * 2]) > 0
        /\ encode_varint[c] \in Seq(Nat)
    <3>1. \A k \in Nat : encode_varint[k] \in Seq(Nat) /\ Len(encode_varint[k]) > 0
      BY EncodeShape DEF Varint
    <3>2. 8 * 2 \in Nat
      OBVIOUS
    <3> QED
      BY <3>1, <3>2
  <2>4. encode_varint[8 * 2] \o encode_varint[c] # <<>>
    <3> DEFINE x == encode_varint[8 * 2]
               y == encode_varint[c]
    <3> HIDE DEF x, y
    <3>1. x \o y # <<>>
      BY <2>2, <2>3 DEF x, y
    <3> QED
      BY <3>1 DEF x, y
  <2> QED
    BY <2>1, <2>4, Zenon DEF Nothing
<1> QED
  BY <1>1, <1>2, <1>3, <1>4

\* The four enumerations: their names, and no value twice.
Injective(values, names) ==
  /\ DOMAIN values = names
  /\ \A name, other \in names :
       values[name] \in Nat /\ (name # other => values[name] # values[other])

\* Each enumeration has the values of its options, all different.
LEMMA EnumerationsAre ==
  ASSUME NEW i \in 1..Len(EnumValues)
  PROVE  Injective(EnumValues[i], Options[i])
<1>1. Len(EnumValues) = 4
  BY DEF EnumValues
<1>2. i = 1 \/ i = 2 \/ i = 3 \/ i = 4
  BY <1>1
<1>3. /\ EnumValues[1] = NIGHT_VALUES /\ EnumValues[2] = FLIP_VALUES
      /\ EnumValues[3] = VIDEO_QUALITY_VALUES /\ EnumValues[4] = MOTION_VALUES
  BY DEF EnumValues
<1>4. /\ Options[1] = {"automatic", "enabled", "disabled"}
      /\ Options[2] = {"upright", "horizontal", "vertical", "rotate_180"}
      /\ Options[3] = {"sd", "hd", "uhd"}
      /\ Options[4] = {"high", "medium", "low", "closed"}
  BY DEF Options
<1>5. Injective(NIGHT_VALUES, {"automatic", "enabled", "disabled"})
  BY DEF Injective, NIGHT_VALUES
<1>6. Injective(FLIP_VALUES, {"upright", "horizontal", "vertical", "rotate_180"})
  BY DEF Injective, FLIP_VALUES
<1>7. Injective(VIDEO_QUALITY_VALUES, {"sd", "hd", "uhd"})
  BY DEF Injective, VIDEO_QUALITY_VALUES
<1>8. Injective(MOTION_VALUES, {"high", "medium", "low", "closed"})
  BY DEF Injective, MOTION_VALUES
<1> QED
  BY <1>2, <1>3, <1>4, <1>5, <1>6, <1>7, <1>8

\* Whatever days and minutes there are, two settings the control API accepts are never
\* sent as the same bytes, although midnight, a disabled schedule and the value zero are
\* left out.
THEOREM SettingsAreToldApart == Spec => []SettingsAreDistinct
<1>1. build_led_payload(TRUE) # build_led_payload(FALSE)
  <2>1. build_led_payload(TRUE) = value_field(2, 1) /\ build_led_payload(FALSE) = value_field(2, 2)
    BY DEF build_led_payload
  <2> DEFINE one == 1
             two == 2
  <2>2. one \in Nat /\ two \in Nat /\ one # two
    OBVIOUS
  <2> HIDE DEF one
  <2>3. value_field(2, one) # value_field(2, two)
    BY <2>2, FieldIsInjective
  <2> QED
    BY <2>1, <2>3 DEF one
<1>2. ASSUME NEW i \in 1..Len(EnumValues)
      PROVE  /\ Options[i] = DOMAIN EnumValues[i]
             /\ \A name, other \in Options[i] :
                  name # other =>
                    enum_payload(EnumValues[i], name) # enum_payload(EnumValues[i], other)
  <2>1. Injective(EnumValues[i], Options[i])
    BY EnumerationsAre
  <2> QED
    BY <2>1, NamesAreDistinct DEF Injective
<1>3. EverySettingIsDistinct
  BY <1>1, <1>2, SchedulesAreDistinct DEF EverySettingIsDistinct
<1>4. SettingsAreDistinct
  BY <1>3 DEF SettingsAreDistinct
<1> QED
  BY <1>4, PTL

-----------------------------------------------------------------------------
(* The fields of a payload.                                                *)

\* A loop over the offsets of a sequence that goes forward, or stops, is a function.
Forward(L, stop, next) == \A o \in 0..L : o \notin stop => next[o] \in (o + 1)..L

Loop(f, L, stop, out, next) == f = [o \in 0..L |-> IF o \in stop THEN out[o] ELSE f[next[o]]]

\* Such a loop exists.
LEMMA LoopExists ==
  ASSUME NEW L \in Nat, NEW stop, NEW out, NEW next, Forward(L, stop, next)
  PROVE  \E f : Loop(f, L, stop, out, next)
<1> DEFINE Right(f, o) == f[o] = IF o \in stop THEN out[o] ELSE f[next[o]]
           T == {k \in Nat : \E f : \A o \in 0..L : o + k >= L => Right(f, o)}
<1>1. 0 \in T
  <2> DEFINE f == [o \in 0..L |-> out[o]]
  <2>1. ASSUME NEW o \in 0..L, o + 0 >= L PROVE Right(f, o)
    <3>1. o \in stop
      BY <2>1 DEF Forward
    <3> QED
      BY <3>1
  <2> QED
    BY <2>1
<1>2. ASSUME NEW k \in Nat, k \in T PROVE k + 1 \in T
  <2>1. PICK f : \A o \in 0..L : o + k >= L => Right(f, o)
    BY <1>2
  <2> DEFINE g == [o \in 0..L |-> IF o + k >= L THEN f[o]
                                  ELSE IF o \in stop THEN out[o] ELSE f[next[o]]]
  <2>2. ASSUME NEW o \in 0..L, o + (k + 1) >= L PROVE Right(g, o)
    <3>1. CASE o \in stop
      <4>1. g[o] = out[o]
        BY <2>1, <3>1
      <4> QED
        BY <3>1, <4>1
    <3>2. CASE o \notin stop
      <4>1. next[o] \in 0..L /\ next[o] + k >= L
        BY <2>2, <3>2 DEF Forward
      <4>2. g[next[o]] = f[next[o]]
        BY <4>1
      <4>3. g[o] = f[next[o]]
        BY <2>1, <3>2
      <4> QED
        BY <3>2, <4>2, <4>3
    <3> QED
      BY <3>1, <3>2
  <2> HIDE DEF g, Right
  <2> QED
    BY <2>2
<1>3. L \in T
  <2> HIDE DEF T
  <2> QED
    BY <1>1, <1>2, NumberInduction
<1>4. PICK f : \A o \in 0..L : Right(f, o)
  <2>1. \A o \in 0..L : o + L >= L
    OBVIOUS
  <2> HIDE DEF Right
  <2> QED
    BY <1>3, <2>1
<1> DEFINE F == [o \in 0..L |-> f[o]]
<1>5. \A o \in 0..L : F[o] = IF o \in stop THEN out[o] ELSE F[next[o]]
  BY <1>4 DEF Forward
<1>6. F = [o \in 0..L |-> IF o \in stop THEN out[o] ELSE F[next[o]]]
  <2> DEFINE G == [o \in 0..L |-> IF o \in stop THEN out[o] ELSE F[next[o]]]
  <2>1. \A o \in 0..L : F[o] = G[o]
    BY <1>5
  <2>2. F = [o \in 0..L |-> F[o]] /\ G = [o \in 0..L |-> G[o]]
    OBVIOUS
  <2> HIDE DEF F, G
  <2>3. F = G
    BY <2>1, <2>2
  <2> QED
    BY <2>3 DEF G
<1> HIDE DEF F
<1> QED
  BY <1>6 DEF Loop

\* A field that is read ends behind its beginning and within the payload.
LEMMA FieldEnds ==
  ASSUME NEW d, NEW o \in Nat, Len(d) \in Nat, NEW types, field_at(d, o, types).error = "none"
  PROVE  field_at(d, o, types).end \in (o + 1)..Len(d)
<1> DEFINE tag   == decode_varint(d, o, MaxVarintBytes)
           type  == tag.value % 8
           value == decode_varint(d, tag.offset, MaxVarintBytes)
           end   == Skipped(d, type, tag.offset, value)
           read  == [error |-> "none", number |-> tag.value \div 8, type |-> type,
                     varint |-> value, end |-> end]
<1>1. field_at(d, o, types) =
        IF tag.error # "none" THEN tag
        ELSE IF type \notin types THEN Raised("wire type")
        ELSE IF type \in {0, 2} /\ value.error # "none" THEN value
        ELSE IF end \notin tag.offset..Len(d) THEN Raised("truncated")
        ELSE read
  BY Zenon DEF field_at
<1>2. tag.error = "none" => tag.offset \in Nat /\ tag.offset > o
  <2>1. CASE \E n \in 1..10 : IsVarint(d, o, n)
    <3> DEFINE n == CHOOSE n \in 1..10 : IsVarint(d, o, n)
    <3>1. n \in 1..10
      BY <2>1
    <3>2. tag.offset = o + n
      BY <2>1 DEF decode_varint, MaxVarintBytes
    <3> HIDE DEF n, tag
    <3> QED
      BY <3>1, <3>2
  <2>2. CASE ~(\E n \in 1..10 : IsVarint(d, o, n))
    <3>1. tag = Raised(IF o + MaxVarintBytes <= Len(d) THEN "oversized" ELSE "truncated")
      BY <2>2 DEF decode_varint, MaxVarintBytes
    <3> QED
      BY <3>1 DEF Raised
  <2> QED
    BY <2>1, <2>2
<1>3. read.end = end /\ Raised("wire type").error # "none" /\ Raised("truncated").error # "none"
  BY DEF Raised
<1> DEFINE field == field_at(d, o, types)
<1>4. field.error = "none"
  OBVIOUS
<1> HIDE DEF tag, type, value, end, read, field
<1>5. tag.error = "none" /\ end \in tag.offset..Len(d) /\ field = read
  BY <1>1, <1>3, <1>4 DEF field
<1>6. end \in (o + 1)..Len(d)
  BY <1>2, <1>5
<1> QED
  BY <1>3, <1>5, <1>6 DEF field


\* A loop over the fields of a payload, which stops at its end, at an error, and where
\* it found what it is for.
FieldLoop(f, d, types, found, out) ==
  f = [o \in 0..Len(d) |->
         IF o = Len(d) \/ field_at(d, o, types).error # "none" \/ o \in found
         THEN out[o] ELSE f[field_at(d, o, types).end]]

\* Fields lie behind each other, so that the loop is a function.
LEMMA FieldLoopExists ==
  ASSUME NEW d, Len(d) \in Nat, NEW types, NEW found, NEW out
  PROVE  \E f : FieldLoop(f, d, types, found, out)
<1> DEFINE L == Len(d)
           at(o) == field_at(d, o, types)
           stop == {o \in 0..L : o = L \/ at(o).error # "none" \/ o \in found}
           next == [o \in 0..L |-> at(o).end]
<1>1. ASSUME NEW o \in 0..L, o \notin stop PROVE next[o] \in (o + 1)..L
  <2>1. at(o).error = "none" /\ o \in Nat
    BY <1>1
  <2>2. at(o).end \in (o + 1)..L
    BY <2>1, FieldEnds
  <2> QED
    BY <2>2
<1>2. PICK f : Loop(f, L, stop, out, next)
  <2> HIDE DEF stop, next
  <2>1. Forward(L, stop, next)
    BY <1>1 DEF Forward
  <2> QED
    BY <2>1, LoopExists
<1>3. ASSUME NEW o \in 0..L
      PROVE  (IF o \in stop THEN out[o] ELSE f[next[o]])
               = IF o = L \/ at(o).error # "none" \/ o \in found THEN out[o] ELSE f[at(o).end]
  <2> HIDE DEF at
  <2> QED
    OBVIOUS
<1>4. f = [o \in 0..L |-> IF o \in stop THEN out[o] ELSE f[next[o]]]
  BY <1>2 DEF Loop
<1>5. f = [o \in 0..L |-> IF o = L \/ at(o).error # "none" \/ o \in found
                          THEN out[o] ELSE f[at(o).end]]
  <2> HIDE DEF stop, next, at
  <2> QED
    BY <1>3, <1>4
<1> QED
  BY <1>5 DEF FieldLoop

\* What first_field finds at an offset, given what it finds further on.
FoundAt(d, number, wire_type, o, f) ==
  LET field == field_at(d, o, {wire_type})
  IN IF o = Len(d) THEN Raised("missing")
     ELSE IF field.error # "none" THEN field
     ELSE IF field.number # number THEN f[field.end]
     ELSE [error |-> "none",
           value |-> IF wire_type = 0 THEN field.varint.value
                     ELSE SubSeq(d, field.varint.offset + 1, field.end)]

\* first_field is what its recursion says.
LEMMA FindIs ==
  ASSUME NEW d, Len(d) \in Nat, NEW number, NEW wire_type
  PROVE  \E f : /\ first_field(d, number, wire_type) = f[0]
                /\ \A o \in 0..Len(d) : f[o] = FoundAt(d, number, wire_type, o, f)
<1> DEFINE L == Len(d)
           Good(f) == f = [o \in 0..L |-> FoundAt(d, number, wire_type, o, f)]
           F == CHOOSE f : Good(f)
           at(o) == field_at(d, o, {wire_type})
           found == {o \in 0..L : at(o).number = number}
           out == [o \in 0..L |->
                     IF o = L THEN Raised("missing")
                     ELSE IF at(o).error # "none" THEN at(o)
                     ELSE [error |-> "none",
                           value |-> IF wire_type = 0 THEN at(o).varint.value
                                     ELSE SubSeq(d, at(o).varint.offset + 1, at(o).end)]]
<1>1. PICK f : FieldLoop(f, d, {wire_type}, found, out)
  <2> HIDE DEF found, out
  <2> QED
    BY FieldLoopExists
<1>2. ASSUME NEW o \in 0..L
      PROVE  FoundAt(d, number, wire_type, o, f)
               = IF o = L \/ at(o).error # "none" \/ o \in found THEN out[o] ELSE f[at(o).end]
  <2> HIDE DEF at
  <2>1. CASE o = L
    BY <2>1 DEF FoundAt
  <2>2. CASE o # L
    BY <2>2 DEF FoundAt, at
  <2> QED
    BY <2>1, <2>2
<1>3. Good(f)
  <2>1. f = [o \in 0..L |-> IF o = L \/ at(o).error # "none" \/ o \in found
                            THEN out[o] ELSE f[at(o).end]]
    BY <1>1 DEF FieldLoop
  <2> HIDE DEF found, out, at
  <2> QED
    BY <1>2, <2>1
<1>4. Good(F)
  <2> HIDE DEF Good
  <2> QED
    BY <1>3
<1>5. first_field(d, number, wire_type) = F[0]
  BY Zenon DEF first_field, FoundAt
<1>6. \A o \in 0..L : F[o] = FoundAt(d, number, wire_type, o, F)
  <2> HIDE DEF F
  <2> QED
    BY <1>4
<1> HIDE DEF F
<1> QED
  BY <1>5, <1>6

\* What read_response_value reads at an offset, given what it reads further on.
ReadAt(d, o, f) ==
  LET field == field_at(d, o, {0, 1, 2, 5})
  IN IF o = Len(d) THEN [error |-> "none", value |-> -1]
     ELSE IF field.error # "none" THEN field
     ELSE IF field.type # 0 \/ field.number # 1 THEN f[field.end]
     ELSE [error |-> "none", value |-> field.varint.value]

\* read_response_value is what its recursion says.
LEMMA ReadIs ==
  ASSUME NEW d, Len(d) \in Nat
  PROVE  \E f : /\ read_response_value(d) = f[0]
                /\ \A o \in 0..Len(d) : f[o] = ReadAt(d, o, f)
<1> DEFINE L == Len(d)
           types == {0, 1, 2, 5}
           Good(f) == f = [o \in 0..L |-> ReadAt(d, o, f)]
           F == CHOOSE f : Good(f)
           at(o) == field_at(d, o, types)
           found == {o \in 0..L : at(o).type = 0 /\ at(o).number = 1}
           out == [o \in 0..L |->
                     IF o = L THEN [error |-> "none", value |-> -1]
                     ELSE IF at(o).error # "none" THEN at(o)
                     ELSE [error |-> "none", value |-> at(o).varint.value]]
<1>1. PICK f : FieldLoop(f, d, types, found, out)
  <2> HIDE DEF found, out, types
  <2> QED
    BY FieldLoopExists
<1>2. ASSUME NEW o \in 0..L
      PROVE  ReadAt(d, o, f)
               = IF o = L \/ at(o).error # "none" \/ o \in found THEN out[o] ELSE f[at(o).end]
  <2> HIDE DEF at
  <2>1. CASE o = L
    BY <2>1 DEF ReadAt
  <2>2. CASE o # L
    BY <2>2 DEF ReadAt, at
  <2> QED
    BY <2>1, <2>2
<1>3. Good(f)
  <2>1. f = [o \in 0..L |-> IF o = L \/ at(o).error # "none" \/ o \in found
                            THEN out[o] ELSE f[at(o).end]]
    BY <1>1 DEF FieldLoop
  <2> HIDE DEF found, out, at
  <2> QED
    BY <1>2, <2>1
<1>4. Good(F)
  <2> HIDE DEF Good
  <2> QED
    BY <1>3
<1>5. read_response_value(d) = F[0]
  BY Zenon DEF read_response_value, ReadAt
<1>6. \A o \in 0..L : F[o] = ReadAt(d, o, F)
  <2> HIDE DEF F
  <2> QED
    BY <1>4
<1> HIDE DEF F
<1> QED
  BY <1>5, <1>6

\* A varint that is read.
Decoded(end, v) == [error |-> "none", offset |-> end, value |-> v]

\* A number that fits is read back.
Fits(v) == v \in Nat /\ Len(encode_varint[v]) < MaxVarintBytes

\* It is read as it was written.
LEMMA VarintRead ==
  ASSUME NEW d \in Seq(Nat), NEW o \in Nat, NEW v, Fits(v), At(d, o, encode_varint[v])
  PROVE  decode_varint(d, o, MaxVarintBytes) = Decoded(o + Len(encode_varint[v]), v)
<1>1. v \in Nat /\ Len(encode_varint[v]) <= 9 /\ Len(encode_varint[v]) <= 10
  <2>1. Len(encode_varint[v]) \in Nat
    BY EncodingIsBytes, LenProperties DEF Fits
  <2> QED
    BY <2>1 DEF Fits, MaxVarintBytes
<1>2. 10 \in 1..10 /\ Nat \subseteq Nat
  OBVIOUS
<1>3. decode_varint(d, o, 10) = Decoded(o + Len(encode_varint[v]), v)
  BY <1>1, <1>2, DecodeNumber DEF Decoded
<1> QED
  BY <1>3 DEF MaxVarintBytes

\* The byte in front of a field is its number and its type.
LEMMA TagRead ==
  ASSUME NEW d \in Seq(Nat), NEW o \in Nat, NEW t \in 0..127, At(d, o, <<t>>)
  PROVE  decode_varint(d, o, MaxVarintBytes) = Decoded(o + 1, t)
<1>1. encode_varint[t] = <<t>> /\ Len(<<t>>) = 1 /\ t \in Nat
  <2>1. t \in Nat /\ t < 128
    OBVIOUS
  <2>2. encode_varint[t] = <<t>>
    BY <2>1, EncodeShape, Zenon
  <2>3. Len(<<t>>) = 1
    OBVIOUS
  <2> QED
    BY <2>1, <2>2, <2>3
<1>2. Fits(t)
  BY <1>1 DEF Fits, MaxVarintBytes
<1>3. At(d, o, encode_varint[t])
  BY <1>1
<1> QED
  BY <1>1, <1>2, <1>3, VarintRead

\* A field that is read.
Field(n, t, value, end) ==
  [error |-> "none", number |-> n, type |-> t, varint |-> value, end |-> end]

\* What field_at returns behind a tag of one byte.
FieldOutcome(d, o, types, n, t, value, end) ==
  /\ t \in {0, 2} /\ value.error # "none" => field_at(d, o, types) = value
  /\ (t \in {0, 2} => value.error = "none") /\ end \in (o + 1)..Len(d) =>
       field_at(d, o, types) = Field(n, t, value, end)

\* Behind a tag of one byte this is what is returned.
LEMMA FieldIs ==
  ASSUME NEW d, NEW o \in Nat, NEW types, NEW n \in 0..15, NEW t \in types, t \in 0..7,
         NEW value, value = decode_varint(d, o + 1, MaxVarintBytes),
         NEW end, end = Skipped(d, t, o + 1, value),
         decode_varint(d, o, MaxVarintBytes) = Decoded(o + 1, 8 * n + t)
  PROVE  FieldOutcome(d, o, types, n, t, value, end)
<1> DEFINE tag == Decoded(o + 1, 8 * n + t)
<1>1. /\ tag.error = "none" /\ tag.offset = o + 1 /\ tag.value = 8 * n + t
      /\ tag.value % 8 = t /\ tag.value \div 8 = n
  <2>1. tag.error = "none" /\ tag.offset = o + 1 /\ tag.value = 8 * n + t
    BY DEF Decoded
  <2>2. (8 * n + t) % 8 = t /\ (8 * n + t) \div 8 = n
    OBVIOUS
  <2> QED
    BY <2>1, <2>2
<1> HIDE DEF tag
<1>2. field_at(d, o, types) =
        IF tag.error # "none" THEN tag
        ELSE IF tag.value % 8 \notin types THEN Raised("wire type")
        ELSE IF tag.value % 8 \in {0, 2}
                /\ decode_varint(d, tag.offset, MaxVarintBytes).error # "none"
        THEN decode_varint(d, tag.offset, MaxVarintBytes)
        ELSE IF Skipped(d, tag.value % 8, tag.offset,
                        decode_varint(d, tag.offset, MaxVarintBytes)) \notin tag.offset..Len(d)
        THEN Raised("truncated")
        ELSE Field(tag.value \div 8, tag.value % 8,
                   decode_varint(d, tag.offset, MaxVarintBytes),
                   Skipped(d, tag.value % 8, tag.offset,
                           decode_varint(d, tag.offset, MaxVarintBytes)))
  <2>1. decode_varint(d, o, MaxVarintBytes) = tag
    BY DEF tag
  <2> QED
    BY <2>1 DEF field_at, Field
<1>3. field_at(d, o, types) =
        IF t \in {0, 2} /\ value.error # "none" THEN value
        ELSE IF end \notin (o + 1)..Len(d) THEN Raised("truncated")
        ELSE Field(n, t, value, end)
  BY <1>1, <1>2
<1> QED
  BY <1>3 DEF FieldOutcome

\* A field that is there: its tag, the varint behind it, and its end.
FieldThere(d, o, types, n, t, value, end) ==
  /\ o \in Nat /\ n \in 0..15 /\ t \in types /\ t \in 0..7
  /\ decode_varint(d, o, MaxVarintBytes) = Decoded(o + 1, 8 * n + t)
  /\ value = decode_varint(d, o + 1, MaxVarintBytes)
  /\ t \in {0, 2} => value.error = "none"
  /\ end = Skipped(d, t, o + 1, value) /\ end \in (o + 1)..Len(d)

\* What is there is read.
LEMMA FieldRead ==
  ASSUME NEW d, NEW o, NEW types, NEW n, NEW t, NEW value, NEW end,
         FieldThere(d, o, types, n, t, value, end)
  PROVE  field_at(d, o, types) = Field(n, t, value, end)
<1>1. FieldOutcome(d, o, types, n, t, value, end)
  <2>1. o \in Nat /\ n \in 0..15 /\ t \in types /\ t \in 0..7
    BY DEF FieldThere
  <2>2. /\ decode_varint(d, o, MaxVarintBytes) = Decoded(o + 1, 8 * n + t)
        /\ value = decode_varint(d, o + 1, MaxVarintBytes)
        /\ end = Skipped(d, t, o + 1, value)
    BY DEF FieldThere
  <2> QED
    BY <2>1, <2>2, FieldIs
<1> QED
  BY <1>1 DEF FieldThere, FieldOutcome

\* What stands at a place stands there with its parts, one behind the other.
BothAt(d, o, x, y) ==
  At(d, o, x) /\ At(d, o + Len(x), y) /\ Len(Then(x, y)) = Len(x) + Len(y)

\* Both parts are found where they belong.
LEMMA AtThen ==
  ASSUME NEW d \in Seq(Nat), NEW o \in Nat, NEW x \in Seq(Nat), NEW y \in Seq(Nat),
         At(d, o, Then(x, y))
  PROVE  BothAt(d, o, x, y)
<1> DEFINE z == Then(x, y)
           m == Len(x)
           n == Len(y)
<1>1. m \in Nat /\ n \in Nat /\ Len(d) \in Nat
  BY LenProperties
<1>2. /\ Len(z) = m + n
      /\ \A i \in 1..(m + n) : z[i] = IF i <= m THEN x[i] ELSE y[i - m]
  BY ConcatProperties DEF Then
<1>3. o + Len(z) <= Len(d) /\ \A i \in 1..Len(z) : d[o + i] = z[i]
  BY DEF At
<1> HIDE DEF z
<1>4. At(d, o, x)
  <2>1. \A i \in 1..m : i \in 1..(m + n) /\ i <= m
    BY <1>1
  <2>2. \A i \in 1..m : d[o + i] = x[i]
    BY <1>2, <1>3, <2>1
  <2>3. o + m <= Len(d)
    BY <1>1, <1>2, <1>3
  <2> QED
    BY <2>2, <2>3 DEF At
<1>5. At(d, o + m, y)
  <2> HIDE DEF m, n
  <2>1. ASSUME NEW i \in 1..n PROVE d[o + m + i] = y[i]
    <3>1. m + i \in 1..(m + n) /\ ~(m + i <= m) /\ (m + i) - m = i /\ o + (m + i) = o + m + i
      BY <1>1
    <3> QED
      BY <1>2, <1>3, <3>1
  <2>2. o + m + n <= Len(d)
    BY <1>1, <1>2, <1>3
  <2> QED
    BY <2>1, <2>2 DEF At, n
<1> QED
  BY <1>2, <1>4, <1>5 DEF z, BothAt

\* A tag of one byte, and what is behind it.
Tagged(d, o, t, y) ==
  /\ decode_varint(d, o, MaxVarintBytes) = Decoded(o + 1, t) /\ d[o + 1] = t
  /\ At(d, o + 1, y) /\ Len(Then(encode_varint[t], y)) = 1 + Len(y)

\* The tag is read, and the rest is behind it.
LEMMA TagAndRest ==
  ASSUME NEW d \in Seq(Nat), NEW o \in Nat, NEW t \in 0..127, NEW y \in Seq(Nat),
         At(d, o, Then(encode_varint[t], y))
  PROVE  Tagged(d, o, t, y)
<1> DEFINE b == <<t>>
<1>1. encode_varint[t] = b
  <2>1. t \in Nat /\ t < 128
    OBVIOUS
  <2> QED
    BY <2>1, EncodeShape, Zenon
<1>2. b \in Seq(Nat) /\ Len(b) = 1
  OBVIOUS
<1>3. At(d, o, Then(b, y))
  BY <1>1
<1>4. BothAt(d, o, b, y)
  <2> HIDE DEF b
  <2> QED
    BY <1>2, <1>3, AtThen
<1>5. At(d, o, b) /\ At(d, o + 1, y) /\ Len(Then(b, y)) = 1 + Len(y)
  <2> HIDE DEF b
  <2> QED
    BY <1>2, <1>4 DEF BothAt
<1>6. decode_varint(d, o, MaxVarintBytes) = Decoded(o + 1, t)
  BY <1>5, TagRead
<1>7. d[o + 1] = t
  BY <1>5 DEF At
<1> HIDE DEF b
<1> QED
  BY <1>1, <1>5, <1>6, <1>7 DEF Tagged

\* A byte of a tag.
LEMMA ByteRead ==
  ASSUME NEW d \in Seq(Nat), NEW o \in Nat, o < Len(d), NEW t \in 0..127, d[o + 1] = t
  PROVE  decode_varint(d, o, MaxVarintBytes) = Decoded(o + 1, t)
<1>1. Len(<<t>>) = 1 /\ <<t>>[1] = t /\ o + 1 <= Len(d)
  BY LenProperties
<1>2. At(d, o, <<t>>)
  BY <1>1 DEF At
<1> QED
  BY <1>2, TagRead

\* A field of a varint is read.
ValueRead(d, o, types, n, v) ==
  LET end == o + Len(value_field(n, v))
  IN field_at(d, o, types) = Field(n, 0, Decoded(end, v), end) /\ end \in (o + 2)..Len(d)

\* It is read with its value.
LEMMA ValueFieldRead ==
  ASSUME NEW d \in Seq(Nat), NEW o \in Nat, NEW types, 0 \in types, NEW n \in 0..15,
         NEW v, Fits(v), At(d, o, value_field(n, v))
  PROVE  ValueRead(d, o, types, n, v)
<1> DEFINE e == encode_varint[v]
           m == Len(e)
           tag == 8 * n
           p == o + 1
           end == p + m
           value == Decoded(end, v)
<1>1. tag \in 0..127 /\ 8 * n + 0 = tag
  OBVIOUS
<1>2. e \in Seq(Nat) /\ m \in Nat /\ m > 0
  BY EncodeShape, LenProperties DEF Fits, Varint
<1>3. value_field(n, v) = Then(encode_varint[tag], e)
  BY Zenon DEF value_field, Then
<1>4. p \in Nat /\ p = o + 1 /\ m = Len(e) /\ Len(d) \in Nat
  BY LenProperties
<1> HIDE DEF tag, e, p, m
<1>5. /\ decode_varint(d, o, MaxVarintBytes) = Decoded(p, tag)
      /\ At(d, p, e) /\ Len(value_field(n, v)) = 1 + m
  <2>1. At(d, o, Then(encode_varint[tag], e))
    BY <1>3
  <2>2. Tagged(d, o, tag, e)
    BY <1>1, <1>2, <2>1, TagAndRest
  <2> QED
    BY <1>3, <1>4, <2>2 DEF Tagged
<1>6. decode_varint(d, p, MaxVarintBytes) = value
  BY <1>4, <1>5, VarintRead DEF e, m
<1>7. value.error = "none" /\ Skipped(d, 0, p, value) = end
  BY DEF Decoded, Skipped
<1>8. p + m <= Len(d)
  BY <1>5 DEF At, m
<1>9. end \in p..Len(d) /\ end \in (o + 2)..Len(d) /\ end = o + Len(value_field(n, v))
  BY <1>2, <1>4, <1>5, <1>8
<1> HIDE DEF value, end
<1>10. FieldThere(d, o, types, n, 0, value, end)
  BY <1>1, <1>4, <1>5, <1>6, <1>7, <1>9 DEF FieldThere
<1>11. field_at(d, o, types) = Field(n, 0, value, end)
  BY <1>10, FieldRead
<1> QED
  BY <1>9, <1>11 DEF value, ValueRead

\* A field of bytes is read.
BytesRead(d, o, types, n, x) ==
  LET end == o + Len(bytes_field(n, x))
  IN /\ field_at(d, o, types) = Field(n, 2, Decoded(o + 2, Len(x)), end)
     /\ At(d, o + 2, x) /\ end \in (o + 2)..Len(d) /\ end = o + 2 + Len(x)

\* It is read with its length, and the bytes are behind it.
LEMMA BytesFieldRead ==
  ASSUME NEW d \in Seq(Nat), NEW o \in Nat, NEW types, 2 \in types, NEW n \in 0..15,
         NEW x \in Seq(Nat), Len(x) < 128, At(d, o, bytes_field(n, x))
  PROVE  BytesRead(d, o, types, n, x)
<1> DEFINE tag == 8 * n + 2
           k == Len(x)
           y == Then(encode_varint[k], x)
           m == Len(y)
           p == o + 1
           q == p + 1
           end == q + k
           value == Decoded(q, k)
<1>1. tag \in 0..127 /\ 8 * n + 2 = tag
  OBVIOUS
<1>2. k \in 0..127 /\ k \in Nat /\ k = Len(x)
  <2>1. k \in Nat /\ k < 128
    BY LenProperties
  <2> HIDE DEF k
  <2>2. k \in 0..127
    BY <2>1
  <2> QED
    BY <2>1, <2>2 DEF k
<1>3. y \in Seq(Nat) /\ bytes_field(n, x) = Then(encode_varint[tag], y)
  <2>1. encode_varint[tag] \in Seq(Nat) /\ encode_varint[k] \in Seq(Nat)
    BY <1>1, <1>2, EncodingIsBytes
  <2>2. bytes_field(n, x) = (encode_varint[tag] \o encode_varint[k]) \o x
    BY Zenon DEF bytes_field
  <2>3. bytes_field(n, x) = Then(Then(encode_varint[tag], encode_varint[k]), x)
    BY <2>2, Zenon DEF Then
  <2> HIDE DEF tag, k
  <2>4. Then(Then(encode_varint[tag], encode_varint[k]), x) = Then(encode_varint[tag], y)
    BY <2>1, ThenAssociates
  <2> QED
    BY <2>1, <2>3, <2>4, ThenIsBytes
<1>4. p \in Nat /\ p = o + 1 /\ q \in Nat /\ q = p + 1 /\ q = o + 2
  OBVIOUS
<1>5. m \in Nat /\ m = Len(y) /\ Len(d) \in Nat
  BY <1>3, LenProperties
<1> HIDE DEF tag, y, m, p, q, k
<1>6. /\ decode_varint(d, o, MaxVarintBytes) = Decoded(p, tag)
      /\ At(d, p, y) /\ Len(bytes_field(n, x)) = 1 + m
  <2>1. At(d, o, Then(encode_varint[tag], y))
    BY <1>3
  <2>2. Tagged(d, o, tag, y)
    BY <1>1, <1>3, <2>1, TagAndRest
  <2> QED
    BY <1>3, <1>4, <1>5, <2>2 DEF Tagged
<1>7. /\ decode_varint(d, p, MaxVarintBytes) = value
      /\ At(d, q, x) /\ m = 1 + k
  <2>1. At(d, p, Then(encode_varint[k], x))
    BY <1>6 DEF y
  <2>2. Tagged(d, p, k, x)
    BY <1>2, <1>4, <2>1, TagAndRest
  <2> QED
    BY <1>2, <1>4, <1>5, <2>2 DEF Tagged, y
<1>8. value.error = "none" /\ Skipped(d, 2, p, value) = end
  BY <1>2 DEF Decoded, Skipped
<1>9. q + k <= Len(d)
  BY <1>7 DEF At, k
<1>10. end \in p..Len(d) /\ end \in (o + 2)..Len(d) /\ end = o + Len(bytes_field(n, x))
       /\ end = o + 2 + k
  <2>1. Len(bytes_field(n, x)) = 1 + (1 + k)
    BY <1>6, <1>7
  <2>2. k \in Nat /\ k >= 0
    BY <1>2
  <2>3. end = o + 2 + k /\ end \in p..Len(d) /\ end \in (o + 2)..Len(d)
    BY <1>4, <1>5, <1>9, <2>2
  <2> QED
    BY <2>1, <2>2, <2>3
<1> HIDE DEF value, end
<1>11. FieldThere(d, o, types, n, 2, value, end)
  <2>1. o \in Nat /\ n \in 0..15 /\ 2 \in types /\ 2 \in 0..7
    OBVIOUS
  <2>2. /\ decode_varint(d, o, MaxVarintBytes) = Decoded(o + 1, 8 * n + 2)
        /\ value = decode_varint(d, o + 1, MaxVarintBytes)
    BY <1>1, <1>4, <1>6, <1>7
  <2>3. end = Skipped(d, 2, o + 1, value) /\ end \in (o + 1)..Len(d)
    BY <1>4, <1>8, <1>10
  <2> QED
    BY <1>8, <2>1, <2>2, <2>3 DEF FieldThere
<1>12. field_at(d, o, types) = Field(n, 2, value, end)
  BY <1>11, FieldRead
<1> QED
  BY <1>2, <1>4, <1>7, <1>10, <1>12 DEF value, BytesRead

\* What a reader of answers that runs over d has found, and where.
Reader(d, f) == \A o \in 0..Len(d) : f[o] = ReadAt(d, o, f)

\* A reader of answers finds the same behind the bytes as in front of them.
Skips(e) ==
  e \in Seq(Nat)
  /\ \A d \in Seq(Nat), o \in Nat : \A f :
       Reader(d, f) /\ At(d, o, e) => f[o] = f[o + Len(e)]

AnswerTypes == {0, 1, 2, 5}

\* A field that is not the first one of a varint is skipped.
LEMMA OtherIsSkipped ==
  ASSUME NEW d \in Seq(Nat), NEW o \in Nat, NEW f, Reader(d, f), NEW n, NEW t, NEW value,
         NEW end, field_at(d, o, AnswerTypes) = Field(n, t, value, end), o < Len(d),
         t # 0 \/ n # 1
  PROVE  f[o] = f[end]
<1>1. o \in 0..Len(d) /\ o # Len(d)
  <2>1. Len(d) \in Nat
    BY LenProperties
  <2> QED
    BY <2>1
<1>2. f[o] = ReadAt(d, o, f)
  BY <1>1 DEF Reader
<1>3. /\ Field(n, t, value, end).error = "none" /\ Field(n, t, value, end).number = n
      /\ Field(n, t, value, end).type = t /\ Field(n, t, value, end).end = end
  BY DEF Field
<1> DEFINE field == Field(n, t, value, end)
<1>4. field_at(d, o, {0, 1, 2, 5}) = field
  BY DEF AnswerTypes
<1> HIDE DEF field
<1> QED
  BY <1>1, <1>2, <1>3, <1>4 DEF ReadAt, field

\* Nothing is skipped.
LEMMA SkipsNothing == Skips(Nothing)
<1>1. Nothing \in Seq(Nat) /\ Len(Nothing) = 0
  BY DEF Nothing
<1> QED
  BY <1>1 DEF Skips

\* Two things that are skipped are skipped one behind the other.
LEMMA SkipsBoth == ASSUME NEW x, NEW y, Skips(x), Skips(y) PROVE Skips(Then(x, y))
<1>1. x \in Seq(Nat) /\ y \in Seq(Nat) /\ Then(x, y) \in Seq(Nat)
  BY ThenIsBytes DEF Skips
<1>2. ASSUME NEW d \in Seq(Nat), NEW o \in Nat, NEW f, Reader(d, f), At(d, o, Then(x, y))
      PROVE  f[o] = f[o + Len(Then(x, y))]
  <2>1. BothAt(d, o, x, y)
    BY <1>1, <1>2, AtThen
  <2>2. f[o] = f[o + Len(x)]
    BY <1>2, <2>1 DEF BothAt, Skips
  <2> DEFINE p == o + Len(x)
  <2>3. p \in Nat /\ At(d, p, y)
    BY <1>1, <2>1, LenProperties DEF BothAt
  <2> HIDE DEF p
  <2>4. f[p] = f[p + Len(y)]
    BY <1>2, <2>3 DEF Skips
  <2>5. p + Len(y) = o + Len(Then(x, y))
    BY <1>1, <2>1, LenProperties DEF BothAt, p
  <2> QED
    BY <2>2, <2>4, <2>5 DEF p
<1> QED
  BY <1>1, <1>2 DEF Skips

\* A field of a varint is skipped, unless its number is 1.
LEMMA SkipsValue == ASSUME NEW n \in 2..15, NEW v, Fits(v) PROVE Skips(value_field(n, v))
<1> DEFINE e == value_field(n, v)
<1>1. e \in Seq(Nat) /\ n \in 0..15 /\ n # 1
  <2>1. n \in Nat /\ v \in Nat /\ n \in 0..15 /\ n # 1
    BY DEF Fits
  <2> QED
    BY <2>1, FieldsAre
<1>2. ASSUME NEW d \in Seq(Nat), NEW o \in Nat, NEW f, Reader(d, f), At(d, o, e)
      PROVE  f[o] = f[o + Len(e)]
  <2> DEFINE end == o + Len(e)
  <2>1. 0 \in AnswerTypes /\ Len(d) \in Nat
    BY LenProperties DEF AnswerTypes
  <2>2. /\ field_at(d, o, AnswerTypes) = Field(n, 0, Decoded(end, v), end)
        /\ end \in (o + 2)..Len(d)
    <3>1. ValueRead(d, o, AnswerTypes, n, v)
      BY <1>1, <1>2, <2>1, ValueFieldRead
    <3> QED
      BY <3>1 DEF ValueRead
  <2> HIDE DEF end
  <2>3. o < Len(d)
    BY <2>1, <2>2
  <2>4. f[o] = f[end]
    BY <1>1, <1>2, <2>2, <2>3, OtherIsSkipped
  <2> QED
    BY <2>4 DEF end
<1> QED
  BY <1>1, <1>2 DEF Skips

\* A field of bytes is skipped.
LEMMA SkipsBytes ==
  ASSUME NEW n \in 0..15, NEW x \in Seq(Nat), Len(x) < 128
  PROVE  Skips(bytes_field(n, x))
<1> DEFINE e == bytes_field(n, x)
<1>1. e \in Seq(Nat)
  <2>1. n \in Nat
    OBVIOUS
  <2> QED
    BY <2>1, FieldsAre
<1>2. ASSUME NEW d \in Seq(Nat), NEW o \in Nat, NEW f, Reader(d, f), At(d, o, e)
      PROVE  f[o] = f[o + Len(e)]
  <2> DEFINE end == o + Len(e)
  <2>1. 2 \in AnswerTypes /\ Len(d) \in Nat
    BY LenProperties DEF AnswerTypes
  <2>2. /\ field_at(d, o, AnswerTypes) = Field(n, 2, Decoded(o + 2, Len(x)), end)
        /\ end \in (o + 2)..Len(d)
    <3>1. BytesRead(d, o, AnswerTypes, n, x)
      BY <1>2, <2>1, BytesFieldRead
    <3> QED
      BY <3>1 DEF BytesRead
  <2> HIDE DEF end
  <2>3. o < Len(d) /\ 2 # 0
    BY <2>1, <2>2
  <2>4. f[o] = f[end]
    BY <1>1, <1>2, <2>2, <2>3, OtherIsSkipped
  <2> QED
    BY <2>4 DEF end
<1> QED
  BY <1>1, <1>2 DEF Skips

\* A field of eight or four bytes is skipped, whatever they are.
LEMMA SkipsFixed ==
  ASSUME NEW e \in Seq(Nat), NEW n \in 0..15, NEW t, NEW size \in Nat,
         (t = 1 /\ size = 8) \/ (t = 5 /\ size = 4), Len(e) = 1 + size, e[1] = 8 * n + t
  PROVE  Skips(e)
<1> SUFFICES ASSUME NEW d \in Seq(Nat), NEW o \in Nat, NEW f, Reader(d, f), At(d, o, e)
             PROVE  f[o] = f[o + Len(e)]
  BY DEF Skips
<1> DEFINE tag == 8 * n + t
           end == o + 1 + size
           value == decode_varint(d, o + 1, MaxVarintBytes)
<1>1. /\ t \in AnswerTypes /\ t \in 0..7 /\ t \notin {0, 2} /\ tag \in 0..127 /\ size > 0
      /\ Len(d) \in Nat
  <2>1. Len(d) \in Nat
    BY LenProperties
  <2>2. CASE t = 1 /\ size = 8
    BY <2>1, <2>2 DEF AnswerTypes
  <2>3. CASE t = 5 /\ size = 4
    BY <2>1, <2>3 DEF AnswerTypes
  <2> QED
    BY <2>2, <2>3
<1>2. At(d, o, <<tag>>)
  <2>1. d[o + 1] = e[1] /\ o + (1 + size) <= Len(d)
    BY <1>1 DEF At
  <2>2. Len(<<tag>>) = 1 /\ <<tag>>[1] = tag /\ o + 1 <= Len(d)
    BY <1>1, <2>1
  <2> QED
    BY <2>1, <2>2 DEF At
<1>3. end \in (o + 1)..Len(d) /\ o < Len(d) /\ end = o + Len(e)
  <2>1. o + (1 + size) <= Len(d)
    BY DEF At
  <2> QED
    BY <1>1, <2>1
<1>4. decode_varint(d, o, MaxVarintBytes) = Decoded(o + 1, tag)
  <2> HIDE DEF tag
  <2> QED
    BY <1>1, <1>2, TagRead
<1>5. end = Skipped(d, t, o + 1, value)
  BY DEF Skipped
<1> HIDE DEF value, end
<1>6. FieldThere(d, o, AnswerTypes, n, t, value, end)
  BY <1>1, <1>3, <1>4, <1>5 DEF FieldThere, value
<1>7. field_at(d, o, AnswerTypes) = Field(n, t, value, end)
  BY <1>6, FieldRead
<1>8. f[o] = f[end]
  BY <1>1, <1>3, <1>7, OtherIsSkipped
<1> QED
  BY <1>3, <1>8

\* An answer is read behind what is skipped.
LEMMA AnswerIsRead ==
  ASSUME NEW before, Skips(before), NEW v, Fits(v)
  PROVE  read_response_value(Then(before, value_field(1, v))) = [error |-> "none", value |-> v]
<1> DEFINE e == value_field(1, v)
           d == Then(before, e)
           k == Len(before)
           end == k + Len(e)
<1>1. before \in Seq(Nat) /\ e \in Seq(Nat) /\ d \in Seq(Nat)
  BY FieldsAre, ThenIsBytes DEF Skips, Fits
<1>2. k \in Nat /\ Len(d) \in Nat
  BY <1>1, LenProperties
<1>3. At(d, 0, d)
  <2> HIDE DEF d
  <2> QED
    BY <1>1 DEF At
<1>4. BothAt(d, 0, before, e)
  <2> HIDE DEF e
  <2> QED
    BY <1>1, <1>3, AtThen
<1>5. At(d, 0, before) /\ At(d, k, e)
  BY <1>2, <1>4 DEF BothAt
<1> HIDE DEF d, k, e
<1>6. PICK f : read_response_value(d) = f[0] /\ Reader(d, f)
  BY <1>2, ReadIs DEF Reader
<1>7. f[0] = f[k]
  <2>1. f[0] = f[0 + Len(before)]
    BY <1>1, <1>5, <1>6 DEF Skips
  <2> QED
    BY <1>2, <2>1 DEF k
<1>8. /\ field_at(d, k, {0, 1, 2, 5}) = Field(1, 0, Decoded(end, v), end)
      /\ end \in (k + 2)..Len(d)
  <2> DEFINE types == {0, 1, 2, 5}
             one == 1
  <2>1. 0 \in types /\ one \in 0..15 /\ At(d, k, value_field(one, v))
    BY <1>5 DEF e
  <2> HIDE DEF types, one
  <2>2. ValueRead(d, k, types, one, v)
    BY <1>1, <1>2, <2>1, ValueFieldRead
  <2> QED
    BY <2>2 DEF ValueRead, types, one, e, end
<1>9. k \in 0..Len(d) /\ k # Len(d)
  BY <1>2, <1>8
<1>10. f[k] = ReadAt(d, k, f)
  BY <1>6, <1>9 DEF Reader
<1> DEFINE field == Field(1, 0, Decoded(end, v), end)
<1>11. /\ field.error = "none" /\ field.number = 1 /\ field.type = 0
       /\ field.varint.value = v
  BY DEF Field, Decoded
<1> HIDE DEF field, end
<1>12. f[k] = [error |-> "none", value |-> v]
  BY <1>8, <1>9, <1>10, <1>11 DEF ReadAt, field
<1> QED
  BY <1>6, <1>7, <1>12 DEF d, e

\* A varint that is cut short is missed as truncated.
LEMMA VarintCut ==
  ASSUME NEW v, Fits(v), NEW d \in Seq(Nat), NEW o \in Nat, NEW k \in Nat,
         k < Len(encode_varint[v]), Len(d) = o + k,
         \A i \in 1..k : d[o + i] = encode_varint[v][i]
  PROVE  decode_varint(d, o, MaxVarintBytes) = Raised("truncated")
<1> DEFINE e == encode_varint[v]
<1>1. e \in Seq(Nat) /\ Len(e) < 10 /\ Len(e) \in Nat /\ \A i \in 1..(Len(e) - 1) : e[i] >= 128
  BY EncodeShape, LenProperties DEF Fits, Varint, MaxVarintBytes
<1> DEFINE m == Len(e)
<1> HIDE DEF e
<1>2. m \in Nat /\ m < 10 /\ k < m /\ \A i \in 1..(m - 1) : e[i] >= 128
  BY <1>1 DEF e
<1> HIDE DEF m
<1>3. \A i \in 1..k : d[o + i] >= 128
  <2>1. \A i \in 1..k : i \in 1..(m - 1)
    BY <1>2
  <2> QED
    BY <1>2, <2>1 DEF e
<1>4. ASSUME NEW n \in 1..10, IsVarint(d, o, n) PROVE FALSE
  <2>1. n \in 1..k /\ d[o + n] < 128
    BY <1>4 DEF IsVarint
  <2>2. d[o + n] \in Nat
    <3>1. o + n \in 1..Len(d)
      BY <2>1
    <3> QED
      BY <3>1, ElementOfSeq
  <2>3. d[o + n] >= 128
    BY <1>3, <2>1
  <2> QED
    BY <2>1, <2>2, <2>3
<1>5. ~(o + 10 <= Len(d))
  BY <1>2
<1> QED
  BY <1>4, <1>5 DEF decode_varint, MaxVarintBytes

\* An answer that is cut short within its value is truncated.
LEMMA AnswerCut ==
  ASSUME NEW before, Skips(before), NEW v, Fits(v),
         NEW n \in (Len(before) + 1)..(Len(Then(before, value_field(1, v))) - 1)
  PROVE  read_response_value(SubSeq(Then(before, value_field(1, v)), 1, n)).error = "truncated"
<1> DEFINE w == encode_varint[v]
           e == value_field(1, v)
           answer == Then(before, e)
           d == SubSeq(answer, 1, n)
           k == Len(before)
           m == Len(w)
<1>1. before \in Seq(Nat) /\ e \in Seq(Nat) /\ answer \in Seq(Nat) /\ w \in Seq(Nat)
  <2>1. before \in Seq(Nat) /\ v \in Nat
    BY DEF Skips, Fits
  <2>2. e \in Seq(Nat) /\ w \in Seq(Nat)
    BY <2>1, FieldsAre, EncodingIsBytes
  <2> HIDE DEF e
  <2> QED
    BY <2>1, <2>2, ThenIsBytes
<1>2. e = Then(encode_varint[8], w)
  <2>1. e = Then(encode_varint[8 * 1], w)
    BY Zenon DEF value_field, Then
  <2>2. 8 * 1 = 8
    OBVIOUS
  <2> QED
    BY <2>1, <2>2
<1>3. k \in Nat /\ m \in Nat /\ Len(answer) \in Nat
  BY <1>1, LenProperties
<1>4. At(answer, 0, answer)
  <2> HIDE DEF answer
  <2> QED
    BY <1>1 DEF At
<1> HIDE DEF e, w
<1>5. At(answer, 0, before) /\ At(answer, k, e) /\ Len(answer) = k + Len(e)
  <2>1. BothAt(answer, 0, before, e)
    BY <1>1, <1>4, AtThen
  <2> QED
    BY <1>3, <2>1 DEF BothAt
<1> HIDE DEF answer
<1>6. Tagged(answer, k, 8, w)
  BY <1>1, <1>2, <1>3, <1>5, TagAndRest
<1>7. At(answer, k + 1, w) /\ Len(answer) = k + (1 + m)
  BY <1>2, <1>5, <1>6 DEF Tagged
<1>8. n \in Nat /\ n > k /\ n < k + (1 + m)
  <2>1. n \in (k + 1)..(Len(answer) - 1)
    BY DEF answer, e
  <2> QED
    BY <1>3, <1>7, <2>1
<1>9. d \in Seq(Nat) /\ Len(d) = n /\ \A i \in 1..n : d[i] = answer[i]
  <2>1. n <= Len(answer)
    BY <1>3, <1>7, <1>8
  <2>2. d = [i \in 1..n |-> answer[i]]
    BY <1>1, <1>3, <1>8, <2>1
  <2>3. \A i \in 1..n : answer[i] \in Nat
    BY <1>1, <1>3, <2>1
  <2> HIDE DEF d
  <2> QED
    BY <1>8, <2>2, <2>3
<1> HIDE DEF d, k, m
<1>10. At(d, 0, before)
  BY <1>3, <1>5, <1>8, <1>9 DEF At, k
<1>11. decode_varint(d, k, MaxVarintBytes) = Decoded(k + 1, 8)
  <2> DEFINE eight == 8
  <2>1. eight \in 0..127 /\ k < Len(d) /\ d[k + 1] = eight
    BY <1>3, <1>6, <1>8, <1>9 DEF Tagged
  <2> HIDE DEF eight
  <2>2. decode_varint(d, k, MaxVarintBytes) = Decoded(k + 1, eight)
    BY <1>3, <1>9, <2>1, ByteRead
  <2> QED
    BY <2>2 DEF eight
<1>12. decode_varint(d, k + 1, MaxVarintBytes) = Raised("truncated")
  <2> DEFINE o == k + 1
             l == n - o
  <2>1. o \in Nat /\ l \in Nat /\ l < m /\ Len(d) = o + l
    BY <1>3, <1>8, <1>9
  <2>2. \A i \in 1..l : d[o + i] = w[i]
    <3>1. \A i \in 1..l : i \in 1..m /\ o + i \in 1..n
      BY <1>3, <1>8
    <3> QED
      BY <1>7, <1>9, <3>1 DEF At, m
  <2> HIDE DEF o, l
  <2>3. decode_varint(d, o, MaxVarintBytes) = Raised("truncated")
    BY <1>9, <2>1, <2>2, VarintCut DEF w, m
  <2> QED
    BY <2>3 DEF o
<1>13. field_at(d, k, {0, 1, 2, 5}) = Raised("truncated")
  <2> DEFINE value == Raised("truncated")
             end == Skipped(d, 0, k + 1, value)
             types == {0, 1, 2, 5}
             zero == 0
             one == 1
  <2>1. value.error # "none" /\ value = decode_varint(d, k + 1, MaxVarintBytes)
    BY <1>12 DEF Raised
  <2>2. zero \in types /\ zero \in 0..7 /\ one \in 0..15 /\ zero \in {0, 2}
    OBVIOUS
  <2>3. /\ decode_varint(d, k, MaxVarintBytes) = Decoded(k + 1, 8 * one + zero)
        /\ end = Skipped(d, zero, k + 1, value)
    BY <1>11
  <2> HIDE DEF value, end, types, zero, one
  <2>4. FieldOutcome(d, k, types, one, zero, value, end)
    BY <1>3, <2>1, <2>2, <2>3, FieldIs
  <2>5. field_at(d, k, types) = value
    BY <2>1, <2>2, <2>4 DEF FieldOutcome
  <2> QED
    BY <2>5 DEF value, types
<1>14. PICK f : read_response_value(d) = f[0] /\ Reader(d, f)
  BY <1>8, <1>9, ReadIs DEF Reader
<1>15. f[0] = f[k]
  <2>1. f[0] = f[0 + Len(before)]
    BY <1>1, <1>9, <1>10, <1>14 DEF Skips
  <2> QED
    BY <1>3, <2>1 DEF k
<1>16. k \in 0..Len(d) /\ k # Len(d)
  BY <1>3, <1>8, <1>9
<1>17. f[k] = Raised("truncated")
  <2>1. f[k] = ReadAt(d, k, f)
    BY <1>14, <1>16 DEF Reader
  <2>2. Raised("truncated").error # "none"
    BY DEF Raised
  <2> QED
    BY <1>13, <1>16, <2>1, <2>2 DEF ReadAt
<1>18. read_response_value(d).error = "truncated"
  BY <1>14, <1>15, <1>17 DEF Raised
<1> QED
  BY <1>18 DEF d, answer, e

\* Without its value an answer has none.
LEMMA AnswerIsMissing ==
  ASSUME NEW before, Skips(before)
  PROVE  read_response_value(before) = [error |-> "none", value |-> -1]
<1>1. before \in Seq(Nat) /\ Len(before) \in Nat /\ At(before, 0, before)
  BY LenProperties DEF Skips, At
<1>2. PICK f : read_response_value(before) = f[0] /\ Reader(before, f)
  BY <1>1, ReadIs DEF Reader
<1>3. f[0] = f[Len(before)]
  <2>1. f[0] = f[0 + Len(before)]
    BY <1>1, <1>2 DEF Skips
  <2> QED
    BY <1>1, <2>1
<1>4. f[Len(before)] = ReadAt(before, Len(before), f)
  BY <1>1, <1>2 DEF Reader
<1> QED
  BY <1>2, <1>3, <1>4 DEF ReadAt

\* Small numbers fit.
LEMMA SmallFits == \A v \in Nat : v < 2^28 => Fits(v)
<1>1. ASSUME NEW v \in Nat, v < 2^28 PROVE Fits(v)
  <2>1. Len(encode_varint[v]) <= 4
    BY <1>1, FourBytes
  <2>2. Len(encode_varint[v]) \in Nat
    BY EncodingIsBytes, LenProperties
  <2> QED
    BY <2>1, <2>2 DEF Fits, MaxVarintBytes
<1> QED
  BY <1>1

\* The fields that may stand before the value of an answer: none, one of a varint, one of
\* bytes, one of eight bytes and one of four.
Others ==
  {<<>>, value_field(2, 300), bytes_field(3, <<8, 5>>),
   <<33, 8, 1, 8, 1, 8, 1, 8, 1>>, <<37, 8, 1, 8, 1>>}

\* All of them are skipped.
LEMMA OthersAreSkipped == ASSUME NEW others \in Others PROVE Skips(others)
<1>1. Skips(<<>>)
  BY SkipsNothing DEF Nothing
<1>2. Skips(value_field(2, 300))
  <2> DEFINE two == 2
             v == 300
  <2>1. two \in 2..15 /\ v \in Nat /\ v < 2^28
    OBVIOUS
  <2> HIDE DEF two, v
  <2>2. Fits(v)
    BY <2>1, SmallFits
  <2>3. Skips(value_field(two, v))
    BY <2>1, <2>2, SkipsValue
  <2> QED
    BY <2>3 DEF two, v
<1>3. Skips(bytes_field(3, <<8, 5>>))
  <2> DEFINE three == 3
             x == <<8, 5>>
  <2>1. three \in 0..15 /\ x \in Seq(Nat) /\ Len(x) < 128
    OBVIOUS
  <2> HIDE DEF three, x
  <2>2. Skips(bytes_field(three, x))
    BY <2>1, SkipsBytes
  <2> QED
    BY <2>2 DEF three, x
<1>4. Skips(<<33, 8, 1, 8, 1, 8, 1, 8, 1>>)
  <2> DEFINE e == <<33, 8, 1, 8, 1, 8, 1, 8, 1>>
             n == 4
             t == 1
             size == 8
  <2>1. /\ e \in Seq(Nat) /\ Len(e) = 1 + size /\ e[1] = 8 * n + t
        /\ n \in 0..15 /\ t = 1 /\ size = 8 /\ size \in Nat
    OBVIOUS
  <2> HIDE DEF e, n, t, size
  <2>2. Skips(e)
    BY <2>1, SkipsFixed
  <2> QED
    BY <2>2 DEF e
<1>5. Skips(<<37, 8, 1, 8, 1>>)
  <2> DEFINE e == <<37, 8, 1, 8, 1>>
             n == 4
             t == 5
             size == 4
  <2>1. /\ e \in Seq(Nat) /\ Len(e) = 1 + size /\ e[1] = 8 * n + t
        /\ n \in 0..15 /\ t = 5 /\ size = 4 /\ size \in Nat
    OBVIOUS
  <2> HIDE DEF e, n, t, size
  <2>2. Skips(e)
    BY <2>1, SkipsFixed
  <2> QED
    BY <2>2 DEF e
<1> QED
  BY <1>1, <1>2, <1>3, <1>4, <1>5 DEF Others

\* An answer whose value is cut off or cut short, or is not there.
LEMMA AnswersAreRead ==
  ASSUME NEW others \in Others, NEW v, Fits(v)
  PROVE  LET answer == others \o others \o value_field(1, v)
         IN /\ read_response_value(answer) = [error |-> "none", value |-> v]
            /\ \A n \in (2 * Len(others) + 1)..(Len(answer) - 1) :
                 read_response_value(SubSeq(answer, 1, n)).error = "truncated"
            /\ read_response_value(others).value = -1
<1> DEFINE before == Then(others, others)
           answer == others \o others \o value_field(1, v)
           a == Then(before, value_field(1, v))
<1>1. Skips(others) /\ Skips(before)
  BY OthersAreSkipped, SkipsBoth
<1>2. answer = a
  BY Zenon DEF Then
<1>3. 2 * Len(others) = Len(before)
  <2>1. others \in Seq(Nat)
    BY <1>1 DEF Skips
  <2>2. Len(others \o others) = Len(others) + Len(others) /\ Len(others) \in Nat
    BY <2>1, ConcatProperties, LenProperties
  <2> QED
    BY <2>2 DEF Then
<1>4. read_response_value(a) = [error |-> "none", value |-> v]
  <2> HIDE DEF before
  <2> QED
    BY <1>1, AnswerIsRead
<1>5. ASSUME NEW n \in (2 * Len(others) + 1)..(Len(answer) - 1)
      PROVE  read_response_value(SubSeq(answer, 1, n)).error = "truncated"
  <2> HIDE DEF answer
  <2>1. n \in (Len(before) + 1)..(Len(a) - 1)
    BY <1>2, <1>3, <1>5
  <2> HIDE DEF before
  <2>2. read_response_value(SubSeq(a, 1, n)).error = "truncated"
    BY <1>1, <2>1, AnswerCut
  <2> QED
    BY <1>2, <2>2
<1>6. read_response_value(others).value = -1
  BY <1>1, AnswerIsMissing
<1> HIDE DEF answer, a
<1>7. read_response_value(answer) = [error |-> "none", value |-> v]
  BY <1>2, <1>4
<1> QED
  BY <1>5, <1>6, <1>7 DEF answer

\* What first_field that runs over d has found, and where.
Finder(d, number, types, f) ==
  \E wire_type : /\ types = {wire_type}
                 /\ \A o \in 0..Len(d) : f[o] = FoundAt(d, number, wire_type, o, f)

\* A field with another number is passed over.
LEMMA FindPasses ==
  ASSUME NEW d \in Seq(Nat), NEW o \in Nat, NEW number, NEW types, NEW f,
         Finder(d, number, types, f), NEW n, NEW t, NEW value, NEW end,
         field_at(d, o, types) = Field(n, t, value, end), o < Len(d), n # number
  PROVE  f[o] = f[end]
<1>1. o \in 0..Len(d) /\ o # Len(d)
  <2>1. Len(d) \in Nat
    BY LenProperties
  <2> QED
    BY <2>1
<1>2. PICK wire_type : types = {wire_type} /\ f[o] = FoundAt(d, number, wire_type, o, f)
  BY <1>1 DEF Finder
<1> DEFINE field == Field(n, t, value, end)
<1>3. field.error = "none" /\ field.number = n /\ field.end = end
  BY DEF Field
<1>4. field_at(d, o, {wire_type}) = field
  BY <1>2
<1> HIDE DEF field
<1> QED
  BY <1>1, <1>2, <1>3, <1>4 DEF FoundAt

\* The first field of a varint with the number is what is found.
LEMMA FindEnds ==
  ASSUME NEW d \in Seq(Nat), NEW o \in Nat, NEW number, NEW f, Finder(d, number, {0}, f),
         NEW v, NEW end,
         field_at(d, o, {0}) = Field(number, 0, Decoded(end, v), end), o < Len(d)
  PROVE  f[o] = [error |-> "none", value |-> v]
<1>1. o \in 0..Len(d) /\ o # Len(d)
  <2>1. Len(d) \in Nat
    BY LenProperties
  <2> QED
    BY <2>1
<1>2. f[o] = FoundAt(d, number, 0, o, f)
  BY <1>1 DEF Finder
<1> DEFINE field == Field(number, 0, Decoded(end, v), end)
<1>3. field.error = "none" /\ field.number = number /\ field.varint.value = v
  BY DEF Field, Decoded
<1>4. field_at(d, o, {0}) = field
  OBVIOUS
<1> HIDE DEF field
<1> QED
  BY <1>1, <1>2, <1>3, <1>4 DEF FoundAt

\* Ten bytes stand for a negative number.
LEMMA NegativeIs ==
  LET e == EncodeNegative(-30)
  IN e \in Seq(Nat) /\ Len(e) = 10 /\ e[10] = 1 /\ \A i \in 1..9 : e[i] >= 128
<1> DEFINE Good(f) == f = [i \in 0..9 |-> IF i = 0 THEN -30 ELSE f[i - 1] \div 128]
           F == CHOOSE f : Good(f)
           e == EncodeNegative(-30)
<1>1. Good(F)
  <2> DEFINE w == [i \in 0..9 |-> IF i = 0 THEN -30 ELSE -1]
  <2>1. \A i \in 0..9 : w[i] = IF i = 0 THEN -30 ELSE w[i - 1] \div 128
    <3>1. (-30) \div 128 = -1 /\ (-1) \div 128 = -1
      <4>1. \A a \in Int : -128 <= a /\ a < 0 => a \div 128 = -1
        OBVIOUS
      <4>2. -30 \in Int /\ -128 <= -30 /\ -30 < 0 /\ -1 \in Int /\ -128 <= -1 /\ -1 < 0
        OBVIOUS
      <4> DEFINE a == -30
                 b == -1
      <4> HIDE DEF a, b
      <4>3. a \div 128 = -1 /\ b \div 128 = -1
        BY <4>1, <4>2 DEF a, b
      <4> QED
        BY <4>3 DEF a, b
    <3>2. ASSUME NEW i \in 0..9, i # 0 PROVE w[i - 1] \div 128 = -1
      <4>1. i - 1 \in 0..9
        BY <3>2
      <4>2. w[i - 1] = -30 \/ w[i - 1] = -1
        BY <4>1
      <4> QED
        BY <3>1, <4>2
    <3> QED
      BY <3>2
  <2> DEFINE g == [i \in 0..9 |-> IF i = 0 THEN -30 ELSE w[i - 1] \div 128]
  <2>2. w = [i \in 0..9 |-> w[i]] /\ \A i \in 0..9 : w[i] = g[i]
    BY <2>1
  <2> HIDE DEF w
  <2>3. w = g
    BY <2>2
  <2>4. Good(w)
    BY <2>3
  <2> HIDE DEF Good
  <2> QED
    BY <2>4
<1>2. e = [i \in 1..10 |-> IF i = 10 THEN 1 ELSE 128 + (F[i - 1] % 128)]
  BY Zenon DEF EncodeNegative
<1>3. /\ F[0] = -30 /\ \A i \in 0..8 : F[i + 1] = F[i] \div 128
  <2> HIDE DEF F
  <2>1. \A i \in 0..9 : F[i] = IF i = 0 THEN -30 ELSE F[i - 1] \div 128
    BY <1>1
  <2>2. ASSUME NEW i \in 0..8 PROVE F[i + 1] = F[i] \div 128
    <3>1. i + 1 \in 0..9 /\ i + 1 # 0 /\ (i + 1) - 1 = i
      OBVIOUS
    <3> QED
      BY <2>1, <3>1
  <2> QED
    BY <2>1, <2>2
<1> HIDE DEF F, e
<1>4. \A i \in 0..9 : F[i] \in Int
  <2> DEFINE T == {k \in Nat : k \in 0..9 => F[k] \in Int}
  <2>1. 0 \in T
    BY <1>3
  <2>2. ASSUME NEW k \in Nat, k \in T PROVE k + 1 \in T
    BY <1>3, <2>2
  <2> HIDE DEF T
  <2>3. Nat \subseteq T
    BY <2>1, <2>2, NumberInduction
  <2> QED
    BY <2>3 DEF T
<1>5. ASSUME NEW i \in 1..9 PROVE e[i] \in Nat /\ e[i] >= 128
  <2>1. F[i - 1] \in Int
    BY <1>4
  <2>2. F[i - 1] % 128 \in 0..127
    BY <2>1
  <2> QED
    BY <1>2, <2>2
<1>6. e[10] = 1
  BY <1>2
<1>7. \A i \in 1..10 : e[i] \in Nat
  BY <1>5, <1>6
<1>8. e \in Seq(Nat) /\ Len(e) = 10
  BY <1>2, <1>7
<1> QED
  BY <1>5, <1>6, <1>8 DEF e

\* Ten bytes of a negative number are one varint.
LEMMA TenBytesRead ==
  ASSUME NEW d \in Seq(Nat), NEW o \in Nat, NEW e \in Seq(Nat), Len(e) = 10, e[10] = 1,
         \A i \in 1..9 : e[i] >= 128, At(d, o, e)
  PROVE  /\ decode_varint(d, o, MaxVarintBytes).error = "none"
         /\ decode_varint(d, o, MaxVarintBytes).offset = o + 10
<1>1. o + 10 <= Len(d) /\ d[o + 10] = 1 /\ \A i \in 1..9 : d[o + i] >= 128
  <2>1. o + 10 <= Len(d) /\ \A i \in 1..10 : d[o + i] = e[i]
    BY DEF At
  <2>2. \A i \in 1..9 : i \in 1..10
    OBVIOUS
  <2>3. ASSUME NEW i \in 1..9 PROVE d[o + i] >= 128
    <3>1. d[o + i] = e[i] /\ e[i] >= 128
      BY <2>1, <2>2
    <3> QED
      BY <3>1
  <2>4. d[o + 10] = 1
    BY <2>1
  <2> QED
    BY <2>1, <2>3, <2>4
<1>2. IsVarint(d, o, 10)
  BY <1>1 DEF IsVarint
<1>3. ASSUME NEW n \in 1..10, IsVarint(d, o, n) PROVE n = 10
  <2>1. SUFFICES ASSUME n # 10 PROVE FALSE
    OBVIOUS
  <2>2. n \in 1..9 /\ o + n \in 1..Len(d)
    <3> DEFINE l == Len(d)
    <3>1. l \in Nat /\ o + 10 <= l
      BY <1>1, LenProperties
    <3> HIDE DEF l
    <3>2. n \in 1..9 /\ o + n \in 1..l
      BY <2>1, <3>1
    <3> QED
      BY <3>2 DEF l
  <2>3. d[o + n] \in Nat /\ d[o + n] >= 128
    BY <1>1, <2>2, ElementOfSeq
  <2>4. d[o + n] < 128
    BY <1>3 DEF IsVarint
  <2> QED
    BY <2>3, <2>4
<1>4. (CHOOSE n \in 1..10 : IsVarint(d, o, n)) = 10 /\ \E n \in 1..10 : IsVarint(d, o, n)
  BY <1>2, <1>3
<1> QED
  BY <1>4 DEF decode_varint, MaxVarintBytes

\* A field of a negative number.
negative_field == Then(encode_varint[16], EncodeNegative(-30))

NegativeRead(d, o) ==
  LET end == o + Len(negative_field)
  IN /\ \E value : field_at(d, o, {0}) = Field(2, 0, value, end)
     /\ end \in (o + 2)..Len(d)

\* It is read as a field of a varint.
LEMMA NegativeFieldRead ==
  ASSUME NEW d \in Seq(Nat), NEW o \in Nat, At(d, o, negative_field)
  PROVE  NegativeRead(d, o)
<1> DEFINE e == EncodeNegative(-30)
           p == o + 1
           value == decode_varint(d, p, MaxVarintBytes)
           end == o + 11
           tag == 16
           two == 2
           zero == 0
           types == {0}
<1>1. e \in Seq(Nat) /\ Len(e) = 10 /\ e[10] = 1 /\ \A i \in 1..9 : e[i] >= 128
  BY NegativeIs
<1>2. /\ tag \in 0..127 /\ tag = 8 * two + zero /\ two \in 0..15 /\ zero \in types
      /\ zero \in 0..7 /\ p = o + 1 /\ p \in Nat
  OBVIOUS
<1> HIDE DEF e, tag, p
<1>n. negative_field = Then(encode_varint[tag], e)
  BY DEF negative_field, tag, e
<1>3. Tagged(d, o, tag, e)
  <2>1. At(d, o, Then(encode_varint[tag], e))
    BY <1>n
  <2> QED
    BY <1>1, <1>2, <2>1, TagAndRest
<1>4. At(d, p, e) /\ Len(negative_field) = 11
  <2>1. At(d, o + 1, e) /\ Len(negative_field) = 1 + Len(e)
    BY <1>n, <1>3 DEF Tagged
  <2> QED
    BY <1>1, <1>2, <2>1
<1>5. value.error = "none" /\ value.offset = p + 10
  BY <1>1, <1>2, <1>4, TenBytesRead
<1>6. end = Skipped(d, zero, o + 1, value)
  BY <1>2, <1>5 DEF Skipped
<1>7. end \in (o + 1)..Len(d) /\ end \in (o + 2)..Len(d)
  <2>1. p + 10 <= Len(d)
    BY <1>1, <1>4 DEF At
  <2> QED
    BY <1>2, <2>1, LenProperties
<1>8. value = decode_varint(d, o + 1, MaxVarintBytes)
  BY <1>2
<1>9. decode_varint(d, o, MaxVarintBytes) = Decoded(o + 1, 8 * two + zero)
  BY <1>2, <1>3 DEF Tagged
<1> HIDE DEF value, end, two, zero, types
<1>10. FieldThere(d, o, types, two, zero, value, end)
  BY <1>2, <1>5, <1>6, <1>7, <1>8, <1>9 DEF FieldThere
<1>11. field_at(d, o, types) = Field(two, zero, value, end)
  BY <1>10, FieldRead
<1>12. end = o + Len(negative_field)
  BY <1>4 DEF end
<1> QED
  BY <1>7, <1>11, <1>12 DEF NegativeRead, two, zero, types

\* A field of a varint is passed over, or found.
FoundOrPassed(f, o, number, n, v) ==
  f[o] = IF n = number THEN [error |-> "none", value |-> v]
         ELSE f[o + Len(value_field(n, v))]

\* One of both happens.
LEMMA FindAtValue ==
  ASSUME NEW d \in Seq(Nat), NEW o \in Nat, NEW number, NEW f, Finder(d, number, {0}, f),
         NEW n \in 0..15, NEW v, Fits(v), At(d, o, value_field(n, v))
  PROVE  FoundOrPassed(f, o, number, n, v)
<1> DEFINE types == {0}
           end == o + Len(value_field(n, v))
<1>1. ValueRead(d, o, types, n, v)
  <2>1. 0 \in types
    OBVIOUS
  <2> HIDE DEF types
  <2> QED
    BY <2>1, ValueFieldRead
<1>2. field_at(d, o, {0}) = Field(n, 0, Decoded(end, v), end) /\ end \in (o + 2)..Len(d)
  BY <1>1 DEF ValueRead
<1>3. o < Len(d)
  <2> HIDE DEF end
  <2>1. Len(d) \in Nat
    BY LenProperties
  <2> QED
    BY <1>2, <2>1
<1> HIDE DEF end
<1>4. CASE n = number
  <2>1. f[o] = [error |-> "none", value |-> v]
    BY <1>2, <1>3, <1>4, FindEnds
  <2> QED
    BY <1>4, <2>1 DEF FoundOrPassed
<1>5. CASE n # number
  <2>1. f[o] = f[end]
    BY <1>2, <1>3, <1>5, FindPasses
  <2> QED
    BY <1>5, <2>1 DEF end, FoundOrPassed
<1> QED
  BY <1>4, <1>5

\* The first reader of a payload.
LEMMA FinderExists ==
  ASSUME NEW d \in Seq(Nat), NEW number
  PROVE  \E f : first_field(d, number, 0) = f[0] /\ Finder(d, number, {0}, f)
<1>1. Len(d) \in Nat
  BY LenProperties
<1>2. PICK f : /\ first_field(d, number, 0) = f[0]
               /\ \A o \in 0..Len(d) : f[o] = FoundAt(d, number, 0, o, f)
  BY <1>1, FindIs
<1> QED
  BY <1>2 DEF Finder

\* The acknowledgement of a heartbeat is found behind its time, or is missing.
LEMMA HeartbeatIsRead ==
  ASSUME NEW now, NEW ack, Fits(now), Fits(ack)
  PROVE  /\ first_field(build_time_request_payload(now, <<ack>>), 4, 0).value = ack
         /\ first_field(build_time_request_payload(now, <<>>), 4, 0).error = "missing"
<1> DEFINE x == value_field(1, now)
           y == value_field(4, ack)
           d == Then(x, y)
           k == Len(x)
<1>1. now \in Nat /\ ack \in Nat
  BY DEF Fits
<1>2. build_time_request_payload(now, <<ack>>) = d
  <2>1. ~(now < 0) /\ ~(ack < 0) /\ <<ack>>[1] = ack /\ <<ack>> # <<>>
    BY <1>1
  <2>2. encode_protobuf_varint(1, now) = x
    BY <2>1 DEF encode_protobuf_varint, value_field
  <2>3. encode_protobuf_varint(4, ack) = y
    BY <2>1 DEF encode_protobuf_varint, value_field
  <2> HIDE DEF x, y
  <2> QED
    BY <2>1, <2>2, <2>3 DEF build_time_request_payload, Then
<1>3. build_time_request_payload(now, <<>>) = x
  <2>1. ~(now < 0)
    BY <1>1
  <2>2. encode_protobuf_varint(1, now) = x
    BY <2>1 DEF encode_protobuf_varint, value_field
  <2>3. x \in Seq(Nat)
    BY <1>1, FieldsAre
  <2> HIDE DEF x
  <2>4. x \o <<>> = x
    BY <2>3, ConcatEmptySeq
  <2> QED
    BY <2>2, <2>4 DEF build_time_request_payload
<1>4. x \in Seq(Nat) /\ y \in Seq(Nat)
  BY <1>1, FieldsAre
<1> DEFINE one == 1
           four == 4
<1>5. one \in 0..15 /\ four \in 0..15 /\ one # four
  OBVIOUS
<1>6. x = value_field(one, now) /\ y = value_field(four, ack)
  OBVIOUS
<1> HIDE DEF x, y, one
<1>7. d \in Seq(Nat) /\ k \in Nat /\ k = Len(x) /\ Len(d) \in Nat
  BY <1>4, ThenIsBytes, LenProperties
<1> HIDE DEF d, k
<1>8. first_field(d, 4, 0).value = ack
  <2>1. BothAt(d, 0, x, y)
    <3>1. At(d, 0, d)
      BY <1>7 DEF At
    <3> QED
      BY <1>4, <1>7, <3>1, AtThen DEF d
  <2>2. At(d, 0, x) /\ At(d, k, y)
    BY <1>7, <2>1 DEF BothAt
  <2>3. PICK f : first_field(d, four, 0) = f[0] /\ Finder(d, four, {0}, f)
    BY <1>7, FinderExists
  <2> HIDE DEF four
  <2>4. FoundOrPassed(f, 0, four, one, now) /\ FoundOrPassed(f, k, four, four, ack)
    BY <1>5, <1>6, <1>7, <2>2, <2>3, FindAtValue
  <2>5. f[k] = [error |-> "none", value |-> ack]
    BY <2>4 DEF FoundOrPassed
  <2>6. f[0] = f[k]
    <3>1. f[0] = f[0 + Len(x)]
      BY <1>5, <1>6, <2>4 DEF FoundOrPassed
    <3> QED
      BY <1>7, <3>1
  <2>7. first_field(d, four, 0).value = ack
    BY <2>3, <2>5, <2>6
  <2> QED
    BY <2>7 DEF four
<1>9. first_field(x, 4, 0).error = "missing"
  <2>1. At(x, 0, x)
    BY <1>4, <1>7 DEF At
  <2>2. PICK f : /\ first_field(x, four, 0) = f[0]
                 /\ \A o \in 0..Len(x) : f[o] = FoundAt(x, four, 0, o, f)
    BY <1>7, FindIs
  <2>3. Finder(x, four, {0}, f)
    BY <2>2 DEF Finder
  <2> HIDE DEF four
  <2>4. f[0] = f[0 + Len(x)]
    <3>1. FoundOrPassed(f, 0, four, one, now)
      BY <1>4, <1>5, <1>6, <2>1, <2>3, FindAtValue
    <3> QED
      BY <1>5, <1>6, <3>1 DEF FoundOrPassed
  <2>5. f[Len(x)] = Raised("missing")
    <3>1. Len(x) \in 0..Len(x)
      BY <1>7
    <3> QED
      BY <2>2, <3>1 DEF FoundAt
  <2>6. f[0] = Raised("missing")
    BY <1>7, <2>4, <2>5
  <2> QED
    BY <2>2, <2>6 DEF Raised, four
<1> QED
  BY <1>2, <1>3, <1>8, <1>9

\* The times of a time sync are found, in front of and behind the negative one.
LEMMA TimeSyncIsRead ==
  ASSUME NEW now, NEW asked, Fits(now), Fits(asked)
  PROVE  /\ first_field(build_time_sync_response(now, asked), 1, 0).value = asked
         /\ first_field(build_time_sync_response(now, asked), 3, 0).value = now
<1> DEFINE x == value_field(1, asked)
           e == negative_field
           y == value_field(3, now)
           xe == Then(x, e)
           d == Then(xe, y)
           k == Len(x)
           l == Len(xe)
           one == 1
           three == 3
<1>1. now \in Nat /\ asked \in Nat
  BY DEF Fits
<1>2. build_time_sync_response(now, asked) = d
  <2>1. ~(now < 0) /\ ~(asked < 0) /\ -30 < 0 /\ 8 * 2 = 16
    BY <1>1
  <2>2. encode_protobuf_varint(1, asked) = x /\ encode_protobuf_varint(3, now) = y
    BY <2>1 DEF encode_protobuf_varint, value_field
  <2>3. encode_protobuf_varint(2, -30) = e
    BY <2>1 DEF encode_protobuf_varint, negative_field, Then
  <2> HIDE DEF x, e, y
  <2> QED
    BY <2>2, <2>3 DEF build_time_sync_response, Then
<1>3. x \in Seq(Nat) /\ y \in Seq(Nat) /\ e \in Seq(Nat)
  <2>1. x \in Seq(Nat) /\ y \in Seq(Nat)
    BY <1>1, FieldsAre
  <2>2. EncodeNegative(-30) \in Seq(Nat) /\ encode_varint[16] \in Seq(Nat)
    BY NegativeIs, EncodingIsBytes
  <2>3. e \in Seq(Nat)
    BY <2>2, ThenIsBytes DEF negative_field
  <2> QED
    BY <2>1, <2>3
<1>4. one \in 0..15 /\ three \in 0..15 /\ one # three /\ three # 2
  OBVIOUS
<1>5. x = value_field(one, asked) /\ y = value_field(three, now) /\ e = negative_field
  OBVIOUS
<1> HIDE DEF x, e, y, one
<1>6. xe \in Seq(Nat)
  BY <1>3, ThenIsBytes
<1> HIDE DEF xe
<1>7. d \in Seq(Nat)
  BY <1>3, <1>6, ThenIsBytes
<1> HIDE DEF d
<1>8. /\ k \in Nat /\ l \in Nat
      /\ At(d, 0, x) /\ At(d, k, e) /\ At(d, l, y) /\ l = k + Len(e)
  <2>1. At(d, 0, d) /\ k \in Nat /\ l \in Nat
    BY <1>3, <1>6, <1>7, LenProperties DEF At
  <2>2. BothAt(d, 0, xe, y)
    BY <1>3, <1>6, <1>7, <2>1, AtThen DEF d
  <2>3. At(d, 0, xe) /\ At(d, l, y)
    BY <2>1, <2>2 DEF BothAt
  <2>4. BothAt(d, 0, x, e)
    BY <1>3, <1>7, <2>3, AtThen DEF xe
  <2>5. Len(Then(x, e)) = Len(x) + Len(e)
    BY <2>4 DEF BothAt
  <2>6. At(d, 0, x) /\ At(d, k, e)
    BY <2>1, <2>4 DEF BothAt
  <2> QED
    BY <2>1, <2>3, <2>5, <2>6 DEF xe
<1> HIDE DEF k, l
<1>9. first_field(d, 1, 0).value = asked
  <2>1. PICK f : first_field(d, one, 0) = f[0] /\ Finder(d, one, {0}, f)
    BY <1>7, FinderExists
  <2>2. FoundOrPassed(f, 0, one, one, asked)
    BY <1>4, <1>5, <1>7, <1>8, <2>1, FindAtValue
  <2>3. first_field(d, one, 0).value = asked
    BY <2>1, <2>2 DEF FoundOrPassed
  <2> QED
    BY <2>3 DEF one
<1>10. first_field(d, 3, 0).value = now
  <2>1. PICK f : first_field(d, three, 0) = f[0] /\ Finder(d, three, {0}, f)
    BY <1>7, FinderExists
  <2> HIDE DEF three
  <2>2. FoundOrPassed(f, 0, three, one, asked) /\ FoundOrPassed(f, l, three, three, now)
    BY <1>4, <1>5, <1>7, <1>8, <2>1, FindAtValue
  <2>3. f[0] = f[k]
    <3>1. f[0] = f[0 + Len(x)]
      BY <1>4, <1>5, <2>2 DEF FoundOrPassed
    <3> QED
      BY <1>8, <3>1 DEF k
  <2>4. f[k] = f[l]
    <3>1. NegativeRead(d, k)
      BY <1>5, <1>7, <1>8, NegativeFieldRead
    <3> DEFINE end == k + Len(negative_field)
    <3>2. PICK value : field_at(d, k, {0}) = Field(2, 0, value, end)
      BY <3>1 DEF NegativeRead
    <3>3. end \in (k + 2)..Len(d) /\ end = l
      BY <1>5, <1>8, <3>1 DEF NegativeRead
    <3> HIDE DEF end
    <3>4. k < Len(d)
      BY <1>7, <1>8, <3>3, LenProperties
    <3>5. f[k] = f[end]
      <4> DEFINE two == 2
      <4>1. field_at(d, k, {0}) = Field(two, 0, value, end) /\ two # three
        BY <1>4, <3>2
      <4> HIDE DEF two
      <4> QED
        BY <1>7, <1>8, <2>1, <3>4, <4>1, FindPasses
    <3> QED
      BY <3>3, <3>5
  <2>5. f[l] = [error |-> "none", value |-> now]
    BY <2>2 DEF FoundOrPassed
  <2>6. first_field(d, three, 0).value = now
    BY <2>1, <2>3, <2>4, <2>5
  <2> QED
    BY <2>6 DEF three
<1> QED
  BY <1>2, <1>9, <1>10

\* A field of bytes is found.
LEMMA BytesAreRead ==
  ASSUME NEW x \in Seq(Nat), Len(x) < 128
  PROVE  first_field(bytes_field(1, x), 1, 2).value = x
<1> DEFINE d == bytes_field(1, x)
           types == {2}
           one == 1
           k == Len(x)
           value == Decoded(2, k)
           end == Len(d)
<1>1. d \in Seq(Nat) /\ d = bytes_field(one, x) /\ 2 \in types /\ one \in 0..15
  BY FieldsAre
<1>2. k \in Nat /\ end \in Nat /\ At(d, 0, d)
  <2> HIDE DEF d
  <2> QED
    BY <1>1, LenProperties DEF At
<1> HIDE DEF d, types, one
<1>3. BytesRead(d, 0, types, one, x)
  BY <1>1, <1>2, BytesFieldRead
<1>4. /\ field_at(d, 0, types) = Field(one, 2, value, end)
      /\ At(d, 2, x) /\ end = 2 + k /\ end > 0
  <2>1. 0 + Len(d) = end /\ 0 + 2 = 2 /\ 0 + 2 + k = 2 + k
    BY <1>2
  <2> QED
    BY <1>1, <1>2, <1>3, <2>1 DEF BytesRead
<1>5. PICK f : /\ first_field(d, one, 2) = f[0]
               /\ \A o \in 0..end : f[o] = FoundAt(d, one, 2, o, f)
  BY <1>2, FindIs
<1>6. f[0] = FoundAt(d, one, 2, 0, f) /\ 0 # end
  BY <1>2, <1>4, <1>5
<1> DEFINE field == Field(one, 2, value, end)
<1>7. /\ field.error = "none" /\ field.number = one /\ field.varint.offset = 2
      /\ field.end = end
  BY DEF Field, Decoded
<1>8. field_at(d, 0, {2}) = field
  BY <1>4 DEF types
<1> HIDE DEF field, value
<1>9. f[0].value = SubSeq(d, 2 + 1, end)
  <2>1. 2 # 0
    OBVIOUS
  <2>2. f[0] = [error |-> "none", value |-> SubSeq(d, 2 + 1, end)]
    BY <1>6, <1>7, <1>8, <2>1 DEF FoundAt
  <2> QED
    BY <2>2
<1>10. SubSeq(d, 2 + 1, end) = x
  <2>1. \A i \in 1..k : d[2 + i] = x[i]
    BY <1>4 DEF At
  <2> HIDE DEF k
  <2>2. SubSeq(d, 2 + 1, 2 + k) = [i \in 1..k |-> d[2 + i]]
    BY <1>1, <1>2, <1>4
  <2>3. x = [i \in 1..k |-> x[i]]
    BY DEF k
  <2>4. [i \in 1..k |-> d[2 + i]] = [i \in 1..k |-> x[i]]
    BY <2>1
  <2> QED
    BY <1>4, <2>2, <2>3, <2>4
<1>11. first_field(d, one, 2).value = x
  BY <1>5, <1>9, <1>10
<1> QED
  BY <1>11 DEF d, one

\* The values of the enumerations are small.
Small(values, name) == values[name] \in Nat /\ values[name] < 128

\* All of them are.
LEMMA EnumerationsAreSmall ==
  ASSUME NEW i \in 1..Len(EnumValues), NEW name \in DOMAIN EnumValues[i]
  PROVE  Small(EnumValues[i], name)
<1>1. Len(EnumValues) = 4
  BY DEF EnumValues
<1>2. i = 1 \/ i = 2 \/ i = 3 \/ i = 4
  BY <1>1
<1>3. /\ EnumValues[1] = NIGHT_VALUES /\ EnumValues[2] = FLIP_VALUES
      /\ EnumValues[3] = VIDEO_QUALITY_VALUES /\ EnumValues[4] = MOTION_VALUES
  BY DEF EnumValues
<1>4. \A n \in DOMAIN NIGHT_VALUES : Small(NIGHT_VALUES, n)
  <2>1. DOMAIN NIGHT_VALUES = {"automatic", "enabled", "disabled"}
    BY DEF NIGHT_VALUES
  <2>2. \A n \in {"automatic", "enabled", "disabled"} : Small(NIGHT_VALUES, n)
    BY DEF NIGHT_VALUES, Small
  <2> QED
    BY <2>1, <2>2
<1>5. \A n \in DOMAIN FLIP_VALUES : Small(FLIP_VALUES, n)
  <2>1. DOMAIN FLIP_VALUES = {"upright", "horizontal", "vertical", "rotate_180"}
    BY DEF FLIP_VALUES
  <2>2. \A n \in {"upright", "horizontal", "vertical", "rotate_180"} : Small(FLIP_VALUES, n)
    BY DEF FLIP_VALUES, Small
  <2> QED
    BY <2>1, <2>2
<1>6. \A n \in DOMAIN VIDEO_QUALITY_VALUES : Small(VIDEO_QUALITY_VALUES, n)
  <2>1. DOMAIN VIDEO_QUALITY_VALUES = {"sd", "hd", "uhd"}
    BY DEF VIDEO_QUALITY_VALUES
  <2>2. \A n \in {"sd", "hd", "uhd"} : Small(VIDEO_QUALITY_VALUES, n)
    BY DEF VIDEO_QUALITY_VALUES, Small
  <2> QED
    BY <2>1, <2>2
<1>7. \A n \in DOMAIN MOTION_VALUES : Small(MOTION_VALUES, n)
  <2>1. DOMAIN MOTION_VALUES = {"high", "medium", "low", "closed"}
    BY DEF MOTION_VALUES
  <2>2. \A n \in {"high", "medium", "low", "closed"} : Small(MOTION_VALUES, n)
    BY DEF MOTION_VALUES, Small
  <2> QED
    BY <2>1, <2>2
<1> QED
  BY <1>2, <1>3, <1>4, <1>5, <1>6, <1>7

\* The name of a value is read back.
LEMMA NamesAreReadBack ==
  ASSUME NEW i \in 1..Len(EnumValues), NEW name \in DOMAIN EnumValues[i]
  PROVE  readback(EnumValues[i], value_field(1, EnumValues[i][name])) = name
<1> DEFINE values == EnumValues[i]
           v == values[name]
           payload == value_field(1, v)
           names == DOMAIN values
<1>1. v \in Nat /\ v < 2^28
  <2>1. v \in Nat /\ v < 128
    BY EnumerationsAreSmall DEF Small
  <2> HIDE DEF v
  <2> QED
    BY <2>1
<1>2. \A other \in names : other # name => values[other] # v
  <2>1. Injective(values, Options[i])
    BY EnumerationsAre
  <2> QED
    BY <2>1 DEF Injective
<1> HIDE DEF v
<1>3. Fits(v)
  BY <1>1, SmallFits
<1>4. Then(Nothing, payload) = payload
  <2>1. payload \in Seq(Nat)
    BY <1>1, FieldsAre
  <2> HIDE DEF payload
  <2> QED
    BY <2>1, ThenNothing
<1>5. read_response_value(payload) = [error |-> "none", value |-> v]
  <2>1. read_response_value(Then(Nothing, payload)) = [error |-> "none", value |-> v]
    BY <1>3, SkipsNothing, AnswerIsRead
  <2> QED
    BY <1>4, <2>1
<1> HIDE DEF values, payload
<1> DEFINE read == read_response_value(payload)
<1>6. read.error = "none" /\ read.value = v
  BY <1>5
<1>7. values[name] = v /\ name \in names
  BY DEF v, values
<1>8. (CHOOSE n \in names : values[n] = v) = name
  BY <1>2, <1>7
<1>9. readback(values, payload) =
        IF read.error # "none" THEN "ValueError"
        ELSE IF \E n \in names : values[n] = read.value
        THEN CHOOSE n \in names : values[n] = read.value
        ELSE "CameraError"
  BY Zenon DEF readback
<1> HIDE DEF read
<1>10. readback(values, payload) = name
  BY <1>6, <1>7, <1>8, <1>9
<1> QED
  BY <1>10 DEF values, payload, v

\* Whatever numbers below 2^63 there are, a field is found by its number behind all other
\* fields that may stand before it, a cut answer is refused, and an answer is shown as the
\* name of its value (_first_varint_field, _first_bytes_field, read_response_value,
\* CameraSession._get).
THEOREM FieldsAreReadBack == Spec => []FieldsReadBack
<1>1. \A n \in Numbers : Fits(n)
  BY NumbersAssumption DEF Fits
<1>2. ASSUME NEW now \in Numbers, NEW ack \in Numbers
      PROVE  /\ first_field(build_time_request_payload(now, <<ack>>), 4, 0).value = ack
             /\ first_field(build_time_request_payload(now, <<>>), 4, 0).error = "missing"
             /\ first_field(build_time_sync_response(now, ack), 1, 0).value = ack
             /\ first_field(build_time_sync_response(now, ack), 3, 0).value = now
  BY <1>1, HeartbeatIsRead, TimeSyncIsRead
<1>3. first_field(bytes_field(1, <<102, 48>>), 1, 2).value = <<102, 48>>
  <2> DEFINE x == <<102, 48>>
  <2>1. x \in Seq(Nat) /\ Len(x) < 128
    OBVIOUS
  <2> HIDE DEF x
  <2>2. first_field(bytes_field(1, x), 1, 2).value = x
    BY <2>1, BytesAreRead
  <2> QED
    BY <2>2 DEF x
<1>4. ASSUME NEW others \in Others, NEW value \in Numbers
      PROVE  LET answer == others \o others \o value_field(1, value)
             IN /\ read_response_value(answer) = [error |-> "none", value |-> value]
                /\ \A n \in (2 * Len(others) + 1)..(Len(answer) - 1) :
                     read_response_value(SubSeq(answer, 1, n)).error = "truncated"
                /\ read_response_value(others).value = -1
  BY <1>1, AnswersAreRead
<1>5. EveryFieldReadsBack
  BY <1>2, <1>3, <1>4, NamesAreReadBack, Zenon DEF EveryFieldReadsBack, Others
<1>6. FieldsReadBack
  BY <1>5 DEF FieldsReadBack
<1> QED
  BY <1>6, PTL
=============================================================================
