-------------------------- MODULE MediaStateProofs --------------------------
(***************************************************************************)
(* For any viewers and listeners, any backlog and any number of frames,    *)
(* chunks and lost connections: the pictures of MediaState go forward, and *)
(* so does the sound, without a gap for who keeps up with the backlog.     *)
(***************************************************************************)
EXTENDS MediaState, SelectionProofs

\* The variables of the clients are functions.
Shapes ==
  /\ DOMAIN cpc = Clients /\ DOMAIN path = Clients
  /\ DOMAIN cursor = Clients /\ DOMAIN batch = Clients /\ DOMAIN written = Clients

\* What a client has been shown is not newer than its cursor, and older when it has
\* taken a frame that is still to be written.
ShownUpTo(v) ==
  \A j \in 1..Len(written[v]) :
    IF cpc[v] = "write" THEN written[v][j] < cursor[v] ELSE written[v][j] <= cursor[v]

GoesForward(v) == \A j \in 2..Len(written[v]) : written[v][j] > written[v][j - 1]

Viewing(v) ==
  /\ path[v] # "audio.alaw"
  /\ cursor[v] \in Nat /\ cursor[v] <= frame_id
  /\ written[v] \in Seq(Nat)
  /\ cpc[v] = "new" => written[v] = <<>>
  /\ cpc[v] = "write" => batch[v] = <<cursor[v]>>
  /\ ShownUpTo(v)
  /\ GoesForward(v)

IInv == Shapes /\ frame_id \in Nat /\ \A v \in Viewers : Viewing(v)

\* Nobody has been shown anything at first.
LEMMA InitHolds == Init => IInv
<1> SUFFICES ASSUME Init PROVE IInv
  OBVIOUS
<1>1. Shapes /\ frame_id \in Nat
  BY DEF Init, Shapes
<1>2. ASSUME NEW v \in Viewers PROVE Viewing(v)
  <2>1. /\ frame_id = 0 /\ cpc[v] = "new" /\ path[v] = "none" /\ cursor[v] = 0
        /\ written[v] = <<>>
    BY DEF Init, Clients
  <2>2. path[v] # "audio.alaw"
    BY <2>1
  <2>3. Len(written[v]) = 0
    BY <2>1
  <2>4. ShownUpTo(v) /\ GoesForward(v)
    BY <2>3 DEF ShownUpTo, GoesForward
  <2> QED
    BY <2>1, <2>2, <2>4 DEF Viewing
<1> QED
  BY <1>1, <1>2 DEF IInv

-----------------------------------------------------------------------------
(* What a step does to one viewer.                                         *)

\* Whoever leaves the fields of a viewer alone, or wakes it, keeps its part.
LEMMA WakingKeepsIt ==
  ASSUME NEW v, Viewing(v), frame_id \in Nat, frame_id' \in Nat, frame_id' >= frame_id,
         path'[v] = path[v], cursor'[v] = cursor[v], batch'[v] = batch[v],
         written'[v] = written[v],
         cpc'[v] = cpc[v] \/ (cpc[v] # "new" /\ cpc[v] # "write" /\ cpc'[v] # "write"
                              /\ cpc'[v] # "new")
  PROVE  Viewing(v)'
<1>1. /\ path'[v] # "audio.alaw" /\ cursor'[v] \in Nat /\ cursor'[v] <= frame_id'
      /\ written'[v] \in Seq(Nat) /\ GoesForward(v)'
  BY DEF Viewing, GoesForward
<1>2. /\ cpc'[v] = "new" => written'[v] = <<>>
      /\ cpc'[v] = "write" => batch'[v] = <<cursor'[v]>>
  BY DEF Viewing
<1>3. ShownUpTo(v)'
  BY DEF Viewing, ShownUpTo
<1> QED
  BY <1>1, <1>2, <1>3 DEF Viewing

\* A client that connects has been shown nothing.
LEMMA ConnectingKeepsIt ==
  ASSUME NEW v \in Viewers, IInv, Connect(v)
  PROVE  Viewing(v)'
<1>1. v \in Clients /\ v \notin Listeners
  BY ClientsAssumption DEF Clients
<1>2. /\ cpc[v] = "new" /\ cpc'[v] = "check" /\ cursor'[v] = 0
      /\ frame_id' = frame_id /\ written' = written
  BY <1>1 DEF Connect, IInv, Shapes, mediaVars
<1>3. path'[v] # "audio.alaw"
  BY <1>1 DEF Connect, IInv, Shapes
<1>4. written[v] = <<>> /\ frame_id \in Nat
  BY <1>2 DEF IInv, Viewing
<1> QED
  BY <1>2, <1>3, <1>4 DEF Viewing, ShownUpTo, GoesForward

\* A frame is taken only when it is newer than the last one taken.
LEMMA TakingKeepsIt ==
  ASSUME NEW v \in Viewers, IInv, cpc[v] = "check", TakeFrame(v),
         path' = path, written' = written, frame_id' = frame_id
  PROVE  Viewing(v)'
<1>1. Shapes /\ frame_id \in Nat /\ Viewing(v) /\ v \in Clients
  BY DEF IInv, Clients
<1>2. CASE frame_id = cursor[v] /\ Sleep(v)
  <2>1. cpc'[v] = "asleep" /\ cursor' = cursor /\ batch' = batch
    BY <1>1, <1>2 DEF Sleep, Shapes
  <2> QED
    BY <1>1, <2>1, WakingKeepsIt
<1>3. CASE ~(frame_id = cursor[v] /\ Sleep(v))
  <2>1. /\ frame_id # cursor[v] /\ cpc'[v] = "write" /\ cursor'[v] = frame_id
        /\ batch'[v] = <<frame_id>>
    BY <1>1, <1>3 DEF TakeFrame, Shapes
  <2>2. cursor[v] < frame_id /\ cursor[v] \in Nat
    BY <1>1, <2>1 DEF Viewing
  <2>3. ShownUpTo(v)'
    <3> SUFFICES ASSUME NEW j \in 1..Len(written[v])
                 PROVE  written[v][j] < frame_id
      BY <2>1 DEF ShownUpTo
    <3>1. written[v][j] <= cursor[v] /\ written[v][j] \in Nat
      BY <1>1 DEF Viewing, ShownUpTo
    <3> QED
      BY <1>1, <2>2, <3>1
  <2>4. GoesForward(v)' /\ written'[v] \in Seq(Nat) /\ path'[v] # "audio.alaw"
    BY <1>1 DEF Viewing, GoesForward
  <2> QED
    BY <1>1, <2>1, <2>3, <2>4 DEF Viewing
<1> QED
  BY <1>2, <1>3

\* The frame written is newer than all those before it.
LEMMA WritingKeepsIt ==
  ASSUME NEW v \in Viewers, IInv, Write(v)
  PROVE  Viewing(v)'
<1>1. Shapes /\ frame_id \in Nat /\ Viewing(v) /\ v \in Clients
  BY DEF IInv, Clients
<1>2. /\ batch[v] = <<cursor[v]>> /\ cursor[v] \in Nat /\ written[v] \in Seq(Nat)
      /\ \A j \in 1..Len(written[v]) : written[v][j] < cursor[v]
  BY <1>1 DEF Write, Viewing, ShownUpTo
<1>3. Head(batch[v]) = cursor[v] /\ Len(batch[v]) = 1
  BY <1>2
<1>4. /\ written'[v] = Append(written[v], cursor[v]) /\ cursor'[v] = cursor[v]
      /\ cpc'[v] \in {"answered", "check"}
      /\ path' = path /\ frame_id' = frame_id
  BY <1>1, <1>3 DEF Write, Shapes, mediaVars
<1>5. /\ written'[v] \in Seq(Nat) /\ Len(written'[v]) = Len(written[v]) + 1
      /\ Len(written[v]) \in Nat
      /\ written'[v][Len(written[v]) + 1] = cursor[v]
      /\ \A j \in 1..Len(written[v]) : written'[v][j] = written[v][j]
  BY <1>2, <1>4, AppendProperties
<1>6. ShownUpTo(v)'
  <2> SUFFICES ASSUME NEW j \in 1..Len(written'[v]) PROVE written'[v][j] <= cursor[v]
    BY <1>4 DEF ShownUpTo
  <2>1. CASE j = Len(written[v]) + 1
    BY <1>2, <1>5, <2>1
  <2>2. CASE j # Len(written[v]) + 1
    <3>1. j \in 1..Len(written[v])
      BY <1>5, <2>2
    <3>2. written[v][j] < cursor[v] /\ written[v][j] \in Nat
      BY <1>2, <3>1
    <3> QED
      BY <1>2, <1>5, <3>1, <3>2
  <2> QED
    BY <2>1, <2>2
<1>7. GoesForward(v)'
  <2> SUFFICES ASSUME NEW j \in 2..Len(written'[v])
               PROVE  written'[v][j] > written'[v][j - 1]
    BY DEF GoesForward
  <2>0. j - 1 \in 1..Len(written[v])
    BY <1>5
  <2>1. CASE j = Len(written[v]) + 1
    <3>1. written'[v][j] = cursor[v]
      BY <1>5, <2>1
    <3>2. written'[v][j - 1] = written[v][j - 1]
      BY <1>5, <2>0
    <3>3. written[v][j - 1] < cursor[v] /\ written[v][j - 1] \in Nat
      BY <1>2, <2>0
    <3> QED
      BY <1>2, <3>1, <3>2, <3>3
  <2>2. CASE j # Len(written[v]) + 1
    <3>1. j \in 2..Len(written[v]) /\ j \in 1..Len(written[v])
      BY <1>5, <2>2
    <3>2. written[v][j] > written[v][j - 1]
      BY <1>1, <3>1 DEF Viewing, GoesForward
    <3>3. written'[v][j] = written[v][j] /\ written'[v][j - 1] = written[v][j - 1]
      BY <1>5, <2>0, <3>1
    <3> QED
      BY <3>2, <3>3
  <2> QED
    BY <2>1, <2>2
<1>8. path'[v] # "audio.alaw" /\ cursor'[v] \in Nat /\ cursor'[v] <= frame_id'
  BY <1>1, <1>4 DEF Viewing
<1> QED
  BY <1>4, <1>5, <1>6, <1>7, <1>8 DEF Viewing

\* A client that has left its loop, or left out a frame, is shown nothing more of it.
LEMMA DroppingKeepsIt ==
  ASSUME NEW v \in Viewers, IInv, cpc[v] = "write", cpc'[v] \in {"check", "gone", "refused"},
         path' = path, cursor' = cursor, written' = written, frame_id' = frame_id
  PROVE  Viewing(v)'
<1>1. Viewing(v) /\ frame_id \in Nat
  BY DEF IInv
<1>2. ShownUpTo(v)'
  <2> SUFFICES ASSUME NEW j \in 1..Len(written[v]) PROVE written[v][j] <= cursor[v]
    BY DEF ShownUpTo
  <2>1. written[v][j] < cursor[v] /\ written[v][j] \in Nat /\ cursor[v] \in Nat
    BY <1>1 DEF Viewing, ShownUpTo
  <2> QED
    BY <2>1
<1> QED
  BY <1>1, <1>2 DEF Viewing, GoesForward

-----------------------------------------------------------------------------
(* The steps of the system.                                                *)

\* A step of a client of its own.
LEMMA OwnStepKeepsIt ==
  ASSUME NEW v \in Viewers, IInv, Client(v)
  PROVE  Viewing(v)'
<1>0. Shapes /\ frame_id \in Nat /\ Viewing(v) /\ v \in Clients
  BY DEF IInv, Clients
<1>1. CASE Connect(v)
  BY <1>1, ConnectingKeepsIt
<1>2. CASE Take(v)
  <2>1. path' = path /\ written' = written /\ frame_id' = frame_id /\ cpc[v] = "check"
    BY <1>2 DEF Take, mediaVars
  <2>2. CASE TakeFrame(v)
    BY <2>1, <2>2, TakingKeepsIt
  <2>3. CASE ~TakeFrame(v)
    <3>1. TakeSnapshot(v)
      BY <1>0, <1>2, <2>3 DEF Take, Viewing
    <3>2. cpc'[v] = "refused" /\ UNCHANGED <<cursor, batch>>
      BY <1>0, <2>3, <3>1 DEF TakeSnapshot, Shapes
    <3> QED
      BY <1>0, <2>1, <3>2, WakingKeepsIt
  <2> QED
    BY <2>2, <2>3
<1>3. CASE WaitTimesOut(v)
  <2>1. /\ cpc[v] = "asleep" /\ cpc'[v] = "check" /\ frame_id' = frame_id
        /\ UNCHANGED <<path, cursor, batch, written>>
    BY <1>0, <1>3 DEF WaitTimesOut, Shapes, mediaVars
  <2> QED
    BY <1>0, <2>1, WakingKeepsIt
<1>4. CASE DeadlinePasses(v)
  <2>1. /\ cpc[v] \in {"check", "asleep"} /\ cpc'[v] = "check" /\ frame_id' = frame_id
        /\ UNCHANGED <<path, cursor, batch, written>>
    BY <1>0, <1>4 DEF DeadlinePasses, Shapes, mediaVars
  <2> QED
    BY <1>0, <2>1, WakingKeepsIt
<1>5. CASE Write(v)
  BY <1>5, WritingKeepsIt
<1>6. CASE SkipFrame(v)
  <2>1. /\ cpc[v] = "write" /\ cpc'[v] = "check" /\ frame_id' = frame_id
        /\ UNCHANGED <<path, cursor, written>>
    BY <1>0, <1>6 DEF SkipFrame, Shapes, mediaVars
  <2> QED
    BY <2>1, DroppingKeepsIt
<1>7. CASE ClientGone(v)
  <2>1. /\ cpc[v] = "write" /\ cpc'[v] = "gone" /\ frame_id' = frame_id
        /\ UNCHANGED <<path, cursor, written>>
    BY <1>0, <1>7 DEF ClientGone, Shapes, mediaVars
  <2> QED
    BY <2>1, DroppingKeepsIt
<1> QED
  BY <1>1, <1>2, <1>3, <1>4, <1>5, <1>6, <1>7 DEF Client

\* A step of a client changes nothing of another one.
LEMMA ClientLeavesOthers ==
  ASSUME Shapes, NEW c \in Clients, Client(c)
  PROVE  /\ Shapes' /\ frame_id' = frame_id
         /\ \A v \in Clients \ {c} :
              /\ path'[v] = path[v] /\ cursor'[v] = cursor[v] /\ batch'[v] = batch[v]
              /\ written'[v] = written[v] /\ cpc'[v] = cpc[v]
<1>1. CASE Connect(c)
  BY <1>1 DEF Connect, Shapes, mediaVars
<1>2. CASE Take(c)
  BY <1>2 DEF Take, TakeAudio, TakeFrame, TakeSnapshot, Sleep, Shapes, mediaVars
<1>3. CASE WaitTimesOut(c)
  BY <1>3 DEF WaitTimesOut, Shapes, mediaVars
<1>4. CASE DeadlinePasses(c)
  BY <1>4 DEF DeadlinePasses, Shapes, mediaVars
<1>5. CASE Write(c)
  BY <1>5 DEF Write, Shapes, mediaVars
<1>6. CASE SkipFrame(c)
  BY <1>6 DEF SkipFrame, Shapes, mediaVars
<1>7. CASE ClientGone(c)
  BY <1>7 DEF ClientGone, Shapes, mediaVars
<1> QED
  BY <1>1, <1>2, <1>3, <1>4, <1>5, <1>6, <1>7 DEF Client

\* The other threads publish newer frames and wake the clients that sleep.
LEMMA OthersKeepIt ==
  ASSUME IInv, Session \/ GraceOver \/ Worker \/ StopBridge
  PROVE  IInv'
<1>0. Shapes /\ frame_id \in Nat
  BY DEF IInv
<1>1. frame_id' \in Nat /\ frame_id' >= frame_id
  BY <1>0 DEF Session, SessionUp, SessionFails, Publish, PublishAudio, GraceOver, Worker,
              ReadConnected, SetConnected, WorkerEnds, StopBridge, mediaVars
<1>2. /\ NotifyAll \/ UNCHANGED clientVars
      /\ UNCHANGED <<path, cursor, batch, written>>
  BY DEF Session, SessionUp, SessionFails, Publish, PublishAudio, GraceOver, Worker,
         ReadConnected, SetConnected, WorkerEnds, StopBridge, NotifyAll, clientVars
<1>3. /\ DOMAIN cpc' = Clients
      /\ \A c \in Clients : cpc'[c] = cpc[c] \/ (cpc[c] = "asleep" /\ cpc'[c] = "check")
  BY <1>0, <1>2 DEF NotifyAll, clientVars, Shapes
<1>4. Shapes'
  BY <1>0, <1>2, <1>3 DEF Shapes
<1>5. ASSUME NEW v \in Viewers PROVE Viewing(v)'
  <2>1. Viewing(v) /\ v \in Clients
    BY DEF IInv, Clients
  <2> QED
    BY <1>0, <1>1, <1>2, <1>3, <2>1, WakingKeepsIt
<1> QED
  BY <1>1, <1>4, <1>5 DEF IInv

\* Every step keeps the invariant.
LEMMA StepHolds == IInv /\ [Next]_vars => IInv'
<1>1. ASSUME IInv, NEW c \in Clients, Client(c) PROVE IInv'
  <2>1. Shapes' /\ frame_id' = frame_id /\ frame_id \in Nat
    BY <1>1, ClientLeavesOthers DEF IInv
  <2>2. ASSUME NEW v \in Viewers PROVE Viewing(v)'
    <3>1. CASE v = c
      BY <1>1, <3>1, OwnStepKeepsIt
    <3>2. CASE v # c
      <4>1. v \in Clients \ {c} /\ Viewing(v)
        BY <1>1, <3>2 DEF IInv, Clients
      <4> QED
        BY <1>1, <2>1, <4>1, ClientLeavesOthers, WakingKeepsIt DEF IInv
    <3> QED
      BY <3>1, <3>2
  <2> QED
    BY <2>1, <2>2 DEF IInv
<1>2. IInv /\ UNCHANGED vars => IInv'
  BY DEF IInv, Shapes, Viewing, ShownUpTo, GoesForward, vars, mediaVars, clientVars
<1> QED
  BY <1>1, <1>2, OthersKeepIt DEF Next

\* A viewer never gets a frame twice or an older one after a newer one, whatever is
\* published while it waits and writes and however often the camera reconnects.
THEOREM PicturesInOrder == Spec => []PicturesGoForward
<1>1. IInv => PicturesGoForward
  BY DEF IInv, Viewing, GoesForward, PicturesGoForward
<1> QED
  BY <1>1, InitHolds, StepHolds, PTL DEF Spec

-----------------------------------------------------------------------------
(* The sound.                                                              *)

\* The numbers that follow f, one by one.
Row(s, f) == \A j \in 1..Len(s) : s[j] = f + j

\* The chunks held are the latest ones, as many as there are up to the backlog.
Chunks ==
  /\ audio_id \in Nat /\ audio_chunks \in Seq(Nat)
  /\ Len(audio_chunks) = IF audio_id <= Backlog THEN audio_id ELSE Backlog
  /\ Row(audio_chunks, audio_id - Len(audio_chunks))

\* What a listener has taken follows, without a gap, some number f that is its
\* cursor as long as it has not been overrun.
Ahead(l) ==
  \E f \in Nat :
    /\ f >= cursor[l] /\ f + Len(batch[l]) <= audio_id
    /\ Row(batch[l], f)
    /\ ~overrun[l] => f = cursor[l]

\* What it has written goes up to its cursor, ...
Heard(l) ==
  /\ \A j \in 1..Len(written[l]) :
       written[l][j] > IF j = 1 THEN since[l] ELSE written[l][j - 1]
  /\ cursor[l] = IF written[l] = <<>> THEN since[l] ELSE written[l][Len(written[l])]
  \* ... one by one if it has not been overrun.
  /\ ~overrun[l] => Row(written[l], since[l]) /\ cursor[l] = since[l] + Len(written[l])

Hearing(l) ==
  /\ IF cpc[l] = "new" THEN path[l] = "none" /\ written[l] = <<>> ELSE path[l] = "audio.alaw"
  /\ cpc[l] # "write" => batch[l] = <<>>
  /\ cursor[l] \in Nat /\ since[l] \in Nat
  /\ batch[l] \in Seq(Nat) /\ written[l] \in Seq(Nat)
  /\ Ahead(l)
  /\ Heard(l)

SoundInv ==
  /\ Shapes /\ DOMAIN since = Clients /\ DOMAIN overrun = Clients
  /\ Chunks
  /\ \A l \in Listeners : Hearing(l)
\* A row without its first number is a row.
LEMMA RowTail ==
  ASSUME NEW s \in Seq(Nat), s # <<>>, NEW f \in Nat, Row(s, f)
  PROVE  /\ Head(s) = f + 1 /\ Len(Tail(s)) = Len(s) - 1 /\ Len(s) \in Nat /\ Len(s) > 0
         /\ Tail(s) \in Seq(Nat) /\ Row(Tail(s), f + 1)
<1>1. Len(s) \in Nat /\ Len(s) > 0
  BY EmptySeq
<1>2. /\ Tail(s) \in Seq(Nat) /\ Len(Tail(s)) = Len(s) - 1
      /\ \A i \in 1..Len(Tail(s)) : Tail(s)[i] = s[i + 1]
  BY HeadTailProperties
<1>3. Head(s) = s[1] /\ s[1] = f + 1
  BY <1>1 DEF Row
<1>4. ASSUME NEW i \in 1..Len(Tail(s)) PROVE Tail(s)[i] = f + 1 + i
  <2>1. i + 1 \in 1..Len(s) /\ i \in Nat
    BY <1>1, <1>2
  <2>2. s[i + 1] = f + (i + 1)
    BY <2>1 DEF Row
  <2> QED
    BY <1>2, <2>1, <2>2
<1> QED
  BY <1>1, <1>2, <1>3, <1>4 DEF Row

\* ... and a row with its next number at its end is one, and nothing else is.
LEMMA RowAppend ==
  ASSUME NEW s \in Seq(Nat), NEW f \in Nat, NEW e \in Nat
  PROVE  Row(Append(s, e), f) <=> Row(s, f) /\ e = f + Len(s) + 1
<1>1. /\ Len(s) \in Nat /\ Len(Append(s, e)) = Len(s) + 1 /\ Append(s, e)[Len(s) + 1] = e
      /\ \A i \in 1..Len(s) : Append(s, e)[i] = s[i]
  BY AppendProperties, LenProperties
<1> DEFINE t == Append(s, e)
<1> HIDE DEF t
<1>2. /\ Len(t) = Len(s) + 1 /\ t[Len(s) + 1] = e /\ \A i \in 1..Len(s) : t[i] = s[i]
  BY <1>1 DEF t
<1>3. ASSUME Row(t, f) PROVE Row(s, f) /\ e = f + Len(s) + 1
  <2>1. \A i \in 1..Len(s) : i \in 1..Len(t)
    BY <1>1, <1>2
  <2>2. Len(s) + 1 \in 1..Len(t)
    BY <1>1, <1>2
  <2> QED
    BY <1>1, <1>2, <1>3, <2>1, <2>2 DEF Row
<1>4. ASSUME Row(s, f), e = f + Len(s) + 1 PROVE Row(t, f)
  <2> SUFFICES ASSUME NEW i \in 1..Len(t) PROVE t[i] = f + i
    BY DEF Row
  <2>1. CASE i = Len(s) + 1
    BY <1>1, <1>2, <1>4, <2>1
  <2>2. CASE i # Len(s) + 1
    <3>1. i \in 1..Len(s)
      BY <1>1, <1>2, <2>2
    <3> QED
      BY <1>2, <1>4, <3>1 DEF Row
  <2> QED
    BY <2>1, <2>2
<1> QED
  BY <1>3, <1>4 DEF t

\* The numbers of K are those after c, up to b.
Between(K, c, b) == \A k \in Nat : k \in K <=> c < k /\ k <= b

\* The later of a and c; a row that ends by b; what is left of the row s after m.
Later(m, a, c) == m = IF a >= c THEN a ELSE c
EndsBy(s, a, b) == Row(s, a) /\ a + Len(s) <= b
Rest(t, s, a, m) == Row(t, m) /\ Len(t) = IF a + Len(s) > m THEN a + Len(s) - m ELSE 0

\* Of a row, the numbers after c are a row again: the whole of it, or what follows c.
LEMMA RowAfter ==
  ASSUME NEW a \in Nat, NEW b \in Nat, NEW c \in Nat, NEW m \in Nat,
         Later(m, a, c), NEW K, Between(K, c, b),
         NEW s \in Seq(Nat), EndsBy(s, a, b)
  PROVE  Only(s, K) \in Seq(Nat) /\ Rest(Only(s, K), s, a, m)
<1>0. m = IF a >= c THEN a ELSE c
  BY DEF Later
<1> USE <1>0
<1> DEFINE Good(t) == /\ Row(Only(t, K), m)
                      /\ Len(Only(t, K)) = IF a + Len(t) > m THEN a + Len(t) - m ELSE 0
           T == {t \in Seq(Nat) : Row(t, a) /\ a + Len(t) <= b => Good(t)}
<1>1. <<>> \in T
  <2>1. Only(<<>>, K) = <<>> /\ Len(<<>>) = 0 /\ <<>> \in Seq(Nat)
    BY OnlyEmpty
  <2>2. ~(a + 0 > m)
    OBVIOUS
  <2>3. Row(<<>>, m)
    BY <2>1 DEF Row
  <2> QED
    BY <2>1, <2>2, <2>3
<1>2. ASSUME NEW t \in Seq(Nat), NEW e \in Nat, t \in T PROVE Append(t, e) \in T
  <2> SUFFICES ASSUME Row(Append(t, e), a), a + Len(Append(t, e)) <= b
               PROVE  Good(Append(t, e))
    BY AppendProperties
  <2> DEFINE r == Only(t, K)
             n == Len(t)
  <2>1. n \in Nat /\ Len(Append(t, e)) = n + 1
    BY AppendProperties, LenProperties
  <2>2. Row(t, a) /\ e = a + n + 1
    BY RowAppend
  <2>3. Good(t)
    BY <1>2, <2>1, <2>2
  <2>4. r \in Seq(Nat)
    BY OnlyType
  <2>5. Only(Append(t, e), K) = IF e \in K THEN Append(r, e) ELSE r
    BY OnlyAppend
  <2>6. e \in K <=> a + n >= c
    BY <2>1, <2>2 DEF Between
  <2>7. CASE a + n >= c
    <3>0. m <= a + n
      BY <2>1, <2>7
    <3>1. Len(r) = a + n - m /\ m <= a + n
      <4>1. Len(r) = IF a + n > m THEN a + n - m ELSE 0
        BY <2>3
      <4> HIDE DEF r, n
      <4> QED
        BY <2>1, <3>0, <4>1
    <3>2. e = m + Len(r) + 1
      BY <2>1, <2>2, <3>1
    <3>3. Only(Append(t, e), K) = Append(r, e)
      BY <2>5, <2>6, <2>7
    <3> HIDE DEF r, n
    <3>4. Row(Append(r, e), m)
      <4>1. Row(r, m)
        BY <2>3 DEF r
      <4> QED
        BY <2>4, <3>2, <4>1, RowAppend
    <3>5. Len(Append(r, e)) = Len(r) + 1
      BY <2>4, AppendProperties
    <3>6. a + (n + 1) > m /\ Len(Append(r, e)) = a + (n + 1) - m
      BY <2>1, <3>1, <3>5
    <3> QED
      BY <2>1, <3>3, <3>4, <3>6
  <2>8. CASE ~(a + n >= c)
    <3>1. Only(Append(t, e), K) = r
      BY <2>5, <2>6, <2>8
    <3>2. m = c /\ ~(a + n > m) /\ ~(a + (n + 1) > m)
      BY <2>1, <2>8
    <3> QED
      BY <2>1, <2>3, <3>1, <3>2
  <2> QED
    BY <2>7, <2>8
<1>3. Seq(Nat) \subseteq T
  <2> HIDE DEF T
  <2> QED
    BY <1>1, <1>2, SequenceInduction
<1>4. Only(s, K) \in Seq(Nat)
  BY OnlyType
<1> QED
  BY <1>3, <1>4 DEF EndsBy, Rest
-----------------------------------------------------------------------------
(* What a step does to the chunks and to one listener.                     *)

\* Nothing has been published at first.
LEMMA SoundInit == Init => SoundInv
<1> SUFFICES ASSUME Init PROVE SoundInv
  OBVIOUS
<1>0. Backlog \in Nat /\ Backlog > 0
  BY BoundsAssumption
<1>1. Shapes /\ DOMAIN since = Clients /\ DOMAIN overrun = Clients
  BY DEF Init, Shapes
<1>2. Len(<<>>) = 0 /\ <<>> \in Seq(Nat)
  OBVIOUS
<1>3. audio_id = 0 /\ audio_chunks = <<>>
  BY DEF Init
<1>4. Chunks
  BY <1>0, <1>2, <1>3 DEF Chunks, Row
<1>5. ASSUME NEW l \in Listeners PROVE Hearing(l)
  <2>1. /\ cpc[l] = "new" /\ path[l] = "none" /\ cursor[l] = 0 /\ since[l] = 0
        /\ batch[l] = <<>> /\ written[l] = <<>>
    BY DEF Init, Clients
  <2>2. Ahead(l)
    <3>1. 0 >= cursor[l] /\ 0 + Len(batch[l]) <= audio_id /\ Row(batch[l], 0) /\ 0 = cursor[l]
      BY <1>2, <1>3, <2>1 DEF Row
    <3> QED
      BY <3>1 DEF Ahead
  <2>3. Heard(l)
    BY <1>2, <2>1 DEF Heard, Row
  <2> QED
    BY <1>2, <2>1, <2>2, <2>3 DEF Hearing
<1> QED
  BY <1>1, <1>4, <1>5 DEF SoundInv

\* A chunk is published: it is the latest one held, and the oldest one goes when the
\* backlog is full.
LEMMA PublishingKeepsChunks ==
  ASSUME Chunks, PublishAudio
  PROVE  Chunks' /\ audio_id' = audio_id + 1
<1> DEFINE s == audio_chunks
           f == audio_id - Len(audio_chunks)
           e == audio_id + 1
<1>0. /\ Backlog \in Nat /\ Backlog > 0 /\ audio_id \in Nat /\ s \in Seq(Nat) /\ Len(s) \in Nat
      /\ audio_id' = e /\ Row(s, f) /\ Len(s) = IF audio_id <= Backlog THEN audio_id ELSE Backlog
  BY BoundsAssumption, LenProperties DEF Chunks, PublishAudio
<1>1. f \in Nat /\ e \in Nat /\ e = f + Len(s) + 1
  BY <1>0
<1>2. CASE Len(s) = Backlog
  <2>1. audio_chunks' = Append(Tail(s), e) /\ s # <<>>
    BY <1>0, <1>2 DEF PublishAudio
  <2> HIDE DEF s, f, e
  <2>2. Tail(s) \in Seq(Nat) /\ Len(Tail(s)) = Len(s) - 1 /\ Row(Tail(s), f + 1)
    BY <1>0, <1>1, <2>1, RowTail
  <2>3. e = (f + 1) + Len(Tail(s)) + 1 /\ f + 1 \in Nat
    BY <1>0, <1>1, <2>2
  <2>4. Row(Append(Tail(s), e), f + 1)
    BY <1>1, <2>2, <2>3, RowAppend
  <2>5. Append(Tail(s), e) \in Seq(Nat) /\ Len(Append(Tail(s), e)) = Backlog
    BY <1>0, <1>1, <1>2, <2>2, AppendProperties
  <2>6. audio_id' - Backlog = f + 1 /\ audio_id >= Backlog
    BY <1>0, <1>1, <1>2 DEF s, f, e
  <2>7. audio_id' \in Nat /\ ~(audio_id' <= Backlog) /\ audio_id' = audio_id + 1
    BY <1>0, <1>1, <2>6 DEF e
  <2>8. audio_chunks' \in Seq(Nat) /\ Len(audio_chunks') = Backlog
    BY <2>1, <2>5
  <2>9. Row(audio_chunks', audio_id' - Len(audio_chunks'))
    BY <2>1, <2>4, <2>6, <2>8
  <2> QED
    BY <2>7, <2>8, <2>9 DEF Chunks
<1>3. CASE Len(s) # Backlog
  <2>1. audio_chunks' = Append(s, e)
    BY <1>3 DEF PublishAudio
  <2>2. f = 0 /\ Len(s) = audio_id /\ audio_id < Backlog
    BY <1>0, <1>3
  <2> HIDE DEF s, f, e
  <2>3. Row(Append(s, e), f) /\ Append(s, e) \in Seq(Nat) /\ Len(Append(s, e)) = Len(s) + 1
    <3>1. s \in Seq(Nat) /\ e \in Nat
      BY <1>0, <1>1
    <3>2. Row(Append(s, e), f)
      BY <1>0, <1>1, RowAppend
    <3> QED
      BY <3>1, <3>2, AppendProperties
  <2>4. audio_id' = audio_id + 1
    BY <1>0 DEF e
  <2> QED
    BY <1>0, <2>1, <2>2, <2>3, <2>4 DEF Chunks
<1> QED
  BY <1>0, <1>2, <1>3

\* Whoever leaves the fields of a listener alone, or wakes it, keeps its part.
LEMMA HearingKept ==
  ASSUME NEW l, Hearing(l), audio_id \in Nat, audio_id' \in Nat, audio_id' >= audio_id,
         path'[l] = path[l], cursor'[l] = cursor[l], batch'[l] = batch[l],
         written'[l] = written[l], since'[l] = since[l], overrun'[l] = overrun[l],
         cpc'[l] = cpc[l] \/ (cpc[l] # "new" /\ cpc[l] # "write" /\ cpc'[l] # "new")
  PROVE  Hearing(l)'
<1>1. Ahead(l)'
  <2>1. PICK f \in Nat :
          /\ f >= cursor[l] /\ f + Len(batch[l]) <= audio_id
          /\ Row(batch[l], f) /\ (~overrun[l] => f = cursor[l])
    BY DEF Hearing, Ahead
  <2>2. Len(batch[l]) \in Nat
    BY LenProperties DEF Hearing
  <2>3. f + Len(batch[l]) <= audio_id'
    BY <2>1, <2>2
  <2> QED
    BY <2>1, <2>3 DEF Ahead, Row
<1>2. Heard(l)'
  BY DEF Hearing, Heard, Row
<1>3. IF cpc'[l] = "new" THEN path'[l] = "none" /\ written'[l] = <<>>
      ELSE path'[l] = "audio.alaw"
  BY DEF Hearing
<1>4. cpc'[l] # "write" => batch'[l] = <<>>
  BY DEF Hearing
<1> QED
  BY <1>1, <1>2, <1>3, <1>4 DEF Hearing

\* A listener starts after the latest chunk.
LEMMA ListeningStarts ==
  ASSUME NEW l \in Listeners, SoundInv, Connect(l)
  PROVE  Hearing(l)'
<1>0. l \in Clients /\ Shapes /\ DOMAIN since = Clients /\ Chunks /\ Hearing(l)
  BY DEF SoundInv, Clients
<1>1. /\ cpc[l] = "new" /\ cpc'[l] = "check" /\ path'[l] = "audio.alaw"
      /\ cursor'[l] = audio_id /\ since'[l] = audio_id
      /\ audio_id' = audio_id /\ batch' = batch /\ written' = written
  BY <1>0 DEF Connect, Shapes, mediaVars
<1>2. batch[l] = <<>> /\ written[l] = <<>> /\ audio_id \in Nat
  BY <1>0, <1>1 DEF Hearing, Chunks
<1>3. Len(<<>>) = 0 /\ <<>> \in Seq(Nat)
  OBVIOUS
<1>4. Ahead(l)'
  BY <1>1, <1>2, <1>3 DEF Ahead, Row
<1>5. Heard(l)'
  BY <1>1, <1>2, <1>3 DEF Heard, Row
<1> QED
  BY <1>1, <1>2, <1>3, <1>4, <1>5 DEF Hearing

\* What wait_for_audio returns follows the cursor without a gap, unless more than the
\* backlog has been published since.
LEMMA TakingSound ==
  ASSUME NEW l \in Listeners, SoundInv, cpc[l] = "check", audio_id > cursor[l], TakeAudio(l),
         UNCHANGED <<path, written, since, audio_id>>
  PROVE  Hearing(l)'
<1>0. l \in Clients /\ Shapes /\ DOMAIN overrun = Clients /\ Chunks /\ Hearing(l)
  BY DEF SoundInv, Clients
<1> DEFINE s == audio_chunks
           a == audio_id - Len(audio_chunks)
           c == cursor[l]
           r == Only(audio_chunks, (cursor[l] + 1)..audio_id)
           m == IF a >= c THEN a ELSE c
           K == (cursor[l] + 1)..audio_id
<1>1. /\ audio_id \in Nat /\ s \in Seq(Nat) /\ Len(s) \in Nat /\ Row(s, a)
      /\ Backlog \in Nat /\ Len(s) = IF audio_id <= Backlog THEN audio_id ELSE Backlog
      /\ c \in Nat /\ audio_id > c
  BY <1>0, BoundsAssumption, LenProperties DEF Chunks, Hearing
<1>2. /\ cpc'[l] = "write" /\ batch'[l] = r /\ cursor' = cursor
  BY <1>0, <1>1 DEF TakeAudio, Shapes
<1>2a. ~overrun'[l] => ~overrun[l] /\ ~(audio_id - cursor[l] > Backlog)
  <2>1. audio_id > cursor[l] /\ ~(audio_id <= cursor[l])
    BY <1>1
  <2>2. overrun' = [overrun EXCEPT ![l] = @ \/ audio_id - cursor[l] > Backlog]
    BY <2>1 DEF TakeAudio
  <2>3. overrun'[l] = (overrun[l] \/ audio_id - cursor[l] > Backlog)
    BY <1>0, <2>2
  <2> QED
    BY <2>3
<1>3. a \in Nat /\ m \in Nat /\ a + Len(s) = audio_id /\ m >= c /\ m <= audio_id
  BY <1>1
<1>4. r \in Seq(Nat) /\ Row(r, m) /\ Len(r) = IF audio_id > m THEN audio_id - m ELSE 0
  <2>1. Later(m, a, c) /\ EndsBy(s, a, audio_id)
    BY <1>1, <1>3 DEF Later, EndsBy
  <2>2. a \in Nat /\ c \in Nat /\ m \in Nat /\ audio_id \in Nat /\ s \in Seq(Nat)
    BY <1>1, <1>3
  <2>3. Between(K, c, audio_id)
    BY <2>2 DEF Between
  <2>4. r = Only(s, K)
    BY DEF s, K
  <2> HIDE DEF s, a, c, m, K, r
  <2>5. Only(s, K) \in Seq(Nat) /\ Rest(Only(s, K), s, a, m)
    BY <2>1, <2>2, <2>3, RowAfter
  <2> QED
    BY <1>3, <2>4, <2>5 DEF Rest
<1>5. ~(audio_id - c > Backlog) => m = c
  BY <1>1, <1>3
<1>6. Ahead(l)'
  <2>1. m + Len(r) <= audio_id
    <3> HIDE DEF r, m
    <3> QED
      BY <1>1, <1>3, <1>4
  <2> HIDE DEF r, m
  <2> QED
    BY <1>2, <1>2a, <1>3, <1>4, <1>5, <2>1 DEF Ahead
<1>7. Heard(l)'
  BY <1>0, <1>2, <1>2a DEF Hearing, Heard, Row
<1> HIDE DEF r
<1> QED
  BY <1>0, <1>2, <1>4, <1>6, <1>7 DEF Hearing

\* The chunk written comes after all those before, and next to the last one unless the
\* listener was overrun.
LEMMA WritingSound ==
  ASSUME NEW l \in Listeners, SoundInv, Write(l)
  PROVE  Hearing(l)'
<1>0. l \in Clients /\ Shapes /\ Chunks /\ Hearing(l)
  BY DEF SoundInv, Clients
<1>1. PICK f \in Nat :
        /\ f >= cursor[l] /\ f + Len(batch[l]) <= audio_id
        /\ Row(batch[l], f) /\ (~overrun[l] => f = cursor[l])
  BY <1>0 DEF Hearing, Ahead
<1> DEFINE b == batch[l]
           w == written[l]
           e == Head(batch[l])
<1>2. /\ cpc[l] = "write" /\ b # <<>> /\ b \in Seq(Nat) /\ w \in Seq(Nat) /\ path[l] = "audio.alaw"
      /\ cursor[l] \in Nat /\ since[l] \in Nat /\ audio_id \in Nat
  BY <1>0 DEF Write, Hearing, Chunks
<1>3. /\ e = f + 1 /\ Len(Tail(b)) = Len(b) - 1 /\ Len(b) \in Nat /\ Len(b) > 0
      /\ Tail(b) \in Seq(Nat) /\ Row(Tail(b), f + 1)
  <2> HIDE DEF b
  <2> QED
    BY <1>1, <1>2, RowTail DEF b
<1>4. /\ written'[l] = Append(w, e) /\ cursor'[l] = e /\ batch'[l] = Tail(b)
      /\ cpc'[l] = (IF Len(b) # 1 THEN "write" ELSE "check")
      /\ UNCHANGED <<path, since, overrun, audio_id>>
  BY <1>0, <1>2 DEF Write, Shapes, mediaVars
<1> HIDE DEF b, w, e
<1>5. Ahead(l)'
  <2>1. f + 1 \in Nat /\ f + 1 >= cursor'[l] /\ (f + 1) + Len(Tail(b)) <= audio_id
    <3>1. f + Len(b) <= audio_id
      BY <1>1 DEF b
    <3>2. f \in Nat /\ Len(b) \in Nat /\ Len(Tail(b)) = Len(b) - 1 /\ cursor'[l] = f + 1
      BY <1>3, <1>4
    <3> QED
      BY <1>2, <3>1, <3>2
  <2>2. ~overrun'[l] => f + 1 = cursor'[l]
    BY <1>3, <1>4
  <2> QED
    BY <1>3, <1>4, <2>1, <2>2 DEF Ahead
<1>6. /\ Append(w, e) \in Seq(Nat) /\ Append(w, e) # <<>> /\ Len(w) \in Nat
      /\ Len(Append(w, e)) = Len(w) + 1 /\ Append(w, e)[Len(w) + 1] = e
      /\ \A i \in 1..Len(w) : Append(w, e)[i] = w[i]
  <2>1. w \in Seq(Nat) /\ e \in Nat
    BY <1>2, <1>3
  <2>2. Len(w) \in Nat
    BY <2>1, LenProperties
  <2> QED
    BY <2>1, <2>2, AppendProperties
<1> DEFINE v == Append(w, e)
<1>7. /\ v \in Seq(Nat) /\ v # <<>> /\ Len(v) = Len(w) + 1 /\ v[Len(w) + 1] = e
      /\ \A i \in 1..Len(w) : v[i] = w[i]
  BY <1>6
<1> HIDE DEF v
<1>8. ASSUME NEW j \in 1..Len(v) PROVE v[j] > IF j = 1 THEN since[l] ELSE v[j - 1]
  <2>0. /\ \A i \in 1..Len(w) : w[i] > IF i = 1 THEN since[l] ELSE w[i - 1]
        /\ cursor[l] = IF w = <<>> THEN since[l] ELSE w[Len(w)]
    BY <1>0 DEF Hearing, Heard, w
  <2>1. CASE j = Len(w) + 1
    <3>1. v[j] = e /\ e > cursor[l]
      BY <1>1, <1>2, <1>3, <1>7, <2>1
    <3>2. CASE w = <<>>
      <4>1. j = 1 /\ cursor[l] = since[l]
        BY <2>0, <2>1, <3>2
      <4> QED
        BY <3>1, <4>1
    <3>3. CASE w # <<>>
      <4>1. Len(w) > 0
        BY <1>2, <3>3, EmptySeq
      <4>2. j # 1 /\ j - 1 = Len(w) /\ Len(w) \in 1..Len(w)
        BY <1>6, <2>1, <4>1
      <4>3. v[j - 1] = cursor[l]
        BY <1>7, <2>0, <3>3, <4>2
      <4> QED
        BY <3>1, <4>2, <4>3
    <3> QED
      BY <3>2, <3>3
  <2>2. CASE j # Len(w) + 1
    <3>1. j \in 1..Len(w) /\ v[j] = w[j]
      BY <1>6, <1>7, <2>2
    <3>2. ASSUME j # 1 PROVE v[j - 1] = w[j - 1]
      <4>1. j - 1 \in 1..Len(w)
        BY <1>6, <3>1, <3>2
      <4> QED
        BY <1>7, <4>1
    <3>3. w[j] > IF j = 1 THEN since[l] ELSE w[j - 1]
      BY <2>0, <3>1
    <3> QED
      BY <3>1, <3>2, <3>3
  <2> QED
    BY <2>1, <2>2
<1>9. ASSUME ~overrun[l] PROVE Row(v, since[l]) /\ e = since[l] + Len(v)
  <2>1. Row(w, since[l]) /\ cursor[l] = since[l] + Len(w) /\ f = cursor[l]
    BY <1>0, <1>1, <1>9 DEF Hearing, Heard, w
  <2>2. e = since[l] + Len(w) + 1 /\ e \in Nat
    BY <1>2, <1>3, <1>6, <2>1
  <2>3. Row(v, since[l])
    BY <1>2, <2>1, <2>2, RowAppend DEF v
  <2>4. since[l] + Len(w) + 1 = since[l] + (Len(w) + 1)
    <3>1. since[l] \in Nat /\ Len(w) \in Nat
      BY <1>2, <1>6
    <3> QED
      BY <3>1
  <2> QED
    BY <1>7, <2>2, <2>3, <2>4
<1>10. Heard(l)'
  <2>1. written'[l] = v /\ cursor'[l] = e /\ since'[l] = since[l] /\ overrun'[l] = overrun[l]
    BY <1>4 DEF v
  <2>2. e = v[Len(v)]
    BY <1>7
  <2> QED
    BY <1>7, <1>8, <1>9, <2>1, <2>2 DEF Heard
<1>11. cpc'[l] # "new" /\ (cpc'[l] # "write" => batch'[l] = <<>>)
  <2>1. CASE Len(b) = 1
    <3>1. Len(Tail(b)) = 0
      BY <1>3, <2>1
    <3>2. Tail(b) = <<>>
      BY <1>3, <3>1, EmptySeq
    <3> QED
      BY <1>4, <2>1, <3>2
  <2>2. CASE Len(b) # 1
    BY <1>4, <2>2
  <2> QED
    BY <2>1, <2>2
<1>12. cursor'[l] \in Nat /\ since'[l] \in Nat /\ batch'[l] \in Seq(Nat) /\ written'[l] \in Seq(Nat)
       /\ path'[l] = "audio.alaw"
  BY <1>2, <1>3, <1>4, <1>7 DEF v
<1> QED
  BY <1>5, <1>10, <1>11, <1>12 DEF Hearing
-----------------------------------------------------------------------------
(* The steps of the system, for the sound.                                 *)

\* A step of a listener of its own.
LEMMA OwnStepKeepsSound ==
  ASSUME NEW l \in Listeners, SoundInv, Client(l)
  PROVE  Hearing(l)'
<1>0. l \in Clients /\ Shapes /\ Chunks /\ Hearing(l) /\ audio_id \in Nat
  BY DEF SoundInv, Clients, Chunks
<1>1. CASE Connect(l)
  BY <1>1, ListeningStarts
<1>2. CASE Take(l)
  <2>1. /\ cpc[l] = "check" /\ UNCHANGED <<path, written, since, audio_id>>
        /\ path[l] = "audio.alaw" /\ TakeAudio(l)
    BY <1>0, <1>2 DEF Take, Hearing, mediaVars
  <2>2. CASE audio_id <= cursor[l]
    <3>1. Sleep(l)
      BY <1>0, <2>1, <2>2 DEF TakeAudio, Hearing
    <3>2. cpc'[l] = "asleep" /\ UNCHANGED <<cursor, batch, overrun>>
      BY <1>0, <3>1 DEF Sleep, Shapes
    <3> QED
      BY <1>0, <2>1, <3>2, HearingKept
  <2>3. CASE ~(audio_id <= cursor[l])
    <3>1. audio_id > cursor[l]
      BY <1>0, <2>3 DEF Hearing
    <3> QED
      BY <2>1, <3>1, TakingSound
  <2> QED
    BY <2>2, <2>3
<1>3. CASE WaitTimesOut(l)
  <2>1. /\ cpc[l] = "asleep" /\ cpc'[l] = "check" /\ audio_id' = audio_id
        /\ UNCHANGED <<path, cursor, batch, written, since, overrun>>
    BY <1>0, <1>3 DEF WaitTimesOut, Shapes, mediaVars
  <2> QED
    BY <1>0, <2>1, HearingKept
<1>4. CASE DeadlinePasses(l) \/ SkipFrame(l)
  BY <1>0, <1>4 DEF DeadlinePasses, SkipFrame, Hearing
<1>5. CASE Write(l)
  BY <1>5, WritingSound
<1>6. CASE ClientGone(l)
  <2>1. /\ cpc'[l] = "gone" /\ batch'[l] = <<>> /\ audio_id' = audio_id
        /\ UNCHANGED <<path, cursor, written, since, overrun>>
    BY <1>0, <1>6 DEF ClientGone, Shapes, mediaVars
  <2>2. cpc[l] = "write"
    BY <1>6 DEF ClientGone
  <2>3. Len(<<>>) = 0 /\ <<>> \in Seq(Nat)
    OBVIOUS
  <2>4. Ahead(l)'
    <3>1. cursor[l] \in Nat /\ cursor[l] <= audio_id
      <4>1. PICK f \in Nat : f >= cursor[l] /\ f + Len(batch[l]) <= audio_id
        BY <1>0 DEF Hearing, Ahead
      <4>2. cursor[l] \in Nat /\ Len(batch[l]) \in Nat
        BY <1>0, LenProperties DEF Hearing
      <4> QED
        BY <1>0, <4>1, <4>2
    <3>2. /\ cursor'[l] \in Nat /\ cursor'[l] >= cursor'[l]
          /\ cursor'[l] + Len(batch'[l]) <= audio_id' /\ Row(batch'[l], cursor'[l])
      BY <1>0, <2>1, <2>3, <3>1 DEF Row
    <3> QED
      BY <3>2 DEF Ahead
  <2>5. Heard(l)'
    BY <1>0, <2>1 DEF Hearing, Heard, Row
  <2> QED
    BY <1>0, <2>1, <2>2, <2>3, <2>4, <2>5 DEF Hearing
<1> QED
  BY <1>1, <1>2, <1>3, <1>4, <1>5, <1>6 DEF Client

\* A step of a client changes neither the chunks nor what another one hears.
LEMMA ClientLeavesSound ==
  ASSUME Shapes, DOMAIN since = Clients, DOMAIN overrun = Clients, NEW c \in Clients, Client(c)
  PROVE  /\ DOMAIN since' = Clients /\ DOMAIN overrun' = Clients
         /\ audio_id' = audio_id /\ audio_chunks' = audio_chunks
         /\ \A v \in Clients \ {c} : since'[v] = since[v] /\ overrun'[v] = overrun[v]
<1>1. CASE Connect(c)
  BY <1>1 DEF Connect, mediaVars
<1>2. CASE Take(c)
  BY <1>2 DEF Take, TakeAudio, TakeFrame, TakeSnapshot, Sleep, mediaVars
<1>3. CASE WaitTimesOut(c) \/ DeadlinePasses(c) \/ Write(c) \/ SkipFrame(c) \/ ClientGone(c)
  BY <1>3 DEF WaitTimesOut, DeadlinePasses, Write, SkipFrame, ClientGone, mediaVars
<1> QED
  BY <1>1, <1>2, <1>3 DEF Client

\* The other threads publish chunks and wake the listeners that sleep.
LEMMA OthersKeepSound ==
  ASSUME SoundInv, Session \/ GraceOver \/ Worker \/ StopBridge
  PROVE  SoundInv'
<1>0. Shapes /\ Chunks /\ audio_id \in Nat /\ DOMAIN since = Clients /\ DOMAIN overrun = Clients
  BY DEF SoundInv, Chunks
<1>1. Chunks' /\ audio_id' \in Nat /\ audio_id' >= audio_id
  <2>1. CASE PublishAudio
    <3>1. Chunks' /\ audio_id' = audio_id + 1
      BY <1>0, <2>1, PublishingKeepsChunks
    <3> QED
      BY <1>0, <3>1
  <2>2. CASE ~PublishAudio
    <3>1. UNCHANGED <<audio_id, audio_chunks>>
      BY <2>2 DEF Session, SessionUp, SessionFails, Publish, GraceOver, Worker, ReadConnected,
           SetConnected, WorkerEnds, StopBridge, mediaVars
    <3> QED
      BY <1>0, <3>1 DEF Chunks, Row
  <2> QED
    BY <2>1, <2>2
<1>2. /\ NotifyAll \/ UNCHANGED clientVars
      /\ UNCHANGED <<path, cursor, batch, written, since, overrun>>
  BY DEF Session, SessionUp, SessionFails, Publish, PublishAudio, GraceOver, Worker,
         ReadConnected, SetConnected, WorkerEnds, StopBridge, NotifyAll, clientVars
<1>3. /\ DOMAIN cpc' = Clients
      /\ \A c \in Clients : cpc'[c] = cpc[c] \/ (cpc[c] = "asleep" /\ cpc'[c] = "check")
  BY <1>0, <1>2 DEF NotifyAll, clientVars, Shapes
<1>4. Shapes' /\ DOMAIN since' = Clients /\ DOMAIN overrun' = Clients
  BY <1>0, <1>2, <1>3 DEF Shapes
<1>5. ASSUME NEW l \in Listeners PROVE Hearing(l)'
  <2>1. Hearing(l) /\ l \in Clients
    BY DEF SoundInv, Clients
  <2> QED
    BY <1>0, <1>1, <1>2, <1>3, <2>1, HearingKept
<1> QED
  BY <1>1, <1>4, <1>5 DEF SoundInv

\* Every step keeps it.
LEMMA SoundKept == SoundInv /\ [Next]_vars => SoundInv'
<1>1. ASSUME SoundInv, NEW c \in Clients, Client(c) PROVE SoundInv'
  <2>1. /\ Shapes' /\ DOMAIN since' = Clients /\ DOMAIN overrun' = Clients
        /\ audio_id' = audio_id /\ audio_chunks' = audio_chunks /\ Chunks /\ audio_id \in Nat
    BY <1>1, ClientLeavesOthers, ClientLeavesSound DEF SoundInv, Chunks
  <2>2. ASSUME NEW l \in Listeners PROVE Hearing(l)'
    <3>1. CASE l = c
      BY <1>1, <3>1, OwnStepKeepsSound
    <3>2. CASE l # c
      <4>1. l \in Clients \ {c} /\ Hearing(l)
        BY <1>1, <3>2 DEF SoundInv, Clients
      <4>2. /\ path'[l] = path[l] /\ cursor'[l] = cursor[l] /\ batch'[l] = batch[l]
            /\ written'[l] = written[l] /\ cpc'[l] = cpc[l]
            /\ since'[l] = since[l] /\ overrun'[l] = overrun[l]
        BY <1>1, <4>1, ClientLeavesOthers, ClientLeavesSound DEF SoundInv
      <4> QED
        BY <2>1, <4>1, <4>2, HearingKept
    <3> QED
      BY <3>1, <3>2
  <2>3. Chunks'
    BY <2>1 DEF Chunks, Row
  <2> QED
    BY <2>1, <2>2, <2>3 DEF SoundInv
<1>2. ASSUME SoundInv, UNCHANGED vars PROVE SoundInv'
  <2>1. UNCHANGED <<audio_id, audio_chunks, cpc, path, cursor, batch, written, since, overrun>>
    BY <1>2 DEF vars, mediaVars, clientVars
  <2> QED
    BY <1>2, <2>1 DEF SoundInv, Shapes, Chunks, Hearing, Ahead, Heard, Row
<1> QED
  BY <1>1, <1>2, OthersKeepSound DEF Next

\* A listener hears every chunk from where it began, once and in order, as long as it
\* never falls behind by more than the backlog; after that it may miss some, and still
\* none is repeated or out of order.
THEOREM SoundInOrder == Spec => []SoundIsContinuous
<1>1. SoundInv => SoundIsContinuous
  BY DEF SoundInv, Hearing, Heard, Row, SoundIsContinuous
<1> QED
  BY <1>1, SoundInit, SoundKept, PTL DEF Spec
=============================================================================
