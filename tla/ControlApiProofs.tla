-------------------------- MODULE ControlApiProofs --------------------------
(***************************************************************************)
(* Proofs that ControlApi keeps its store invariants for any number of     *)
(* requests, controls, crashes and failed writes.  The argument is about   *)
(* time: memory is never older than the file, what a writer is about to    *)
(* rename is the whole memory and holds its own value, and an answered PUT *)
(* is never newer than the file.                                           *)
(***************************************************************************)
EXTENDS ControlApi, SequenceTheorems, TLAPS

Storing == {"set", "write", "replace"}

\* Only the holder of the store's lock is inside ControlStateStore.set; nobody
\* is while the bridge is down.
HolderInv ==
  \A p \in Puts : pc[p] \in Storing => storeLock = p /\ up

\* A value has its time exactly from when it was put into memory.
StampInv ==
  /\ stamp[Initial] = 0
  /\ \A p \in Puts :
       /\ stamp[p] <= clock
       /\ pc[p] \in {"idle", "control", "sent", "storeLock", "set"} => stamp[p] = 0
       /\ pc[p] \in {"write", "replace"} \/ status[p] = "200" => stamp[p] > 0
  /\ \A k \in Keys :
       /\ memory[k] # Initial => stamp[memory[k]] > 0
       /\ disk[k] # Initial => stamp[disk[k]] > 0

\* Memory is never older than the file.
OrderInv == \A k \in Keys : stamp[disk[k]] <= stamp[memory[k]]

\* What is about to be written is the memory, with the writer's own value in it.
WriterInv ==
  \A p \in Puts :
    /\ pc[p] \in {"write", "replace"} => memory[key[p]] = p
    /\ pc[p] = "replace" => temp[p] = memory

\* A command on its way to the store has been carried out.
CarriedInv ==
  /\ \A p \in Puts : pc[p] \in {"storeLock"} \union Storing => p \in carried
  /\ OnlyAcceptedIsStored

\* What a GET has copied is not older than what was answered before it began.
CopyInv ==
  \A g \in Gets :
    /\ before[g] \subseteq {p \in Puts : status[p] = "200"}
    /\ pc[g] = "readback" \/ status[g] = "200" =>
         \A p \in before[g] :
           source[g][key[p]] = "readback" \/ stamp[seen[g][key[p]]] >= stamp[p]

\* A request that has been answered is over.
AnswerInv == \A r \in Threads : status[r] # "none" => pc[r] = "done"

IInv ==
  /\ TypeOK /\ HolderInv /\ StampInv /\ OrderInv /\ WriterInv /\ CarriedInv
  /\ CopyInv /\ AnswerInv /\ AckedIsDurable

-----------------------------------------------------------------------------
\* Every step keeps the types.
LEMMA TypeStep ==
  ASSUME TypeOK, [Next]_vars
  PROVE  TypeOK'
<1> USE ThreadsAssumption, KeysAssumption, BoundsAssumption DEF TypeOK,
        Statuses, Untouched, vars, requestVars, cameraVars, storeVars, getVars,
        Threads, Sources, Answer, Goto, CarryOut
<1>1. ASSUME NEW p \in Puts, AcceptPut(p) \/ Unavailable(p) \/ SendCommand(p)
      PROVE  TypeOK'
  <2>1. CASE AcceptPut(p)
    BY <2>1 DEF AcceptPut
  <2>2. CASE Unavailable(p)
    BY <2>2 DEF Unavailable
  <2>3. CASE SendCommand(p)
    BY <2>3 DEF SendCommand
  <2> QED
    BY <1>1, <2>1, <2>2, <2>3
<1>2. ASSUME NEW p \in Puts, CommandOk(p)
      PROVE  TypeOK'
  BY <1>2 DEF CommandOk
<1>3. ASSUME NEW p \in Puts, CommandUncertain(p)
      PROVE  TypeOK'
  <2>1. /\ \/ CarryOut(p) /\ late' = <<>>
           \/ late' = Append(late, p) /\ UNCHANGED <<actual, carried>>
        /\ \E code \in {"504", "502"} : Answer(p, code)
        /\ controlLock' = Initial
        /\ UNCHANGED <<up, storeVars, getVars, crashes, writeFaults>>
    BY <1>3 DEF CommandUncertain
  <2>2. CASE CarryOut(p) /\ late' = <<>>
    <3>1. late' \in Seq(Puts)
      BY <2>2, EmptySeq
    <3> QED
      BY <2>1, <2>2, <3>1
  <2>3. CASE late' = Append(late, p) /\ UNCHANGED <<actual, carried>>
    <3>1. late' \in Seq(Puts)
      BY <2>3, AppendProperties
    <3> HIDE <2>3
    <3>2. UNCHANGED <<actual, carried>>
      BY <2>3
    <3> QED
      BY <2>1, <3>1, <3>2
  <2> QED
    BY <2>1, <2>2, <2>3
<1>4. ASSUME NEW p \in Puts, CommandFailed(p)
      PROVE  TypeOK'
  BY <1>4 DEF CommandFailed
<1>5. ASSUME NEW p \in Puts, EnterStore(p)
      PROVE  TypeOK'
  BY <1>5 DEF EnterStore
<1>6. ASSUME NEW p \in Puts, SetMemory(p)
      PROVE  TypeOK'
  BY <1>6 DEF SetMemory
<1>7. ASSUME NEW p \in Puts, WriteTemp(p)
      PROVE  TypeOK'
  BY <1>7 DEF WriteTemp
<1>8. ASSUME NEW p \in Puts, Replace(p)
      PROVE  TypeOK'
  BY <1>8 DEF Replace
<1>9. ASSUME NEW p \in Puts, StoreFails(p)
      PROVE  TypeOK'
  BY <1>9 DEF StoreFails
<1>10. ASSUME NEW g \in Gets, BeginGet(g)
      PROVE  TypeOK'
  BY <1>10 DEF BeginGet
<1>11. ASSUME NEW g \in Gets, CopyValues(g)
      PROVE  TypeOK'
  BY <1>11 DEF CopyValues
<1>12. ASSUME NEW g \in Gets, Readback(g)
      PROVE  TypeOK'
  BY <1>12 DEF Readback
<1>13. ASSUME NEW g \in Gets, ReadbackFails(g)
      PROVE  TypeOK'
  BY <1>13 DEF ReadbackFails
<1>14. ASSUME NEW g \in Gets, ReadbackRaises(g)
      PROVE  TypeOK'
  BY <1>14 DEF ReadbackRaises
<1>15. ASSUME NEW g \in Gets, AnswerGet(g)
      PROVE  TypeOK'
  BY <1>15 DEF AnswerGet
<1>16. ASSUME NEW r \in Threads, Reject(r)
      PROVE  TypeOK'
  BY <1>16 DEF Reject
<1>17. CASE LateCommand
  <2>1. PICK i \in 1..Len(late) :
          CarryOut(late[i]) /\ late' = SubSeq(late, i + 1, Len(late))
    BY <1>17 DEF LateCommand
  <2>2. late[i] \in Puts
    BY ElementOfSeq
  <2>3. i \in Nat /\ Len(late) \in Nat
    BY LenProperties
  <2>4. SubSeq(late, i + 1, Len(late)) \in Seq(Puts)
    BY <2>3, SubSeqProperties
  <2> QED
    BY <1>17, <2>1, <2>2, <2>4 DEF LateCommand
<1>18. CASE Crash
  <2>1. late' \in Seq(Puts)
    <3>1. CASE UNCHANGED late
      BY <3>1
    <3>2. ASSUME NEW p \in Puts, late' = Append(late, p)
          PROVE  late' \in Seq(Puts)
      BY <3>2, AppendProperties
    <3> QED
      BY <1>18, <3>1, <3>2 DEF Crash
  <2>2. pc' \in [Threads -> {"idle", "control", "sent", "storeLock", "set", "write",
                          "replace", "values", "readback", "done"}]
    BY <1>18 DEF Crash
  <2>3. status' \in [Threads -> Statuses]
    BY <1>18 DEF Crash
  <2>4. /\ up' \in BOOLEAN /\ crashes' \in Nat
        /\ controlLock' \in Sources /\ storeLock' \in Sources
    <3>1. up' = FALSE /\ crashes' = crashes + 1
          /\ controlLock' = Initial /\ storeLock' = Initial
      BY <1>18 DEF Crash
    <3>2. crashes \in Nat
      OBVIOUS
    <3>3. crashes' \in Nat
      BY ONLY <3>1, <3>2
    <3>4. up' \in BOOLEAN
      BY ONLY <3>1
    <3>5. controlLock' \in Sources /\ storeLock' \in Sources
      BY ONLY <3>1 DEF Sources
    <3> QED
      BY ONLY <3>3, <3>4, <3>5
  <2>5. UNCHANGED <<key, actual, carried, memory, temp, disk, clock, stamp, unread,
                    seen, source, before, writeFaults>>
    BY <1>18 DEF Crash
  <2>6. /\ key' \in [Puts -> Keys] /\ carried' \in SUBSET Puts
        /\ actual' \in [Keys -> Sources] /\ memory' \in [Keys -> Sources]
        /\ temp' \in [Puts -> [Keys -> Sources]] /\ disk' \in [Keys -> Sources]
    BY <2>5
  <2>7. /\ clock' \in Nat /\ stamp' \in [Sources -> Nat] /\ writeFaults' \in Nat
        /\ unread' \in [Gets -> SUBSET ReadableKeys]
        /\ seen' \in [Gets -> [Keys -> Sources]]
        /\ source' \in [Gets -> [Keys -> {"unknown", "persisted", "readback"}]]
        /\ before' \in [Gets -> SUBSET Puts]
    BY <2>5
  <2> HIDE DEF Statuses, Threads, Sources
  <2> QED
    BY ONLY <2>1, <2>2, <2>3, <2>4, <2>6, <2>7 DEF TypeOK
<1>19. CASE Restart
  BY <1>19 DEF Restart
<1>20. CASE UNCHANGED vars
  BY <1>20
<1> QED
  BY <1>1, <1>2, <1>3, <1>4, <1>5, <1>6, <1>7, <1>8, <1>9, <1>10, <1>11, <1>12,
     <1>13, <1>14, <1>15, <1>16, <1>17, <1>18, <1>19, <1>20 DEF Next, Put, Get,
     Quiescent

\* The store's lock is held by the writer alone.
LEMMA HolderStep ==
  ASSUME TypeOK, HolderInv, [Next]_vars
  PROVE  HolderInv'
<1> USE ThreadsAssumption DEF TypeOK, HolderInv, Storing, vars, requestVars,
        cameraVars, storeVars, getVars, Threads, Sources, Answer, Goto, CarryOut
<1>1. ASSUME NEW p \in Puts, AcceptPut(p) \/ Unavailable(p) \/ SendCommand(p)
      PROVE  HolderInv'
  BY <1>1 DEF AcceptPut, Unavailable, SendCommand
<1>2. ASSUME NEW p \in Puts, CommandOk(p)
      PROVE  HolderInv'
  BY <1>2 DEF CommandOk
<1>3. ASSUME NEW p \in Puts, CommandUncertain(p)
      PROVE  HolderInv'
  BY <1>3 DEF CommandUncertain
<1>4. ASSUME NEW p \in Puts, CommandFailed(p)
      PROVE  HolderInv'
  BY <1>4 DEF CommandFailed
<1>5. ASSUME NEW p \in Puts, EnterStore(p)
      PROVE  HolderInv'
  BY <1>5 DEF EnterStore
<1>6. ASSUME NEW p \in Puts, SetMemory(p)
      PROVE  HolderInv'
  BY <1>6 DEF SetMemory
<1>7. ASSUME NEW p \in Puts, WriteTemp(p)
      PROVE  HolderInv'
  BY <1>7 DEF WriteTemp
<1>8. ASSUME NEW p \in Puts, Replace(p)
      PROVE  HolderInv'
  BY <1>8 DEF Replace
<1>9. ASSUME NEW p \in Puts, StoreFails(p)
      PROVE  HolderInv'
  BY <1>9 DEF StoreFails
<1>10. ASSUME NEW g \in Gets, BeginGet(g)
      PROVE  HolderInv'
  BY <1>10 DEF BeginGet
<1>11. ASSUME NEW g \in Gets, CopyValues(g)
      PROVE  HolderInv'
  BY <1>11 DEF CopyValues
<1>12. ASSUME NEW g \in Gets, Readback(g)
      PROVE  HolderInv'
  BY <1>12 DEF Readback
<1>13. ASSUME NEW g \in Gets, ReadbackFails(g)
      PROVE  HolderInv'
  BY <1>13 DEF ReadbackFails
<1>14. ASSUME NEW g \in Gets, ReadbackRaises(g)
      PROVE  HolderInv'
  BY <1>14 DEF ReadbackRaises
<1>15. ASSUME NEW g \in Gets, AnswerGet(g)
      PROVE  HolderInv'
  BY <1>15 DEF AnswerGet
<1>16. ASSUME NEW r \in Threads, Reject(r)
      PROVE  HolderInv'
  BY <1>16 DEF Reject
<1>17. CASE LateCommand
  BY <1>17 DEF LateCommand
<1>18. CASE Crash
  BY <1>18 DEF Crash
<1>19. CASE Restart
  BY <1>19 DEF Restart
<1>20. CASE UNCHANGED vars
  BY <1>20
<1> QED
  BY <1>1, <1>2, <1>3, <1>4, <1>5, <1>6, <1>7, <1>8, <1>9, <1>10, <1>11, <1>12,
     <1>13, <1>14, <1>15, <1>16, <1>17, <1>18, <1>19, <1>20 DEF Next, Put, Get,
     Quiescent

\* A handler answers once, at its end.
LEMMA AnswerStep ==
  ASSUME TypeOK, AnswerInv, [Next]_vars
  PROVE  AnswerInv'
<1> USE ThreadsAssumption DEF TypeOK, AnswerInv, vars, requestVars, cameraVars,
        storeVars, getVars, Threads, Sources, Answer, Goto, CarryOut
<1>1. ASSUME NEW p \in Puts, AcceptPut(p) \/ Unavailable(p) \/ SendCommand(p)
      PROVE  AnswerInv'
  BY <1>1 DEF AcceptPut, Unavailable, SendCommand
<1>2. ASSUME NEW p \in Puts, CommandOk(p)
      PROVE  AnswerInv'
  BY <1>2 DEF CommandOk
<1>3. ASSUME NEW p \in Puts, CommandUncertain(p)
      PROVE  AnswerInv'
  BY <1>3 DEF CommandUncertain
<1>4. ASSUME NEW p \in Puts, CommandFailed(p)
      PROVE  AnswerInv'
  BY <1>4 DEF CommandFailed
<1>5. ASSUME NEW p \in Puts, EnterStore(p)
      PROVE  AnswerInv'
  BY <1>5 DEF EnterStore
<1>6. ASSUME NEW p \in Puts, SetMemory(p)
      PROVE  AnswerInv'
  BY <1>6 DEF SetMemory
<1>7. ASSUME NEW p \in Puts, WriteTemp(p)
      PROVE  AnswerInv'
  BY <1>7 DEF WriteTemp
<1>8. ASSUME NEW p \in Puts, Replace(p)
      PROVE  AnswerInv'
  BY <1>8 DEF Replace
<1>9. ASSUME NEW p \in Puts, StoreFails(p)
      PROVE  AnswerInv'
  BY <1>9 DEF StoreFails
<1>10. ASSUME NEW g \in Gets, BeginGet(g)
      PROVE  AnswerInv'
  BY <1>10 DEF BeginGet
<1>11. ASSUME NEW g \in Gets, CopyValues(g)
      PROVE  AnswerInv'
  BY <1>11 DEF CopyValues
<1>12. ASSUME NEW g \in Gets, Readback(g)
      PROVE  AnswerInv'
  BY <1>12 DEF Readback
<1>13. ASSUME NEW g \in Gets, ReadbackFails(g)
      PROVE  AnswerInv'
  BY <1>13 DEF ReadbackFails
<1>14. ASSUME NEW g \in Gets, ReadbackRaises(g)
      PROVE  AnswerInv'
  BY <1>14 DEF ReadbackRaises
<1>15. ASSUME NEW g \in Gets, AnswerGet(g)
      PROVE  AnswerInv'
  BY <1>15 DEF AnswerGet
<1>16. ASSUME NEW r \in Threads, Reject(r)
      PROVE  AnswerInv'
  BY <1>16 DEF Reject
<1>17. CASE LateCommand
  BY <1>17 DEF LateCommand
<1>18. CASE Crash
  BY <1>18 DEF Crash
<1>19. CASE Restart
  BY <1>19 DEF Restart
<1>20. CASE UNCHANGED vars
  BY <1>20
<1> QED
  BY <1>1, <1>2, <1>3, <1>4, <1>5, <1>6, <1>7, <1>8, <1>9, <1>10, <1>11, <1>12,
     <1>13, <1>14, <1>15, <1>16, <1>17, <1>18, <1>19, <1>20 DEF Next, Put, Get,
     Quiescent

\* A value gets its time when it is put into memory.
LEMMA StampStep ==
  ASSUME TypeOK, AnswerInv, WriterInv, StampInv, [Next]_vars
  PROVE  StampInv'
<1> USE ThreadsAssumption DEF TypeOK, AnswerInv, StampInv, vars, requestVars,
        cameraVars, storeVars, getVars, Threads, Sources, Answer, Goto, CarryOut
<1>1. ASSUME NEW p \in Puts, AcceptPut(p) \/ Unavailable(p) \/ SendCommand(p)
      PROVE  StampInv'
  BY <1>1 DEF AcceptPut, Unavailable, SendCommand
<1>2. ASSUME NEW p \in Puts, CommandOk(p)
      PROVE  StampInv'
  BY <1>2 DEF CommandOk
<1>3. ASSUME NEW p \in Puts, CommandUncertain(p)
      PROVE  StampInv'
  BY <1>3 DEF CommandUncertain
<1>4. ASSUME NEW p \in Puts, CommandFailed(p)
      PROVE  StampInv'
  BY <1>4 DEF CommandFailed
<1>5. ASSUME NEW p \in Puts, EnterStore(p)
      PROVE  StampInv'
  BY <1>5 DEF EnterStore
<1>6. ASSUME NEW p \in Puts, SetMemory(p)
      PROVE  StampInv'
  BY <1>6 DEF SetMemory
<1>7. ASSUME NEW p \in Puts, WriteTemp(p)
      PROVE  StampInv'
  BY <1>7 DEF WriteTemp
<1>8. ASSUME NEW p \in Puts, Replace(p)
      PROVE  StampInv'
  BY <1>8 DEF Replace, WriterInv
<1>9. ASSUME NEW p \in Puts, StoreFails(p)
      PROVE  StampInv'
  BY <1>9 DEF StoreFails
<1>10. ASSUME NEW g \in Gets, BeginGet(g)
      PROVE  StampInv'
  BY <1>10 DEF BeginGet
<1>11. ASSUME NEW g \in Gets, CopyValues(g)
      PROVE  StampInv'
  BY <1>11 DEF CopyValues
<1>12. ASSUME NEW g \in Gets, Readback(g)
      PROVE  StampInv'
  BY <1>12 DEF Readback
<1>13. ASSUME NEW g \in Gets, ReadbackFails(g)
      PROVE  StampInv'
  BY <1>13 DEF ReadbackFails
<1>14. ASSUME NEW g \in Gets, ReadbackRaises(g)
      PROVE  StampInv'
  BY <1>14 DEF ReadbackRaises
<1>15. ASSUME NEW g \in Gets, AnswerGet(g)
      PROVE  StampInv'
  BY <1>15 DEF AnswerGet
<1>16. ASSUME NEW r \in Threads, Reject(r)
      PROVE  StampInv'
  BY <1>16 DEF Reject
<1>17. CASE LateCommand
  BY <1>17 DEF LateCommand
<1>18. CASE Crash
  BY <1>18 DEF Crash
<1>19. CASE Restart
  BY <1>19 DEF Restart
<1>20. CASE UNCHANGED vars
  BY <1>20
<1> QED
  BY <1>1, <1>2, <1>3, <1>4, <1>5, <1>6, <1>7, <1>8, <1>9, <1>10, <1>11, <1>12,
     <1>13, <1>14, <1>15, <1>16, <1>17, <1>18, <1>19, <1>20 DEF Next, Put, Get,
     Quiescent

\* Only the whole memory ever becomes the file.
LEMMA OrderStep ==
  ASSUME TypeOK, HolderInv, StampInv, WriterInv, OrderInv, [Next]_vars
  PROVE  OrderInv'
<1> USE ThreadsAssumption DEF TypeOK, OrderInv, vars, requestVars, cameraVars,
        storeVars, getVars, Threads, Sources, Answer, Goto, CarryOut
<1>1. ASSUME NEW p \in Puts, AcceptPut(p) \/ Unavailable(p) \/ SendCommand(p)
      PROVE  OrderInv'
  BY <1>1 DEF AcceptPut, Unavailable, SendCommand
<1>2. ASSUME NEW p \in Puts, CommandOk(p)
      PROVE  OrderInv'
  BY <1>2 DEF CommandOk
<1>3. ASSUME NEW p \in Puts, CommandUncertain(p)
      PROVE  OrderInv'
  BY <1>3 DEF CommandUncertain
<1>4. ASSUME NEW p \in Puts, CommandFailed(p)
      PROVE  OrderInv'
  BY <1>4 DEF CommandFailed
<1>5. ASSUME NEW p \in Puts, EnterStore(p)
      PROVE  OrderInv'
  BY <1>5 DEF EnterStore
<1>6. ASSUME NEW p \in Puts, SetMemory(p)
      PROVE  OrderInv'
  BY <1>6 DEF SetMemory, StampInv
<1>7. ASSUME NEW p \in Puts, WriteTemp(p)
      PROVE  OrderInv'
  BY <1>7 DEF WriteTemp
<1>8. ASSUME NEW p \in Puts, Replace(p)
      PROVE  OrderInv'
  BY <1>8 DEF Replace, WriterInv
<1>9. ASSUME NEW p \in Puts, StoreFails(p)
      PROVE  OrderInv'
  BY <1>9 DEF StoreFails
<1>10. ASSUME NEW g \in Gets, BeginGet(g)
      PROVE  OrderInv'
  BY <1>10 DEF BeginGet
<1>11. ASSUME NEW g \in Gets, CopyValues(g)
      PROVE  OrderInv'
  BY <1>11 DEF CopyValues
<1>12. ASSUME NEW g \in Gets, Readback(g)
      PROVE  OrderInv'
  BY <1>12 DEF Readback
<1>13. ASSUME NEW g \in Gets, ReadbackFails(g)
      PROVE  OrderInv'
  BY <1>13 DEF ReadbackFails
<1>14. ASSUME NEW g \in Gets, ReadbackRaises(g)
      PROVE  OrderInv'
  BY <1>14 DEF ReadbackRaises
<1>15. ASSUME NEW g \in Gets, AnswerGet(g)
      PROVE  OrderInv'
  BY <1>15 DEF AnswerGet
<1>16. ASSUME NEW r \in Threads, Reject(r)
      PROVE  OrderInv'
  BY <1>16 DEF Reject
<1>17. CASE LateCommand
  BY <1>17 DEF LateCommand
<1>18. CASE Crash
  BY <1>18 DEF Crash
<1>19. CASE Restart
  BY <1>19 DEF Restart
<1>20. CASE UNCHANGED vars
  BY <1>20
<1> QED
  BY <1>1, <1>2, <1>3, <1>4, <1>5, <1>6, <1>7, <1>8, <1>9, <1>10, <1>11, <1>12,
     <1>13, <1>14, <1>15, <1>16, <1>17, <1>18, <1>19, <1>20 DEF Next, Put, Get,
     Quiescent

\* Nobody changes memory under a writer.
LEMMA WriterStep ==
  ASSUME TypeOK, HolderInv, WriterInv, [Next]_vars
  PROVE  WriterInv'
<1> USE ThreadsAssumption DEF TypeOK, HolderInv, WriterInv, Storing, vars,
        requestVars, cameraVars, storeVars, getVars, Threads, Sources, Answer,
        Goto, CarryOut
<1>1. ASSUME NEW p \in Puts, AcceptPut(p) \/ Unavailable(p) \/ SendCommand(p)
      PROVE  WriterInv'
  BY <1>1 DEF AcceptPut, Unavailable, SendCommand
<1>2. ASSUME NEW p \in Puts, CommandOk(p)
      PROVE  WriterInv'
  BY <1>2 DEF CommandOk
<1>3. ASSUME NEW p \in Puts, CommandUncertain(p)
      PROVE  WriterInv'
  BY <1>3 DEF CommandUncertain
<1>4. ASSUME NEW p \in Puts, CommandFailed(p)
      PROVE  WriterInv'
  BY <1>4 DEF CommandFailed
<1>5. ASSUME NEW p \in Puts, EnterStore(p)
      PROVE  WriterInv'
  BY <1>5 DEF EnterStore
<1>6. ASSUME NEW p \in Puts, SetMemory(p)
      PROVE  WriterInv'
  BY <1>6 DEF SetMemory
<1>7. ASSUME NEW p \in Puts, WriteTemp(p)
      PROVE  WriterInv'
  BY <1>7 DEF WriteTemp
<1>8. ASSUME NEW p \in Puts, Replace(p)
      PROVE  WriterInv'
  BY <1>8 DEF Replace
<1>9. ASSUME NEW p \in Puts, StoreFails(p)
      PROVE  WriterInv'
  BY <1>9 DEF StoreFails
<1>10. ASSUME NEW g \in Gets, BeginGet(g)
      PROVE  WriterInv'
  BY <1>10 DEF BeginGet
<1>11. ASSUME NEW g \in Gets, CopyValues(g)
      PROVE  WriterInv'
  BY <1>11 DEF CopyValues
<1>12. ASSUME NEW g \in Gets, Readback(g)
      PROVE  WriterInv'
  BY <1>12 DEF Readback
<1>13. ASSUME NEW g \in Gets, ReadbackFails(g)
      PROVE  WriterInv'
  BY <1>13 DEF ReadbackFails
<1>14. ASSUME NEW g \in Gets, ReadbackRaises(g)
      PROVE  WriterInv'
  BY <1>14 DEF ReadbackRaises
<1>15. ASSUME NEW g \in Gets, AnswerGet(g)
      PROVE  WriterInv'
  BY <1>15 DEF AnswerGet
<1>16. ASSUME NEW r \in Threads, Reject(r)
      PROVE  WriterInv'
  BY <1>16 DEF Reject
<1>17. CASE LateCommand
  BY <1>17 DEF LateCommand
<1>18. CASE Crash
  BY <1>18 DEF Crash
<1>19. CASE Restart
  BY <1>19 DEF Restart
<1>20. CASE UNCHANGED vars
  BY <1>20
<1> QED
  BY <1>1, <1>2, <1>3, <1>4, <1>5, <1>6, <1>7, <1>8, <1>9, <1>10, <1>11, <1>12,
     <1>13, <1>14, <1>15, <1>16, <1>17, <1>18, <1>19, <1>20 DEF Next, Put, Get,
     Quiescent

\* Only what was carried out reaches memory, a temporary file or the file.
LEMMA CarriedStep ==
  ASSUME TypeOK, HolderInv, WriterInv, CarriedInv, [Next]_vars
  PROVE  CarriedInv'
<1> USE ThreadsAssumption DEF TypeOK, CarriedInv, OnlyAcceptedIsStored, Storing,
        vars, requestVars, cameraVars, storeVars, getVars, Threads, Sources,
        Answer, Goto, CarryOut
<1>1. ASSUME NEW p \in Puts, AcceptPut(p) \/ Unavailable(p) \/ SendCommand(p)
      PROVE  CarriedInv'
  BY <1>1 DEF AcceptPut, Unavailable, SendCommand
<1>2. ASSUME NEW p \in Puts, CommandOk(p)
      PROVE  CarriedInv'
  BY <1>2 DEF CommandOk
<1>3. ASSUME NEW p \in Puts, CommandUncertain(p)
      PROVE  CarriedInv'
  BY <1>3 DEF CommandUncertain
<1>4. ASSUME NEW p \in Puts, CommandFailed(p)
      PROVE  CarriedInv'
  BY <1>4 DEF CommandFailed
<1>5. ASSUME NEW p \in Puts, EnterStore(p)
      PROVE  CarriedInv'
  BY <1>5 DEF EnterStore
<1>6. ASSUME NEW p \in Puts, SetMemory(p)
      PROVE  CarriedInv'
  BY <1>6 DEF SetMemory
<1>7. ASSUME NEW p \in Puts, WriteTemp(p)
      PROVE  CarriedInv'
  BY <1>7 DEF WriteTemp
<1>8. ASSUME NEW p \in Puts, Replace(p)
      PROVE  CarriedInv'
  BY <1>8 DEF Replace, WriterInv
<1>9. ASSUME NEW p \in Puts, StoreFails(p)
      PROVE  CarriedInv'
  BY <1>9 DEF StoreFails
<1>10. ASSUME NEW g \in Gets, BeginGet(g)
      PROVE  CarriedInv'
  BY <1>10 DEF BeginGet
<1>11. ASSUME NEW g \in Gets, CopyValues(g)
      PROVE  CarriedInv'
  BY <1>11 DEF CopyValues
<1>12. ASSUME NEW g \in Gets, Readback(g)
      PROVE  CarriedInv'
  BY <1>12 DEF Readback
<1>13. ASSUME NEW g \in Gets, ReadbackFails(g)
      PROVE  CarriedInv'
  BY <1>13 DEF ReadbackFails
<1>14. ASSUME NEW g \in Gets, ReadbackRaises(g)
      PROVE  CarriedInv'
  BY <1>14 DEF ReadbackRaises
<1>15. ASSUME NEW g \in Gets, AnswerGet(g)
      PROVE  CarriedInv'
  BY <1>15 DEF AnswerGet
<1>16. ASSUME NEW r \in Threads, Reject(r)
      PROVE  CarriedInv'
  BY <1>16 DEF Reject
<1>17. CASE LateCommand
  BY <1>17 DEF LateCommand
<1>18. CASE Crash
  BY <1>18 DEF Crash
<1>19. CASE Restart
  BY <1>19 DEF Restart
<1>20. CASE UNCHANGED vars
  BY <1>20
<1> QED
  BY <1>1, <1>2, <1>3, <1>4, <1>5, <1>6, <1>7, <1>8, <1>9, <1>10, <1>11, <1>12,
     <1>13, <1>14, <1>15, <1>16, <1>17, <1>18, <1>19, <1>20 DEF Next, Put, Get,
     Quiescent

\* The file only moves forward in time.
LEMMA AckedStep ==
  ASSUME TypeOK, AnswerInv, StampInv, OrderInv, WriterInv, AckedIsDurable, [Next]_vars
  PROVE  AckedIsDurable'
<1> USE ThreadsAssumption DEF TypeOK, AckedIsDurable, vars, requestVars,
        cameraVars, storeVars, getVars, Threads, Sources, Answer, Goto, CarryOut
<1>1. ASSUME NEW p \in Puts, AcceptPut(p) \/ Unavailable(p) \/ SendCommand(p)
      PROVE  AckedIsDurable'
  BY <1>1 DEF AcceptPut, Unavailable, SendCommand
<1>2. ASSUME NEW p \in Puts, CommandOk(p)
      PROVE  AckedIsDurable'
  BY <1>2 DEF CommandOk
<1>3. ASSUME NEW p \in Puts, CommandUncertain(p)
      PROVE  AckedIsDurable'
  BY <1>3 DEF CommandUncertain
<1>4. ASSUME NEW p \in Puts, CommandFailed(p)
      PROVE  AckedIsDurable'
  BY <1>4 DEF CommandFailed
<1>5. ASSUME NEW p \in Puts, EnterStore(p)
      PROVE  AckedIsDurable'
  BY <1>5 DEF EnterStore
<1>6. ASSUME NEW p \in Puts, SetMemory(p)
      PROVE  AckedIsDurable'
  BY <1>6 DEF SetMemory, StampInv, AnswerInv
<1>7. ASSUME NEW p \in Puts, WriteTemp(p)
      PROVE  AckedIsDurable'
  BY <1>7 DEF WriteTemp
<1>8. ASSUME NEW p \in Puts, Replace(p)
      PROVE  AckedIsDurable'
  BY <1>8 DEF Replace, StampInv, OrderInv, WriterInv
<1>9. ASSUME NEW p \in Puts, StoreFails(p)
      PROVE  AckedIsDurable'
  BY <1>9 DEF StoreFails
<1>10. ASSUME NEW g \in Gets, BeginGet(g)
      PROVE  AckedIsDurable'
  BY <1>10 DEF BeginGet
<1>11. ASSUME NEW g \in Gets, CopyValues(g)
      PROVE  AckedIsDurable'
  BY <1>11 DEF CopyValues
<1>12. ASSUME NEW g \in Gets, Readback(g)
      PROVE  AckedIsDurable'
  BY <1>12 DEF Readback
<1>13. ASSUME NEW g \in Gets, ReadbackFails(g)
      PROVE  AckedIsDurable'
  BY <1>13 DEF ReadbackFails
<1>14. ASSUME NEW g \in Gets, ReadbackRaises(g)
      PROVE  AckedIsDurable'
  BY <1>14 DEF ReadbackRaises
<1>15. ASSUME NEW g \in Gets, AnswerGet(g)
      PROVE  AckedIsDurable'
  BY <1>15 DEF AnswerGet
<1>16. ASSUME NEW r \in Threads, Reject(r)
      PROVE  AckedIsDurable'
  BY <1>16 DEF Reject
<1>17. CASE LateCommand
  BY <1>17 DEF LateCommand
<1>18. CASE Crash
  BY <1>18 DEF Crash
<1>19. CASE Restart
  BY <1>19 DEF Restart
<1>20. CASE UNCHANGED vars
  BY <1>20
<1> QED
  BY <1>1, <1>2, <1>3, <1>4, <1>5, <1>6, <1>7, <1>8, <1>9, <1>10, <1>11, <1>12,
     <1>13, <1>14, <1>15, <1>16, <1>17, <1>18, <1>19, <1>20 DEF Next, Put, Get,
     Quiescent

\* A copy of memory is not older than the file.
LEMMA CopyStep ==
  ASSUME TypeOK, AnswerInv, StampInv, OrderInv, AckedIsDurable, CopyInv, [Next]_vars
  PROVE  CopyInv'
<1> USE ThreadsAssumption DEF TypeOK, AnswerInv, CopyInv, vars, requestVars,
        cameraVars, storeVars, getVars, Threads, Sources, Answer, Goto, CarryOut
<1>1. ASSUME NEW p \in Puts, AcceptPut(p) \/ Unavailable(p) \/ SendCommand(p)
      PROVE  CopyInv'
  <2>1. CASE AcceptPut(p)
    BY <2>1 DEF AcceptPut
  <2>2. CASE Unavailable(p)
    BY <2>2 DEF Unavailable
  <2>3. CASE SendCommand(p)
    BY <2>3 DEF SendCommand
  <2> QED
    BY <1>1, <2>1, <2>2, <2>3
<1>2. ASSUME NEW p \in Puts, CommandOk(p)
      PROVE  CopyInv'
  BY <1>2 DEF CommandOk
<1>3. ASSUME NEW p \in Puts, CommandUncertain(p)
      PROVE  CopyInv'
  BY <1>3 DEF CommandUncertain
<1>4. ASSUME NEW p \in Puts, CommandFailed(p)
      PROVE  CopyInv'
  <2>1. PICK code \in {"502", "dropped"} : Answer(p, code)
    BY <1>4 DEF CommandFailed
  <2>2. UNCHANGED <<storeVars, getVars>> /\ pc[p] = "sent"
    BY <1>4 DEF CommandFailed
  <2>3. status[p] = "none"
    BY <2>2
  <2> HIDE <1>4
  <2>4. \A q \in Puts : status[q] = "200" => status'[q] = "200"
    BY <2>1, <2>3
  <2>5. \A g \in Gets : pc'[g] = pc[g] /\ status'[g] = status[g]
    BY <2>1
  <2>6. key' = key
    BY <2>1
  <2> QED
    BY ONLY <2>2, <2>4, <2>5, <2>6, CopyInv DEF CopyInv, storeVars, getVars
<1>5. ASSUME NEW p \in Puts, EnterStore(p)
      PROVE  CopyInv'
  BY <1>5 DEF EnterStore
<1>6. ASSUME NEW p \in Puts, SetMemory(p)
      PROVE  CopyInv'
  BY <1>6 DEF SetMemory, StampInv
<1>7. ASSUME NEW p \in Puts, WriteTemp(p)
      PROVE  CopyInv'
  BY <1>7 DEF WriteTemp
<1>8. ASSUME NEW p \in Puts, Replace(p)
      PROVE  CopyInv'
  BY <1>8 DEF Replace
<1>9. ASSUME NEW p \in Puts, StoreFails(p)
      PROVE  CopyInv'
  BY <1>9 DEF StoreFails
<1>10. ASSUME NEW g \in Gets, BeginGet(g)
      PROVE  CopyInv'
  BY <1>10 DEF BeginGet
<1>11. ASSUME NEW g \in Gets, CopyValues(g)
      PROVE  CopyInv'
  BY <1>11 DEF CopyValues, OrderInv, AckedIsDurable
<1>12. ASSUME NEW g \in Gets, Readback(g)
      PROVE  CopyInv'
  BY <1>12 DEF Readback
<1>13. ASSUME NEW g \in Gets, ReadbackFails(g)
      PROVE  CopyInv'
  BY <1>13 DEF ReadbackFails
<1>14. ASSUME NEW g \in Gets, ReadbackRaises(g)
      PROVE  CopyInv'
  BY <1>14 DEF ReadbackRaises
<1>15. ASSUME NEW g \in Gets, AnswerGet(g)
      PROVE  CopyInv'
  BY <1>15 DEF AnswerGet
<1>16. ASSUME NEW r \in Threads, Reject(r)
      PROVE  CopyInv'
  BY <1>16 DEF Reject
<1>17. CASE LateCommand
  BY <1>17 DEF LateCommand
<1>18. CASE Crash
  BY <1>18 DEF Crash
<1>19. CASE Restart
  BY <1>19 DEF Restart
<1>20. CASE UNCHANGED vars
  BY <1>20
<1> QED
  BY <1>1, <1>2, <1>3, <1>4, <1>5, <1>6, <1>7, <1>8, <1>9, <1>10, <1>11, <1>12,
     <1>13, <1>14, <1>15, <1>16, <1>17, <1>18, <1>19, <1>20 DEF Next, Put, Get,
     Quiescent

\* The initial states satisfy the inductive invariant.
LEMMA InitIInv == Init => IInv
<1> SUFFICES ASSUME Init PROVE IInv
  OBVIOUS
<1> USE ThreadsAssumption DEF Init, Untouched, Threads, Sources
<1>1. TypeOK
  <2>1. late \in Seq(Puts)
    BY EmptySeq
  <2>2. /\ up \in BOOLEAN
        /\ clock \in Nat /\ crashes \in Nat /\ writeFaults \in Nat
    OBVIOUS
  <2>3. /\ pc \in [Threads -> {"idle", "control", "sent", "storeLock", "set", "write",
                               "replace", "values", "readback", "done"}]
        /\ status \in [Threads -> Statuses]
        /\ key \in [Puts -> Keys]
        /\ controlLock \in Sources /\ storeLock \in Sources
        /\ carried \in SUBSET Puts /\ actual \in [Keys -> Sources]
        /\ memory \in [Keys -> Sources] /\ disk \in [Keys -> Sources]
        /\ temp \in [Puts -> [Keys -> Sources]]
    BY DEF Statuses
  <2>4. /\ stamp \in [Sources -> Nat]
        /\ unread \in [Gets -> SUBSET ReadableKeys]
        /\ seen \in [Gets -> [Keys -> Sources]]
        /\ source \in [Gets -> [Keys -> {"unknown", "persisted", "readback"}]]
        /\ before \in [Gets -> SUBSET Puts]
    OBVIOUS
  <2> QED
    BY ONLY <2>1, <2>2, <2>3, <2>4 DEF TypeOK
<1>2. HolderInv /\ WriterInv /\ AnswerInv
  BY DEF HolderInv, Storing, WriterInv, AnswerInv
<1>3. StampInv /\ OrderInv
  BY DEF StampInv, OrderInv
<1>4. CarriedInv /\ AckedIsDurable /\ CopyInv
  BY DEF CarriedInv, OnlyAcceptedIsStored, Storing, AckedIsDurable, CopyInv
<1> QED
  BY ONLY <1>1, <1>2, <1>3, <1>4 DEF IInv

\* Every step keeps the inductive invariant.
LEMMA StepIInv == IInv /\ [Next]_vars => IInv'
  BY TypeStep, HolderStep, AnswerStep, StampStep, OrderStep, WriterStep,
     CarriedStep, AckedStep, CopyStep
  DEF IInv

\* The inductive invariant always holds.
LEMMA Invariance == Spec => []IInv
  BY InitIInv, StepIInv, PTL DEF Spec

\* Every variable keeps its type, whatever the threads and the crashes do.
THEOREM TypeCorrect == Spec => []TypeOK
<1>1. IInv => TypeOK
  BY DEF IInv
<1> QED
  BY <1>1, Invariance, PTL

\* A PUT that ControlAPI answered 200 is never lost from control_state.json
\* except to a PUT that reached the store after it.
THEOREM Durable == Spec => []AckedIsDurable
<1>1. IInv => AckedIsDurable
  BY DEF IInv
<1> QED
  BY <1>1, Invariance, PTL

\* Neither memory nor the file ever holds the value of a command that the camera
\* has not carried out.
THEOREM NothingInvented == Spec => []OnlyAcceptedIsStored
<1>1. IInv => OnlyAcceptedIsStored
  BY DEF IInv, CarriedInv
<1> QED
  BY <1>1, Invariance, PTL

\* A camera detail is never older than the PUTs answered before it was asked for.
THEOREM WritesAreRead == Spec => []ReadYourWrites
<1>1. IInv => ReadYourWrites
  BY DEF IInv, CopyInv, ReadYourWrites
<1> QED
  BY <1>1, Invariance, PTL
=============================================================================
